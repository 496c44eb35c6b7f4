# Riley: TLA+ models of the inference server

Riley is an LLM inference server in Rust over CUDA kernels of its own. This
directory specifies the parts of it that keep state and have to get a protocol
right, from the HTTP listener down to the all-reduce of several devices. TLC
checks small instances of each part; TLAPS proves, for every size, the safety of
the KV allocator, the engine, the HTTP service and delivery, the backend, device
memory, the stop-string search and the all-reduce protocol, and every safety
property of the scheduler and its prefix cache.

`PROJECT.json` maps every definition to the source lines it models and lists
the components, runs, mutants, hazards, findings and theorems.

## The system

| Component | State | Operations | Interacts with |
|---|---|---|---|
| HTTP service (`riley-server/src/service.rs`, `http.rs`, `signal.rs`) | stop flag, queue of accepted connections, registry of open ones, deadlines, one delivery per worker | accept, register, queue, take, frame, stream or collect, shut down | submits to the engine, reads event channels, writes sockets |
| API and rendering (`openai.rs`, `chat.rs`, `structured.rs`, `domain.rs`) | SSE encoder, token collector, tool-call filter | encode, observe, hold back, parse calls | used by the service |
| Engine worker (`riley-server/src/engine.rs`) | lifecycle, command queue, request map, cancellation flag and event channel per request, outbox, gauges | submit, cancel, drop, recv, shutdown; the worker's loop | HTTP workers on one side, the backend on the other |
| CUDA backend (same file, `riley-scheduler/src/execution.rs`) | request entries, the scheduler, the device's resources, audit sink | admit, cancel, step, shutdown | called by the engine's worker; calls scheduler, executor and sampler |
| Scheduler (`riley-scheduler/src/scheduler.rs`) | request records, waiting queue, promises, the plan in flight, outbox of completions | submit, plan, complete, abort, cancel, pop, shutdown, close | owns pool, tables and cache |
| Candidate selection (same file, `config.rs`) | ready order, age, aging flag, plateau flag | select_candidates, defer_past_plateau | called by plan_iteration |
| Prefix cache (`prefix_cache.rs`) | trie of full prompt blocks, recency list, vacant ids | find, insert, touch, evict, clear | one reference in the pool per listed block |
| Paged KV pool and block tables (`riley-runtime/src/paged_kv.rs`) | slots with owner, generation, references, sidecar; free list; counters; per sequence a table, committed length, pending reservation, nonce | reserve, commit, rollback, poison, truncate, reset, abandon and reclaim, share, adopt, release, attach a sidecar | called by the scheduler; block ids go to the device |
| Generation and grammars (`generation.rs`, `grammar.rs`) | decoded bytes, held-back text, stop search; interned automaton states, cached transitions and masks, cursors | push a token, finish; mask, advance, trim | used by the backend for every sampled token |
| Tokenizer (`riley-model/src/tokenizer.rs`) | immutable tables; nodes and a heap while it encodes | encode | used on submission |
| CUDA memory (`riley-cuda`, `kernels/src/memory.cu`, `host_runtime.cu`, `graph.cu`) | handles, allocations, use counters, copy tokens, command batches, captures | copy, synchronize, begin and end a batch or a capture, close, drop | every layer that owns device memory |
| Tensor parallelism (`llama/tensor_parallel.rs`, `batch_executor.rs`, `kernels/src/primitives.cu`) | follower threads and their channels; epochs, flags, packets and staging buffers in peer memory | dispatch, execute, wait, close; both all-reduce kernels | the executor under the backend |
| Server binary, model files, tensors, kernels, provenance tool | immutable after start-up, or numeric | load, validate, launch | - |

What is hard here. A reservation spans asynchronous device work, so
cancellation, failure and shutdown arrive while a plan is in flight. Cached
blocks and requests share one pool, so a cached block must never cost an
admitted request its blocks. Entry ids, block ids, sequence ids, automaton
states and epochs are reused and have to be fenced. The selection policies
interact with each other and with fairness. Submitters, consumers, cancellers
and the owner race a worker that must never block on any of them; clients,
deadlines and a stopping server race the HTTP workers. The device keeps using
memory after the call that asked for it has returned, failed or been forgotten.
Text is cut into tokens and events at places that have nothing to do with stop
strings, tags or characters.

## Modules

| Module | Models | Checked by |
|---|---|---|
| `PagedKv` | pool and block tables | `MCPagedKv` |
| `PagedKvProofs` | theorems about `PagedKv`: the pool; shared blocks, tables and tokens | `tlapm` |
| `PrefixIndex` | prefix cache, as operators on an index | through `Scheduler` |
| `Scheduler` | scheduler over an accounting view of the pool; extends `PrefixIndex` | `MCScheduler` |
| `CandidateSelection` | select_candidates and its policies in the plan/complete loop | `MCCandidateSelection` |
| `CudaBackend` | the backend's calls, what may fail in them, and the order of closing | `MCCudaBackend` |
| `RequestStream` | abstract: what a consumer may observe of one request | implemented by `Engine`, assumed by `Delivery` |
| `Engine` | submitters, consumers, owner and worker | `MCEngine`, `MCRequest` |
| `EngineChannel` | the channel of one request of the engine, as a `RequestStream` | `MCRequest` |
| `Delivery` | one HTTP worker delivering one completion | `MCRequest` |
| `Service` | listener, queue, workers, registry, shutdown | `MCService` |
| `Generation` | stop strings and held-back text | `MCText` |
| `Grammar` | constrained decoding over shared automata | `MCText` |
| `Tokenizer` | encoding | `MCText` |
| `ChatStream` | tool calls in streamed and collected chat responses | `MCText` |
| `CudaMemory` | lifetimes of buffers, streams and the context | `MCCudaMemory` |
| `TensorParallel` | leader, followers, all-reduce kernels | `MCTensorParallel` |
| `SchedulerProofs` | theorems about `Scheduler`: requests, plan, counters, order | `tlapm` |
| `CacheProofs` | theorems about `Scheduler` and `PrefixIndex`: the trie, shared blocks, free blocks; extends `SchedulerProofs` | `tlapm` |
| `RequestProofs`, `ServiceProofs`, `BackendProofs`, `CudaMemoryProofs`, `TensorParallelProofs` | theorems about `EngineChannel` and `Delivery`, `Service`, `CudaBackend` and `Generation`, `CudaMemory`, `TensorParallel` | `tlapm` |

How they fit together, top down:

- `Service` treats what a worker does with a connection as one submission that
  ends; `Delivery` is what happens in between.
- `Delivery` reads a channel that behaves as `RequestStream` says, and `Engine`
  implements `RequestStream` for each of its requests
  (`Channel == INSTANCE RequestStream WITH ...` for any one request, property
  `ChannelImplemented` of `EngineChannel`; `StreamsImplemented` of `MCEngine`
  for all at once). The two are checked, and proved, against the same abstract
  specification rather than against each other.
- `Engine` takes the backend by the contract of trait `EngineBackend`;
  `ContractKept` of `CudaBackend` is that contract.
- `CudaBackend` takes the scheduler by what its calls answer;
  `NotifiedExactlyOnce` and `RequestsConsistent` of `Scheduler` are why it may.
- `Scheduler` picks any selection within the contract `Selection`, which
  `SelectionSound` of `CandidateSelection` shows the algorithm keeps. It keeps
  lengths, reservation targets and shared blocks per request; that these
  determine private blocks, references and free blocks is what `TablesSound`,
  `ReferencesExact` and `FreeListExact` of `PagedKv` say. `PagedKv` lets any
  caller make any sequence of calls.
- `CudaMemory` and `TensorParallel` are below the executor, `Generation`,
  `Grammar`, `Tokenizer` and `ChatStream` beside it.

`MCRequest` and `MCText` each hold several modules that share no state. A
variable `subject`, fixed initially, says which of them a behaviour exercises;
the others stay where they start. Every behaviour of every module is thus one of
the run, without the product of their states.

Definitions named after a mutation ("Mutant: ..." in their comment) are not part
of a specification. Each replaces one definition by what a plausible mistake
would make of it, and shows that a property notices.

### PagedKv

State: `slots` and the free list of `KvBlockPool`, its counters, one record per
`SequenceState`, the reservation tokens callers hold and the abandoned sequences
that wait to be reclaimed. A call that the code rejects changes nothing, so it
is a disabled action. The one abstraction is the order of the free list: an
allocation may take any free block. Generations and nonces end at
`MaxGeneration` and `MaxNonce`, where the code's checked additions fail.

- `FreeListExact`, `AccountingExact`: the free list and the counters agree with
  the slots.
- `PrivateBlocksExclusive`: a private block is in one place of one table.
- `ReferencesExact`: a shared block has a reference per holder, no more.
- `TablesSound`: the blocks of a live table are leased to it at the generation
  it remembers (`HeldHandlesValid`), a reservation never covers rows of a shared
  block (`WritesArePrivate`), and a table has the blocks and valid tokens its
  length or its reservation needs (`TableCoversLength`).
- `SidecarsDescribeContent`: a sidecar never outlives the content it describes.
- `LeaseFencing`: an ended lease never becomes valid again.
- `TokensUnforgeable`: a reservation token kept past its reservation matches no
  later one.

### Scheduler and PrefixIndex

State: the `Scheduler` struct as one record, the notifications delivered to the
caller and the phase. Every call is one atomic step, as one thread owns the
scheduler; what interleaves is the order of calls around a plan in flight.
Planning is one step with its admissions, expirations, cache lookups, evictions
and reservations; a plan that cannot reserve is rolled back and recorded as
`out_of_blocks`, which `PromisesKept` excludes. A completion commits, publishes
prompt blocks into the index (evicting one if it is full), applies deferred
cancellations and finishes requests. The clock, metrics and the retention of
terminal records are left out here (`CudaBackend` has the retention): a waiting
request may expire at any plan.

- `PromisesKept`: what requests hold stays within their promises and every
  reservation finds blocks, whatever the cache holds.
- `AdoptedPrefixesSound`: a request reads keys and values of its own prompt
  only, through eviction, reuse of entry ids and device failures.
- `CacheSound`: the index is a well-formed trie, tips are current, and eviction
  finds what can be evicted.
- `NotifiedExactlyOnce`, `NothingLeaks`, `NoOvertaking`: requests end once, an
  idle or closed scheduler holds nothing, admission is in order.
- `RequestsConsistent`: admission counters, reservations of the plan in flight
  and progress of each request agree.

### CandidateSelection

The algorithm as operators on the current state (`Selection`), and around it
arrivals and iterations that plan and complete in one step. The policies are
chosen initially from `Policies`. The server's options exclude atomic chunks
together with burst or coalescing; the scheduler itself does not, and
`PolicyAssumption` follows the options.

- `SelectionSound`: distinct active requests, positive shares, within chunk and
  budget; no combination of policies holds everything back; the plateau policy
  cuts a prompt short once.
- `NoStarvation`: every active request runs again and again.

### CudaBackend

One thread calls the backend, so an action is a whole call: admission, a cancel,
a step with each of its outcomes, shutdown with each error it may go on after.
The device is idle or possibly busy; the scheduler is its live requests, its
plan in flight and its bounded tombstones. With or without decode graphs, with
or without an audit sink. A step can also fail after its commit: an audit sink
that refuses the record of a request that ended (`StepAuditFails`) leaves the
tokens committed and the later completions unprocessed, and all the step had to
tell is lost. The variable `lost` is history: it records whose last token went
that way.

- `KvOutlivesDevice`: a plan whose device work may still run stays in flight and
  its blocks owned, through failed steps and failed shutdowns; a successful
  shutdown leaves nothing open.
- `ContractKept`: while the backend is up, the entries are the live requests and
  these were told every committed token; events are committed tokens in order
  and one terminal event with the right usage; no internal consistency check
  ever fails. After a step that failed past its commit at most that step's token
  is missing, and the one thing that can follow is the cancellation of shutdown,
  whose usage counts the missing token. The engine has failed every request
  itself by then, so no consumer sees that cancellation.

### Engine and RequestStream

State shared by threads: the lifecycle, the command queue, the waiting gauge,
a cancellation flag, an admission answer and an event channel per request. A
channel is the sequence of all events it ever took and how many were read.
Actors: one submitting and consuming thread per request, the owner, the worker
with its map, the backend's work, the outbox and a program counter. A step is
one access to shared state; accesses are merged where the order against other
threads cannot be told apart. The worker publishes one event per step.
`publish_after_submit` is chosen initially. The submit hook delivers staged
events inside `backend.step`, where nothing reads the backend, so the model
delivers after the step. Calls of the backend may fail, up to `MaxFaults` times.

- `ChannelImplemented`, `StreamsImplemented`: each channel is a `RequestStream`:
  the first tokens without a gap, then at most one terminal event, and no sender
  that comes back.
- `BooksAgree`: the gauge counts the waiting submit commands until the worker's
  final store; the map and the backend agree on who is live; `shutdown` returns
  Ok only when nothing is left.
- `NobodyLeftWaiting`: shutdown completes, submitters are answered, abandoned
  requests leave, and a blocked `recv` returns (for engines that publish at
  once; see the observations).

### Delivery

`stream_completion` and `collect_completion` step by step: poll, probe, encode,
write, finish, with the cancellation guard and the request's observation. The
channel takes any step `RequestStream` allows; the client may leave, writes may
fail although it is there or succeed although it is gone, the deadline passes,
the server stops.

- `ResponseFaithful`: what the client reads is a prefix of one valid response,
  and what is counted as completed is all of it, with the usage that token ids
  must match.
- `RequestsSettled`: a worker leaves a request with one observation, answered or
  cancelled.
- `DeliveryReturns`: the worker gets done (`DeliveryEnds`), whatever engine and
  client do.

### Service

The listener with its poll and accept, registration, the bounded queue, workers
that take jobs under a mutex, the framing phase that shutdown closes, the
owner's shutdown with its deadline, accept errors, failures of the backend's
shutdown, and panics of workers. Only the dev profile of `Cargo.toml` unwinds;
the release profile aborts the process (`panic = "abort"`), so `Panic` is a step
of dev builds only. Shutdown handles it (`ThreadPanicked`), and the model keeps
it for that.

- `SlotsSound`: every registry slot in use belongs to one connection that
  somebody holds, and the registry is never tighter than queue and workers.
- `ShutdownSound`: after `shutdown_framing` no worker waits on an open
  connection for a request, and a shutdown that returns Ok left nothing behind.
- `ServiceDrains`: a stopping service ends all its threads, and every connection
  is closed in the end.

### Generation, Grammar, Tokenizer, ChatStream

Each is an incremental algorithm next to a reference definition of what it
computes, over every input of bounded length.

- `OutputIsReference`: wherever token boundaries fall in stop strings and
  characters, what is shown and where generation stops is what a search of the
  whole text decides.
- `OutputInGrammar`, `CachesExact`: requests that share lazily built automata,
  trimmed and evicted in between, generate sentences of their grammar; cached
  states, transitions and masks are what a fresh computation gives. The
  reference is the least fixed point of the rules over strings, without stacks.
- `EncodeIsReference`: added-token trie, hand-written scanner and heap-driven
  merges give what the profile's regular expression and merging by rank define.
- `StreamFaithful`: a streamed chat response ends with the calls and the content
  of the collected one, and text is held back only if it may yet be a call.

### CudaMemory

Handles, allocations and both use counters (that of the Rust object and the
native one) for buffers and streams; copy tokens that are synchronized, dropped
or forgotten; command batches with their bounded ledger; captures with the
closes deferred to their end; any CUDA call may fail. Device accesses are
pending until a synchronization proves them done.

- `DeviceOwnsWhatItUses`: what the device may access is live, out of the host's
  reach and used by one stream.
- `OwnersCanSynchronize`: a capture never cuts an owner off from the
  synchronization it still owes.
- `ContextReleasedLast`: the context goes after everything it owns.

### TensorParallel

The leader's `execute_output`, dispatch, wait and close; follower threads with
channels of one; each rank's device, which runs the calls of an iteration in
stream order, block by block. A datum is its origin (iteration and call). Ranks
refuse, fail midway or die; a spinning block traps when its timer expires.
Epochs wrap at `EpochRange` (2^32 in the code).

- `AllReduceExact`: an iteration reported as executed summed only its own data
  on every rank, and no arrival is overwritten before it was seen.
- `LeaderReturns`: every call of the leader returns.

## Runs

| Run | Instance | Properties |
|---|---|---|
| `paged_kv` | 2 blocks, 2 sequences, block size 2, length up to 3, 2 generations, 2 nonces | the eight of `PagedKv` |
| `scheduler` | 3 requests, 2 prompts, 5 blocks of 2 tokens, index of 2, 2 active, 1 waiting | the seven of `Scheduler` |
| `selection` | 3 requests, budget 4; all three policies at once, or atomic chunks | `SelectionSound`, `NoStarvation` |
| `cuda_backend` | 3 requests of 2 tokens, 2 tombstones, 2 faults, all four configurations | `KvOutlivesDevice`, `ContractKept` |
| `engine` | 2 requests of 1 token, channels and queue of 1, 1 fault, both ways to publish | `BooksAgree`, `StreamsImplemented` |
| `request` | engine: 1 request of 3 tokens, 1 fault; delivery: 3 tokens, streamed or collected, with or without ids | `NobodyLeftWaiting`, `ChannelImplemented`, `ResponseFaithful`, `RequestsSettled`, `DeliveryReturns` |
| `service` | 4 connections, 2 workers, queue of 1 | `SlotsSound`, `ShutdownSound` |
| `service_live` | 2 connections, 2 workers, queue of 1, one fault (accept, shutdown of the backend, panic) | `ShutdownSound`, `ServiceDrains` |
| `text` | see below | the five of the modules about text |
| `cuda_memory` | 2 device buffers, 1 pinned, 2 streams, 2 threads, ledger of 2, 2 faults | the three of `CudaMemory` |
| `tensor_parallel` | 3 ranks, 2 iterations of 2 calls, epochs mod 4, 2 faults | `AllReduceExact`, `LeaderReturns` |
| `engine_lost_token` | 1 request of 2 tokens | expects a violation of `SuccessIsComplete` |

Why the bounds are enough for the cases that matter:

- `paged_kv`: with length 3 and block size 2 there are full and partial blocks,
  boundaries and truncation into either; two sequences over two blocks exhaust
  the pool, share a block, and lease a block again after the other released it;
  two generations and nonces reach reuse and exhaustion. Blocks and sequences
  are symmetric.
- `scheduler`: the two prompts contain the same block of tokens at different
  depths, so a lookup that ignores the parent is noticed; the index is smaller
  than what two prompts publish, so it evicts and reuses ids; three requests are
  more than fit the active and waiting limits together with the promises.
- `selection`: prompts shorter and longer than a chunk, more requests than the
  budget serves at once, thresholds reached within a run.
- `cuda_backend`: two tombstones for three requests, so one is forgotten; two
  faults reach a failing shutdown after a failed step, and one leaves a shutdown
  that succeeds after a step whose events were lost.
- `engine`, `request`: channels of capacity 1 are full after one event; a token
  and a terminal event do not fit; the command queue of 1 refuses a second
  submitter and a wake. Requests are symmetric in `engine`; `request`, which
  checks liveness, has no symmetry. `CounterRange` stands for the 2^64 of the
  gauge. The delivery's `MaximumBytes` and `MaximumOutputTokens` are below what
  the stream may send, so both limits are hit.
- `service`: four connections fill both workers and the queue and leave one that
  is turned away. Connections and workers are symmetric there; `service_live`,
  which checks liveness and adds faults, has no symmetry.
- `text`: scanner inputs up to length 4 over every class of character for the
  three profiles; words up to 6 letters with every trained table of up to 3
  merges; stop strings that overlap and nest, one with a two-byte character,
  tokens of up to two bytes, at most 3 tokens; two requests over a looping and a
  nesting grammar (and two that must be refused), automata of 2 states and a
  cache of one automaton, so that both are dropped in use; chat texts of 5
  events over pieces of tags, calls and text.
- `cuda_memory`: two streams contend for one buffer; the ledger of two overflows.
- `tensor_parallel`: two calls of the same kernel in a row let a fast rank be one
  call ahead; four calls wrap the epoch; with three ranks a dispatch can stop
  after the first follower.

Deadlock is not checked where the system may stop for good (after close, with
all sequences closed, after the worker is gone, after the leader is closed);
selection, service and text check it.

Fairness. `CandidateSelection`: the worker plans again as long as the backend is
not idle (`worker_main`), so iterations go on while a request is active; the
formula spells out weak fairness of the iteration. `Engine`: weak fairness of
the worker's steps only; the worker blocks nowhere except in `recv_timeout`,
which returns after the idle interval, and backend calls are finite by the
contract of `EngineBackend`; nothing is assumed of submitters, consumers or the
owner. `Delivery`: weak fairness of the worker, whose waits all have timeouts,
and of the passing of its deadline; none of engine, client or server. `Service`:
weak fairness of the listener, the owner and each worker; none of clients, the
clock or whoever may call shutdown. `TensorParallel`: weak fairness of the
leader, each follower thread and each device, the trap of a spinning block
included, since it reads a global timer; whether another iteration or a close
comes is not assumed. The other modules state no fairness.

## Finding

`engine_lost_token`. A step commits a token and finishes the request. The
channel is full: the token is dropped and the request marked for cancellation.
The consumer reads an event, and the finished event now fits: the consumer sees
success with a token missing. `ResponseFaithful` shows that a response with
token ids is not passed off as complete then, since its usage does not match.

Observations made while modelling, which no run states:

- `docs/prefix-cache.md` says that eviction "runs only when a plan needs
  blocks". Completing an iteration also evicts, when the index has no room for a
  block it publishes (`publish_prompt_blocks`).
- The worker's last act on `waiting_requests` is a store of 0. A submitter that
  has added 1 and whose send then fails subtracts 1 afterwards: the gauge wraps
  to `usize::MAX` in a stopped engine. `WaitingExact` therefore ends before that
  store.
- With `publish_after_submit`, request A finishes in a step that leaves B
  running, so A's last events are staged for the next submission. If B is
  cancelled before it, no step follows, the worker idles, and A's consumer waits
  until another request arrives or the engine stops. `RecvReturns` therefore
  speaks of engines that publish at once.
- In a build that unwinds (the dev profile, not the release profile), a worker of
  the HTTP service that panics drops its submission, but the registry keeps the
  connection's slot and its duplicate of the socket. `ConnectionsClosed`
  therefore excludes it.
- A step whose audit record is refused has committed tokens that no event
  carries. The engine fails all its requests then, and nobody uses what the
  backend's shutdown returns for them; a caller of the backend that did would get
  a cancelled usage one above the tokens it saw.
- `adopt_shared_block` checks the table's capacity in blocks, so it may take the
  length past a `maximum_logical_length` that is no multiple of the block size.
  The scheduler never adopts that far.

## Proofs

Eight modules hold theorems. Each proves its properties for every value of the
constants, from the named assumptions of the module it extends, along one
inductive invariant with a lemma per action.

| Module | Theorems | Properties proved | Assumptions |
|---|---|---|---|
| `PagedKvProofs`, pool | `TypeCorrect`, `FreeListCorrect`, `AccountingCorrect`, `OwnershipCorrect`, `LeaseFencingCorrect` | `TypeOK`, `FreeListExact`, `AccountingExact`, `PrivateBlocksExclusive`, `LeaseFencing` | `ConstantsAssumption` (finite blocks and sequences, sizes are naturals), `NoneAssumption` |
| `PagedKvProofs`, tables | `ReferencesCorrect`, `TablesCorrect`, `SidecarsCorrect`, `TokensCorrect` | `ReferencesExact`, `TablesSound`, `SidecarsDescribeContent`, `TokensUnforgeable` | the same |
| `SchedulerProofs` | `ReportedExactlyOnce`, `RequestsAgree`, `FirstComeFirstServed`, `CountersAddUp`, `PromisesCover` | `NotifiedExactlyOnce`, `RequestsConsistent`, `NoOvertaking`; its `CountersExact`; `HeldWithinPromises` of `PromisesKept` | `ConfigAssumption` (`SchedulerConfig::validate`) |
| `CacheProofs` | `CacheStaysSound`, `AdoptedStaySound`, `NothingIsLeaked`, `PromisesAreKept` | `CacheSound`, `AdoptedPrefixesSound`, `NothingLeaks`, `PromisesKept` | the same, `CapacityAssumption` (the cache has a natural number of entries), `VacantAssumption` (the value of an empty slot is no entry) |
| `RequestProofs`, engine | `BooksCorrect`, `ChannelCorrect` | `BooksAgree`, `ChannelImplemented` | `ConfigAssumption` (capacities are positive, fewer requests than the gauge can count), `ChosenAssumption` |
| `RequestProofs`, delivery | `ResponseCorrect`, `SettledCorrect` | `ResponseFaithful`, `RequestsSettled` | `DeliveryAssumption` (limits are positive) |
| `ServiceProofs` | `SlotsCorrect`, `ShutdownCorrect` | `SlotsSound`, `ShutdownSound` | `ServiceAssumption` (finite connections and workers, a worker, a queue) |
| `BackendProofs`, calls | `KvCorrect`, `ContractCorrect` | `KvOutlivesDevice`, `ContractKept` | `CapacityAssumption` |
| `CudaMemoryProofs` | `DeviceUseCorrect`, `SynchronizeCorrect`, `ContextReleaseCorrect` | `DeviceOwnsWhatItUses`, `OwnersCanSynchronize`, `ContextReleasedLast` | `DistinctResources` (finite sets), `NoneIsNoToken` |
| `BackendProofs`, generation | `OutputCorrect` | `OutputIsReference` | `TextAssumption` (tokens decode to bytes), `RequestAssumption` (`GenerationRequest::validate`) |
| `TensorParallelProofs` | `AllReduceCorrect`, `RanksAbreast` | `AllReduceExact` | `SizeAssumption` (a follower at least), `EpochAssumption` (an even number of epochs above 2), `CallAssumption` (calls use blocks the signal area has) |

None of the properties is inductive alone. What each invariant adds, and why:

- `PagedKvProofs`, pool. `IInv` joins the four invariants with two facts: shared slots
  have a positive number of references (`SharedHaveReferences`; otherwise
  releasing the last one would miss the free list), and every table is bounded
  by its count, with its shared blocks first (`TablesBounded`; otherwise
  releasing a tail could free a block twice). Exclusive ownership is needed for
  the free list: a block released by one table must not be held privately by
  another. Actions that release blocks share `TailReleased`, which relates the
  released tail, the slots, the free list and the counters, and `SettleExact`
  for the counting. `LeaseFencing` follows from `NextLeaseStep`: a step keeps
  the lease of a slot, ends it, or starts one with a larger generation.
- `PagedKvProofs`, tables, builds `TInv` on top of `IInv`. `CountsExact` counts the
  references of a slot as its readers (tables that share it) plus its holders
  (callers that owe a release); it needs `SharedCurrent`, that every one of
  those handles names the current lease, since a stale handle would count for a
  block leased to somebody else. `TablesFit` says what a table holds as a
  function of the length it describes, which is the reservation's target while
  one is pending and the committed length otherwise, and that shared blocks are
  full, which is why no reservation covers their rows. `TokensSpent` bounds the
  nonces of all tokens by the next one of their sequence.
- `SchedulerProofs`. `IInv` joins `Control`, `Planned` and `Steady`. `Control` says that
  `requests` lists the live requests once and `waiting` those that wait, in
  increasing order (`Queues`), that a terminal request has one report, delivered
  or in the outbox, and a live one none (`Reports`), and that the counters are
  sums over the live requests (`Accounts`). `Planned` says that the items of the
  plan in flight belong to distinct admitted requests; without it one completion
  could end a request twice. `Steady` says of a request of the plan that its
  reservation reaches exactly the target of its item and that its cursor, length
  and tokens are those of before the plan (`Busy`), and of any other request that
  it is at rest. Every call loops over requests or items: `finish`, `admit`,
  `adopt`, `prepare`, `commit`, `publish` are recursive functions here, and each
  loop has a lemma proved by induction over its turns (`CountUp`) with the
  invariant of a half-finished loop: the items already prepared, committed or
  settled agree with their requests, the others still do. `NoOvertaking` needs
  that the queue is in order of submission and that a submission is admitted at
  once only if nobody waits.
- `CacheProofs`. `CInv` adds to that invariant, which it needs throughout, what
  relates the index, the requests and the pool (`Cached`) and that free blocks are
  never negative. `Trie` says that every listed entry continues its parent's
  prefix by one block and counts its children, that keys and blocks are distinct,
  and that the vacant and the recency list hold every id once. `Holds` is about
  one request: its shared blocks are its prompt's (`OwnBlocks`), its tip is the
  entry of the last one or the root (`TipHeld`), and it holds every block of the
  path above (`PathHeld`). That path is why eviction, which takes only leaves
  nobody holds, never leaves a tip without its entry, and why an unheld entry
  always has an unheld leaf below it (`ClosedUp`, `UnheldReached`). `MayList` is
  what publication needs of a request: its prompt is processed up to its cursor
  and committed, so a block below the cursor is complete. For the free blocks
  every turn of every loop is `Thrifty`: it keeps `Cached` and uses up no free
  block, because sharing turns a private block of one request into a listed one
  and evicting frees one. Reservations are the exception. `reserve_with_eviction`
  evicts until there is room or nothing unheld is listed (`EnoughOf`), and in that
  case every allocated block is in some table, the tables are within their
  promises, and the promises are within the pool, so there is room.
- `RequestProofs`, engine. The channel of a request is filled from three places: the
  events of the last step, the outbox of staged events, and the failure path.
  `Tracked` relates them, with the flag, the worker's map and the backend's
  work, in one predicate `Consistent` about one request: what is pending follows
  what was sent without a gap as long as the flag is live, and a terminal event
  is the only one and the last. `Placed` says where the worker may be while
  events are pending, `Counted` relates gauge, queue and submitters, `Fresh`
  that nothing has happened to a queued request, `StopsClean` that the worker
  stops with nothing left unless something failed, `WorkKnown` what holds as
  long as no call failed. The refinement then is a lemma per step
  (`ChannelCorrect`): initial states map to initial states, and every step of
  the engine is a step of `RequestStream` on the chosen channel or leaves it
  alone. The chosen request is a constant of `EngineChannel`, so the theorem
  holds for each.
- `RequestProofs`, delivery. `EventsWellFormed` is what `RequestStream` lets the channel
  hold. `RunningExact`: until the worker is done it has observed exactly the
  tokens it received, a stream has shown them all, and nothing has been logged
  or cancelled. `DoneExact` carries the properties from the step in which the
  worker gets done.
- `ServiceProofs`. A connection is in the backlog, with the listener, in the
  queue or with one worker, and a slot moves with it. `HoldersRegistered`,
  `HoldersDistinct`, `SlotsHeld` and `SlotsDistinct` make that a one-to-one
  relation of slots and holders; `BacklogFresh`, `AcceptedFresh` and
  `SlotsEstablished` say that a connection enters it once; `EndsFinal` that
  threads end in the order listener, workers, owner; `OpenPlaced`,
  `StreamsClosed` and `RequestsServed` that an open connection or a running
  request has somebody who will end it. That the registry is never tighter than
  queue and workers is a counting argument over them.
- `BackendProofs`, calls. While the backend is up, entries are the live requests
  and know their committed tokens (`UpTracked`). The delicate part is
  `FailedRemembered`: after a failed step shutdown cancels what is live, each
  cancellation pushes a tombstone, and the requests that the step ended without
  an event must still be among the tombstones when shutdown asks for them.
  The same bound covers a step that failed after its commit, whose later
  completions keep their entries; for its live requests the clause says that
  they were told every token but the one in `lost` (`Told`), which makes the
  events of shutdown exact (`WellFormedButLast`).
- `CudaMemoryProofs`. `active_uses` of a stream and of a buffer count its one
  user (`StreamsExclusive`, `BuffersExclusive`), accesses of the device stay
  within what its stream has taken (`AccessesLent`), what is in use is alive
  (`UsedAlive`, `HandlesLive`), closes deferred by captures are queued once
  (`QueuesDeferred`), and the counters of the context are cardinalities
  (`ContextCounts`), which is why it is released last.
- `BackendProofs`, generation. `OutputIsReference` is nearly inductive: `SearchResumes`
  adds that the search of the withheld bytes starts where stops were enabled.
  The proof is about the operators. `NothingMissed`: no stop string, and no tail
  that may become one, begins in text already shown, however long the text
  grows. With it `FoundBehind` and `TailsBehind` reduce a search of the whole
  text to one of the withheld and the new bytes, `ValidBehind` and
  `ValidUpToBehind` do the same for UTF-8, and `FirstExists`, from the
  well-founded order of ends, starts and stop indices, says that the first match
  is defined.
- `TensorParallelProofs`. `FlagsWritten`, `PacketsWritten` and `StagingWritten`
  say what peers find in a rank's memory as a function of where the writer is in
  its stream: `Sent` and `Ended` are the epochs it posted last. A rank counts if
  it is `Sound`: at the leader's iteration, or never failed. For sound ranks
  `Lockstep` says what a block that met a peer knows of it, and `Together` that
  two ranks are at most one call apart and agree on the epochs they will have
  after it (`After`). That one call is what two parities of packets pay for: the
  slot a rank writes was read by every peer, because the writer met them in the
  call between, and with more than two epochs the flag that stays in a slot is
  never mistaken for the awaited one. A rank that was left behind by a failure
  is poisoned and stays out (`Resting`), so it may keep old epochs for ever;
  `OldArrivalsSeen` carries what it missed, and `JobsOnce` and `LeaderKnows`
  say how the leader learns of it before it reports success. The invariant holds
  whatever the device's timer does: `Trap` needs nothing of the clock.

Only model-checked:

- liveness under fairness: `NoStarvation`, `NobodyLeftWaiting`,
  `DeliveryReturns`, `ServiceDrains`, `LeaderReturns`;
- `StreamsImplemented`, which says for all requests at once what
  `ChannelImplemented` says for any one;
- `Grammar`, `Tokenizer` and `ChatStream`: recursion over grammars and texts is
  declared RECURSIVE there, which the prover does not support, and what it
  computes is shown by induction over data;
- `SelectionSound`: it is about sums over sequences, which needs induction too.

## Not modelled

The map covers a small share of the repository's lines, because most of them
are not protocols. The largest files are FFI declarations (`riley-cuda/src/ffi.rs`),
wrappers that describe one kernel launch each (`graph.rs`, `decode.rs`, the
kernel drivers), the forward passes (`llama/forward.rs`, `llama/decode.rs`),
option parsing (`riley-server/src/main.rs`) and tests inside the source files:
their correctness is numeric or a matter of shapes, and a state machine of them
would say nothing a type or a comparison with a reference output does not. In
particular:

- kernels and numerics, graph dispatch and replay, speculation inside a step,
  sampling's arithmetic and its random numbers, batch metadata packing;
- parsing of HTTP framing and JSON, chat templates, translation of JSON schemas
  to grammars, metrics and observation endpoints;
- Unicode normalisation and the byte alphabet of the tokenizer, validation of
  model files and tokenizer artifacts, tensor shapes;
- creation and closing of the peer group of a tensor-parallel run, and the split
  of the weights;
- allocation failures on the host; wrap of an epoch as seen by a packet left
  from 2^32 calls ago (the model wraps at `EpochRange`, where a rank is at most
  one call ahead: `RanksAbreast`);
- scheduler metrics, the `active_requests` gauge: they do not feed back into
  decisions;
- `Lifecycle::store` notifies without holding the lock of `wait_until`; a waiter
  that misses it notices at its deadline. The model lets `shutdown` time out at
  any moment, which covers it.

## Plan

Modelled, in order of importance: allocator and its proofs, prefix cache and
scheduler, selection, engine; then the abstract request stream, delivery,
service, backend, generation, grammars, device memory, tensor parallelism,
tokenizer and chat streams. Proved: allocator and tables, engine and its
refinement, delivery, service, backend, device memory, stop strings, all-reduce,
scheduler and prefix cache. Left for the provers: lemmas about single policies
of `CandidateSelection` (`defer_past_plateau` only removes, the order of the
candidates is kept); its budget stays with TLC.
