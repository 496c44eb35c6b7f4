----------------------------- MODULE CudaMemory -----------------------------
(***************************************************************************)
(* Who may touch a CUDA buffer, and when: the asynchronous copies, command  *)
(* batches, graph captures and closes of one CUDA context.                  *)
(* (crates/riley-cuda/src/memory.rs, runtime.rs, ffi.rs and graph.rs over   *)
(* kernels/src/memory.cu, host_runtime.cu, graph.cu and ffi_internal.hpp.)  *)
(*                                                                          *)
(* A device access outlives the call that asks for it.  Two guards keep the *)
(* host away from a buffer meanwhile: "busy", the BufferUseState of the     *)
(* Rust object, and "uses", the native active_uses counter, which also      *)
(* guards streams.  Both must outlive the borrows of the Rust token, since  *)
(* a token can be forgotten, and both must survive a completion that CUDA   *)
(* cannot confirm.  A thread that is recording a graph cannot enter CUDA,   *)
(* so captures and pending copies exclude each other, and what is closed    *)
(* while a capture is open is queued and freed when the capture has ended.  *)
(*                                                                          *)
(* Bytes are not modelled: "pending" is the device accesses a stream may    *)
(* still perform, each the set of buffers it reads or writes.  Copies of    *)
(* no bytes touch nothing and are left out, and so are calls refused by     *)
(* their tests, which change nothing.                                       *)
(***************************************************************************)
EXTENDS Naturals, FiniteSets, Sequences

CONSTANTS
    Device,             \* device buffers (CudaDeviceBuffer)
    Pinned,             \* pinned host buffers (CudaPinnedHostBuffer)
    Streams,            \* CUDA streams of the context
    Threads,            \* host threads that call in
    None,               \* no thread, no copy, no capture
    LedgerCapacity,     \* kCommandBatchUseCapacity
    MaxFaults           \* bound: failing CUDA calls in a behaviour

ASSUME DistinctResources ==
    /\ Device \cap Pinned = {} /\ (Device \cup Pinned) \cap Streams = {}
    /\ IsFiniteSet(Device) /\ IsFiniteSet(Pinned)
    /\ IsFiniteSet(Streams) /\ IsFiniteSet(Threads)
    /\ None \notin Threads
    /\ LedgerCapacity \in Nat /\ MaxFaults \in Nat

\* None is neither a copy token nor the owner of a capture.
ASSUME NoneIsNoToken ==
    /\ None \notin [device : Device, host : Pinned, held : BOOLEAN]
    /\ None \notin [stream : Streams, queue : Seq(Device \cup Pinned \cup Streams),
                    phase : {"open", "dropping", "draining", "stranded"}]

Buffers == Device \cup Pinned
Resources == Buffers \cup Streams

VARIABLES
    handle,     \* who owns a native handle: see Owners
    memory,     \* what is known of a buffer's allocation: see Memories
    uses,       \* active_uses of every buffer and stream
    busy,       \* BufferUseState::active of every buffer
    copies,     \* by stream, the copy token that holds it
    batches,    \* by stream, its command batch: owner, Rust guard and ledger
    captures,   \* by thread, its graph capture
    pending,    \* by stream, the device accesses that may still happen
    context,    \* the context: open, its children, allocations and copies
    faults      \* failing CUDA calls so far

vars == <<handle, memory, uses, busy, copies, batches, captures, pending,
          context, faults>>

\* The Rust object holds the handle, has failed to close it once and is being
\* dropped, has passed it to a capture, or has been dropped without closing it.
Owners == {"absent", "owned", "dropping", "deferred", "leaked", "closed"}
\* A free that CUDA did not confirm leaves it unknown whether memory is live.
Memories == {"none", "live", "freed", "unknown"}

NoBatch == [owner |-> None, guarded |-> FALSE, ledger |-> {}]

Init ==
    /\ handle = [x \in Resources |-> IF x \in Streams THEN "owned" ELSE "absent"]
    /\ memory = [b \in Buffers |-> "none"]
    /\ uses = [x \in Resources |-> 0]
    /\ busy = [b \in Buffers |-> FALSE]
    /\ copies = [s \in Streams |-> None]
    /\ batches = [s \in Streams |-> NoBatch]
    /\ captures = [t \in Threads |-> None]
    /\ pending = [s \in Streams |-> {}]
    /\ context = [open |-> TRUE, poisoned |-> FALSE,
                  children |-> Cardinality(Streams), allocations |-> 0,
                  copies |-> 0]
    /\ faults = 0

-----------------------------------------------------------------------------
(* One call into CUDA, inside CurrentContext::enter and ::leave            *)

Capturing(t) == captures[t] # None
HasBatch(t) == \E s \in Streams : batches[s].owner = t

\* enter refuses a poisoned context, and a thread that is capturing unless the
\* capture itself makes the call.  Otherwise the call is made or not, succeeds
\* or not, and the context stack is restored or the context is poisoned.
Outcomes(t, isCapture) ==
    LET refused == context.poisoned \/ (Capturing(t) /\ ~isCapture)
        good == [entered |-> TRUE, ok |-> TRUE, poison |-> FALSE]
    IN  IF refused THEN {[entered |-> FALSE, ok |-> FALSE, poison |-> FALSE]}
        ELSE {good} \cup
             {o \in [entered : BOOLEAN, ok : BOOLEAN, poison : BOOLEAN] :
                 /\ faults < MaxFaults
                 /\ o # good
                 /\ o.ok => o.entered}

\* The status the native function sees after leave.
Succeeded(o) == o.entered /\ o.ok /\ ~o.poison

\* The bookkeeping of a call: its poison and, when CUDA failed, the fault.
Called(t, isCapture, o, after) ==
    /\ o \in Outcomes(t, isCapture)
    /\ context' = [after EXCEPT !.poisoned = @ \/ o.poison]
    /\ faults' = IF Succeeded(o) \/ context.poisoned \/ (Capturing(t) /\ ~isCapture)
                 THEN faults ELSE faults + 1

SetUses(X, n) == uses' = [x \in Resources |-> IF x \in X THEN n ELSE uses[x]]

-----------------------------------------------------------------------------
(* Buffers                                                                 *)

\* An allocation that is made but cannot be reported, because the context was
\* not restored, cannot be freed either: no handle is returned, and it stays
\* counted as an allocation and as a child for good.
Create(t, b) ==
    /\ context.open /\ handle[b] = "absent"
    /\ \E o \in Outcomes(t, FALSE) :
        /\ Called(t, FALSE, o,
                  IF o.ok THEN [context EXCEPT !.children = @ + 1, !.allocations = @ + 1]
                  ELSE context)
        /\ memory' = [memory EXCEPT
               ![b] = IF ~o.ok THEN @ ELSE IF o.poison THEN "unknown" ELSE "live"]
        /\ handle' = [handle EXCEPT
               ![b] = IF ~o.ok THEN @ ELSE IF o.poison THEN "leaked" ELSE "owned"]
    /\ UNCHANGED <<uses, busy, copies, batches, captures, pending>>

\* CudaPinnedHostBuffer::read and ::write go ahead: both guards are down.
HostMayTouch(b) == handle[b] = "owned" /\ ~busy[b] /\ uses[b] = 0

\* What a free that was attempted does: only a confirmed one gives back the
\* allocation and the child lease, and it is never attempted again.
Freed(b, ok) ==
    /\ memory' = [memory EXCEPT ![b] = IF ok THEN "freed" ELSE "unknown"]
    /\ handle' = [handle EXCEPT ![b] = "closed"]

\* Mutant: a free that failed is accounted like one that succeeded.
AfterAnyFree(ok) == [context EXCEPT !.children = @ - 1, !.allocations = @ - 1]

AfterFree(ok) ==
    IF ok THEN [context EXCEPT !.children = @ - 1, !.allocations = @ - 1] ELSE context

\* A stream's child lease goes back whatever cudaStreamDestroy reports.
AfterDestroy == [context EXCEPT !.children = @ - 1]

\* One native close of x by thread t, the last one its Rust object will make
\* when "last" holds.  A resource in use is refused.  On a capturing thread
\* the handle goes to the capture.  A close that never entered CUDA leaves
\* the handle with the Rust object, which tries once more when it is dropped.
Kept(last) == IF last THEN "leaked" ELSE "dropping"

InUse(x) == uses[x] # 0 \/ (x \in Streams /\ batches[x].owner # None)

CloseOnce(t, x, last) ==
    \/ /\ InUse(x)
       /\ handle' = [handle EXCEPT ![x] = Kept(last)]
       /\ UNCHANGED <<memory, captures, context, faults>>
    \/ /\ ~InUse(x) /\ Capturing(t)
       /\ handle' = [handle EXCEPT ![x] = "deferred"]
       /\ captures' = [captures EXCEPT ![t].queue = Append(@, x)]
       /\ UNCHANGED <<memory, context, faults>>
    \/ /\ ~InUse(x) /\ ~Capturing(t)
       /\ \E o \in Outcomes(t, FALSE) :
            \/ /\ ~o.entered
               /\ handle' = [handle EXCEPT ![x] = Kept(last)]
               /\ Called(t, FALSE, o, context)
               /\ UNCHANGED memory
            \/ /\ o.entered /\ x \in Buffers
               /\ Freed(x, o.ok)
               /\ Called(t, FALSE, o, AfterFree(o.ok))
            \/ /\ o.entered /\ x \in Streams
               /\ handle' = [handle EXCEPT ![x] = "closed"]
               /\ Called(t, FALSE, o, AfterDestroy)
               /\ UNCHANGED memory
       /\ UNCHANGED captures

\* The guard of t's capture is alive, if only to be dropped.
Held(t) == captures[t] # None /\ captures[t].phase \in {"open", "dropping"}

\* A Rust object whose token is still alive is borrowed by it.
Borrowed(x) ==
    \/ \E s \in Streams : /\ copies[s] # None /\ copies[s].held
                          /\ x \in {s, copies[s].device, copies[s].host}
    \/ x \in Streams /\ batches[x].guarded
    \/ \E t \in Threads : Held(t) /\ captures[t].stream = x

\* close(self) and then the drop of self, or the drop alone.
Close(t, x) ==
    /\ context.open
    /\ \/ handle[x] = "owned" /\ ~Borrowed(x) /\ \E last \in BOOLEAN : CloseOnce(t, x, last)
       \/ handle[x] = "dropping" /\ CloseOnce(t, x, TRUE)
    /\ UNCHANGED <<uses, busy, copies, batches, pending>>

-----------------------------------------------------------------------------
(* Pending copies                                                          *)

Usable(x) == handle[x] = "owned" /\ ~Borrowed(x)

\* copy_from_pinned_async and copy_to_pinned_async.  The capture domain admits
\* the copy first, so that no capture opens before its token is settled.  Once
\* cudaMemcpyAsync was called the token is returned, with the error deferred
\* to its completion: the transfer may be queued whatever was reported.
StartCopy(t, s, d, h) ==
    /\ Usable(s) /\ Usable(d) /\ Usable(h)
    /\ ~busy[d] /\ ~busy[h]
    /\ ~context.poisoned
    /\ \A u \in Threads : ~Capturing(u)
    /\ uses[d] = 0 /\ uses[h] = 0 /\ uses[s] = 0
    /\ \E o \in Outcomes(t, FALSE) :
        IF o.entered
        THEN /\ SetUses({s, d, h}, 1)
             /\ busy' = [busy EXCEPT ![d] = TRUE, ![h] = TRUE]
             /\ copies' = [copies EXCEPT ![s] = [device |-> d, host |-> h, held |-> TRUE]]
             /\ \E queued \in IF o.ok THEN {TRUE} ELSE BOOLEAN :
                   pending' = [pending EXCEPT ![s] = IF queued THEN @ \cup {{d, h}} ELSE @]
             /\ Called(t, FALSE, o, [context EXCEPT !.children = @ + 1, !.copies = @ + 1])
        ELSE /\ Called(t, FALSE, o, context)
             /\ UNCHANGED <<uses, busy, copies, pending>>
    /\ UNCHANGED <<handle, memory, batches, captures>>

\* apply_completion of a confirmed completion: all guards go down together,
\* the native token is closed and with it go its child lease and admission.
Settled(s) ==
    LET c == copies[s] IN
    /\ SetUses({s, c.device, c.host}, 0)
    /\ busy' = [busy EXCEPT ![c.device] = FALSE, ![c.host] = FALSE]
    /\ copies' = [copies EXCEPT ![s] = None]

AfterSettle == [context EXCEPT !.children = @ - 1, !.copies = @ - 1]

\* query (not consuming) and synchronize, synchronize_consuming or drop of the
\* token (consuming).  cudaStreamSynchronize succeeds when the stream has
\* drained.  An unconfirmed completion releases nothing; a consuming call
\* then forgets the native token.
CompleteCopy(t, s, consuming) ==
    /\ copies[s] # None /\ copies[s].held
    /\ \E o \in Outcomes(t, FALSE) :
        /\ o.ok => pending[s] = {}
        /\ IF Succeeded(o)
           THEN Settled(s) /\ Called(t, FALSE, o, AfterSettle)
           ELSE /\ Called(t, FALSE, o, context)
                /\ copies' = [copies EXCEPT ![s].held = ~consuming]
                /\ UNCHANGED <<uses, busy>>
    /\ UNCHANGED <<handle, memory, batches, captures, pending>>

-----------------------------------------------------------------------------
(* Command batches                                                         *)

BeginBatch(t, s) ==
    /\ Usable(s)
    /\ ~Capturing(t) /\ ~context.poisoned
    /\ batches[s].owner = None /\ uses[s] = 0 /\ batches[s].ledger = {}
    /\ SetUses({s}, 1)
    /\ batches' = [batches EXCEPT ![s] = [NoBatch EXCEPT !.owner = t, !.guarded = TRUE]]
    /\ UNCHANGED <<handle, memory, busy, copies, captures, pending, context, faults>>

\* Mutant: the counter is not looked at.
RegistersInUse(s, ledger, b) == b \in ledger \/ Cardinality(ledger) < LedgerCapacity

\* command_batch_register_use of b: in the ledger already, or with room left
\* and the counter at zero.
Registers(s, ledger, b) ==
    \/ b \in ledger
    \/ Cardinality(ledger) < LedgerCapacity /\ uses[b] = 0

\* copy_from_pinned_in_command_batch and its variants.  The destination is
\* registered first, and stays registered when the source cannot be or when
\* the copy fails: the ledger is only given back when the batch ends.
BatchCopy(t, s, to, from) ==
    /\ batches[s].owner = t
    /\ handle[s] = "owned" /\ Usable(to) /\ Usable(from)
    /\ to \in Device => ~busy[to] /\ ~busy[from]
    /\ ~context.poisoned
    /\ Registers(s, batches[s].ledger, to)
    /\ LET first == batches[s].ledger \cup {to}
           both == Registers(s, first, from)
           ledger == IF both THEN first \cup {from} ELSE first
       IN  /\ batches' = [batches EXCEPT ![s].ledger = ledger]
           /\ SetUses(ledger, 1)
           /\ \/ /\ ~both
                 /\ UNCHANGED <<pending, context, faults>>
              \/ /\ both
                 /\ \E o \in Outcomes(t, FALSE) :
                      /\ Called(t, FALSE, o, context)
                      /\ \E queued \in IF o.ok THEN {TRUE}
                                       ELSE IF o.entered THEN BOOLEAN ELSE {FALSE} :
                           pending' = [pending EXCEPT
                               ![s] = IF queued THEN @ \cup {{to, from}} ELSE @]
    /\ UNCHANGED <<handle, memory, busy, copies, captures>>

\* CudaCommandBatch::finish or its drop, once, by the thread that began it.
\* Only a confirmed end gives the ledger and the stream back.
EndBatch(t, s) ==
    /\ batches[s].owner = t /\ batches[s].guarded
    /\ \E o \in Outcomes(t, FALSE) :
        /\ o.ok => pending[s] = {}
        /\ Called(t, FALSE, o, context)
        /\ IF Succeeded(o)
           THEN /\ SetUses(batches[s].ledger \cup {s}, 0)
                /\ batches' = [batches EXCEPT ![s] = NoBatch]
           ELSE /\ batches' = [batches EXCEPT ![s].guarded = FALSE]
                /\ UNCHANGED uses
    /\ UNCHANGED <<handle, memory, busy, copies, captures, pending>>

-----------------------------------------------------------------------------
(* Graph captures                                                          *)

\* Mutant: copies of another thread do not hold a capture back.
AdmitsBesideCopies(t) == ~Capturing(t) /\ ~HasBatch(t)

\* The thread has neither capture nor batch, and try_begin_capture_domain finds
\* no pending copy of any thread.
AdmitsCapture(t) == ~Capturing(t) /\ ~HasBatch(t) /\ context.copies = 0

\* riley_cuda_graph_capture_begin.  A begin that failed may have left the
\* stream capturing, and then the owner is returned all the same.
BeginCapture(t, s) ==
    /\ Usable(s)
    /\ ~context.poisoned /\ AdmitsCapture(t)
    /\ batches[s].owner = None /\ uses[s] = 0
    /\ \E o \in Outcomes(t, FALSE) :
        \E started \in IF o.ok THEN {TRUE} ELSE IF o.entered THEN BOOLEAN ELSE {FALSE} :
          /\ Called(t, FALSE, o, IF started THEN [context EXCEPT !.children = @ + 1] ELSE context)
          /\ captures' = IF ~started THEN captures
                         ELSE [captures EXCEPT ![t] =
                                  [stream |-> s, queue |-> <<>>, phase |-> "open"]]
          /\ SetUses(IF started THEN {s} ELSE {}, 1)
    /\ UNCHANGED <<handle, memory, busy, copies, batches, pending>>

\* riley_cuda_graph_capture_abort, by abort(self) or by the drop of the guard.
\* An abort that never entered CUDA is tried once more by the drop; any other
\* consumes the owner, and when the end of the capture or of its graph is not
\* known the owner stays published for good.
AbortCapture(t) ==
    /\ Held(t)
    /\ \E o \in Outcomes(t, TRUE), last \in IF captures[t].phase = "open" THEN BOOLEAN ELSE {TRUE} :
        \E known \in IF Succeeded(o) THEN {TRUE}
                     ELSE IF o.entered /\ ~o.poison THEN BOOLEAN ELSE {FALSE} :
          /\ Called(t, TRUE, o, context)
          /\ captures' = [captures EXCEPT ![t].phase =
                 IF known THEN "draining"
                 ELSE IF ~o.entered /\ ~last THEN "dropping" ELSE "stranded"]
    /\ UNCHANGED <<handle, memory, uses, busy, copies, batches, pending>>

\* A thread that drains its capture is inside the call that aborts it.
Draining(t) == Capturing(t) /\ captures[t].phase = "draining"

\* drain_capture_deferred_closes, one queued close a step: an error ends the
\* drain with the rest of the queue, and the capture, stranded.
DrainClose(t) ==
    /\ Draining(t) /\ captures[t].queue # <<>>
    /\ LET x == Head(captures[t].queue)
           popped == [captures[t] EXCEPT !.queue = Tail(@)]
       IN  IF InUse(x)
           THEN /\ captures' = [captures EXCEPT ![t].phase = "stranded"]
                /\ UNCHANGED <<handle, memory, context, faults>>
           ELSE \E o \in Outcomes(t, TRUE) :
                /\ captures' = [captures EXCEPT ![t] =
                       IF Succeeded(o) THEN popped
                       ELSE [(IF o.entered THEN popped ELSE @) EXCEPT !.phase = "stranded"]]
                /\ \/ /\ o.entered /\ x \in Buffers
                      /\ Freed(x, o.ok) /\ Called(t, TRUE, o, AfterFree(o.ok))
                   \/ /\ o.entered /\ x \in Streams
                      /\ handle' = [handle EXCEPT ![x] = "closed"]
                      /\ Called(t, TRUE, o, AfterDestroy)
                      /\ UNCHANGED memory
                   \/ /\ ~o.entered
                      /\ Called(t, TRUE, o, context)
                      /\ UNCHANGED <<handle, memory>>
    /\ UNCHANGED <<uses, busy, copies, batches, pending>>

\* release_capture_owner, once the queue is empty.
ReleaseCapture(t) ==
    /\ Draining(t) /\ captures[t].queue = <<>>
    /\ SetUses({captures[t].stream}, 0)
    /\ captures' = [captures EXCEPT ![t] = None]
    /\ context' = [context EXCEPT !.children = @ - 1]
    /\ UNCHANGED <<handle, memory, busy, copies, batches, pending, faults>>

-----------------------------------------------------------------------------
\* mem::forget of a copy token, or of the guard of a batch or a capture: the
\* borrows end, and nothing that was held is given back.
Forget ==
    /\ \/ /\ \E s \in Streams :
             /\ copies[s] # None /\ copies[s].held
             /\ copies' = [copies EXCEPT ![s].held = FALSE]
          /\ UNCHANGED <<batches, captures>>
       \/ /\ \E s \in Streams :
             /\ batches[s].guarded
             /\ batches' = [batches EXCEPT ![s].guarded = FALSE]
          /\ UNCHANGED <<copies, captures>>
       \/ /\ \E t \in Threads :
             /\ Held(t)
             /\ captures' = [captures EXCEPT ![t].phase = "stranded"]
          /\ UNCHANGED <<copies, batches>>
    /\ UNCHANGED <<handle, memory, uses, busy, pending, context, faults>>

\* context_close_impl: consumed by its single release, whatever that reports.
CloseContext(t) ==
    /\ context.open /\ ~context.poisoned
    /\ \A u \in Threads : ~Capturing(u)
    /\ context.children = 0 /\ context.allocations = 0
    /\ context' = [context EXCEPT !.open = FALSE]
    /\ UNCHANGED <<handle, memory, uses, busy, copies, batches, captures, pending, faults>>

\* The device performs one of the accesses it was given.
Transfer(s) ==
    /\ \E access \in pending[s] : pending' = [pending EXCEPT ![s] = @ \ {access}]
    /\ UNCHANGED <<handle, memory, uses, busy, copies, batches, captures, context, faults>>

Next ==
    \/ \E t \in Threads :
        \/ /\ ~Draining(t)
           /\ \/ \E b \in Buffers : Create(t, b)
              \/ \E x \in Resources : Close(t, x)
              \/ \E s \in Streams :
                  \/ \E d \in Device, h \in Pinned : StartCopy(t, s, d, h)
                  \/ \E consuming \in BOOLEAN : CompleteCopy(t, s, consuming)
                  \/ BeginBatch(t, s)
                  \/ \E d \in Device, h \in Pinned :
                        BatchCopy(t, s, d, h) \/ BatchCopy(t, s, h, d)
                  \/ EndBatch(t, s)
                  \/ BeginCapture(t, s)
              \/ AbortCapture(t)
              \/ CloseContext(t)
        \/ DrainClose(t)
        \/ ReleaseCapture(t)
    \/ Forget
    \/ \E s \in Streams : Transfer(s)

Spec == Init /\ [][Next]_vars

-----------------------------------------------------------------------------
\* While the device may still access a buffer, its memory is there, the host
\* can neither touch nor free it, no other stream is working on it, and the
\* stream that is cannot be closed: however the token, the batch or the buffer
\* was dropped, forgotten or failed in between (BufferUseState, active_uses).
DeviceOwnsWhatItUses ==
    \A s \in Streams : \A access \in pending[s] :
        /\ uses[s] = 1 /\ handle[s] # "closed"
        /\ \A b \in access :
            /\ memory[b] = "live"
            /\ ~HostMayTouch(b) /\ InUse(b)
            /\ \A u \in Streams \ {s} : b \notin UNION pending[u]

\* Work that a Rust owner must still be able to synchronize, a copy token or
\* the guard of a command batch, is never cut off from CUDA by a graph capture:
\* no capture is open on any thread while a copy is pending, since tokens may
\* move between threads, nor on the thread of a batch.
OwnersCanSynchronize ==
    \A t \in Threads : Capturing(t) =>
        /\ \A s \in Streams : copies[s] = None \/ ~copies[s].held
        /\ \A s \in Streams : batches[s].owner # t

\* The primary context is released last: not while any memory of it may still
\* be live, any stream is open, or any copy or capture may still be settled.
ContextReleasedLast ==
    ~context.open =>
        /\ \A b \in Buffers : memory[b] \in {"none", "freed"}
        /\ \A s \in Streams : handle[s] = "closed" /\ pending[s] = {} /\ copies[s] = None
        /\ \A t \in Threads : captures[t] = None
=============================================================================
