-------------------------- MODULE CudaMemoryProofs --------------------------
(***************************************************************************)
(* Proofs about the use of CUDA buffers, streams and captures, for any     *)
(* number of them, any number of threads and any failures.                 *)
(***************************************************************************)
EXTENDS CudaMemory, Integers, FiniteSetTheorems, SequenceTheorems, TLAPS

-----------------------------------------------------------------------------
(* The inductive invariant. *)

CopyTokens == [device : Device, host : Pinned, held : BOOLEAN]
Batches == [owner : Threads \cup {None}, guarded : BOOLEAN, ledger : SUBSET Buffers]
CaptureOwners == [stream : Streams, queue : Seq(Resources),
                  phase : {"open", "dropping", "draining", "stranded"}]
Contexts == [open : BOOLEAN, poisoned : BOOLEAN, children : Int, allocations : Int, copies : Int]

MemoryTypes ==
    /\ handle \in [Resources -> Owners] /\ memory \in [Buffers -> Memories]
    /\ uses \in [Resources -> {0, 1}] /\ busy \in [Buffers -> BOOLEAN]
    /\ copies \in [Streams -> CopyTokens \cup {None}] /\ batches \in [Streams -> Batches]
    /\ captures \in [Threads -> CaptureOwners \cup {None}]
    /\ pending \in [Streams -> SUBSET SUBSET Buffers]
    /\ context \in Contexts /\ faults \in Nat

Copying(s) == copies[s] # None
Batching(s) == batches[s].owner # None
CapturedBy(t, s) == captures[t] # None /\ captures[t].stream = s

\* The buffers that stream s has taken, for its copy or for its batch.
Lent(s) ==
    batches[s].ledger \cup
    {b \in Buffers : Copying(s) /\ (b = copies[s].device \/ b = copies[s].host)}

\* active_uses of a stream counts its one user, whoever that is.
StreamsExclusive ==
    /\ \A s \in Streams :
        /\ uses[s] = 1 <=> Copying(s) \/ Batching(s) \/ \E t \in Threads : CapturedBy(t, s)
        /\ ~(Copying(s) /\ Batching(s))
        /\ ~Batching(s) => batches[s].ledger = {}
    /\ \A s \in Streams, t \in Threads :
        CapturedBy(t, s) =>
            ~Copying(s) /\ ~Batching(s) /\ \A u \in Threads : CapturedBy(u, s) => u = t

\* active_uses of a buffer counts the one stream that has it.
BuffersExclusive ==
    /\ \A b \in Buffers : uses[b] = 1 <=> \E s \in Streams : b \in Lent(s)
    /\ \A s, u \in Streams : s # u => Lent(s) \cap Lent(u) = {}

\* The device works on what its stream has taken.
AccessesLent ==
    \A s \in Streams :
        /\ \A access \in pending[s] : access \subseteq Lent(s)
        /\ pending[s] # {} => Copying(s) \/ Batching(s)

\* What is in use is neither closed nor queued to be closed, and its memory is there.
UsedAlive ==
    /\ \A x \in Resources : uses[x] = 1 => handle[x] \in {"owned", "dropping", "leaked"}
    /\ \A b \in Buffers : uses[b] = 1 => memory[b] = "live"

\* A handle that can still be closed has its memory.
HandlesLive ==
    \A b \in Buffers :
        /\ handle[b] \in {"owned", "dropping", "deferred"} => memory[b] = "live"
        /\ handle[b] = "absent" => memory[b] = "none"

\* A capture's queue holds handles that were passed to it, each once.
QueuesDeferred ==
    /\ \A t \in Threads : Capturing(t) =>
        /\ \A i \in DOMAIN captures[t].queue : handle[captures[t].queue[i]] = "deferred"
        /\ \A i, j \in DOMAIN captures[t].queue :
              captures[t].queue[i] = captures[t].queue[j] => i = j
    /\ \A t, u \in Threads : Capturing(t) /\ Capturing(u) /\ t # u =>
        \A i \in DOMAIN captures[t].queue, j \in DOMAIN captures[u].queue :
              captures[t].queue[i] # captures[u].queue[j]

\* No copy is pending beside a capture, and no batch on its thread.
CapturesAlone ==
    \A t \in Threads : Capturing(t) =>
        \A s \in Streams : ~Copying(s) /\ batches[s].owner # t

\* What the counters of the context count.
CopyStreams == {s \in Streams : Copying(s)}
Allocated == {b \in Buffers : memory[b] \in {"live", "unknown"}}
OpenStreams == {s \in Streams : handle[s] # "closed"}
CaptureThreads == {t \in Threads : Capturing(t)}

ContextCounts ==
    /\ context.copies = Cardinality(CopyStreams)
    /\ context.allocations = Cardinality(Allocated)
    /\ context.children = context.allocations + context.copies
                          + Cardinality(OpenStreams) + Cardinality(CaptureThreads)

IInv ==
    /\ MemoryTypes
    /\ StreamsExclusive
    /\ BuffersExclusive
    /\ AccessesLent
    /\ UsedAlive
    /\ HandlesLive
    /\ QueuesDeferred
    /\ CapturesAlone
    /\ ContextCounts
    /\ ContextReleasedLast

-----------------------------------------------------------------------------
(* Resources. *)

\* Streams and buffers are finitely many and no resource is both.
LEMMA ResourceFacts ==
    /\ IsFiniteSet(Buffers) /\ IsFiniteSet(Streams) /\ IsFiniteSet(Threads)
    /\ Buffers \subseteq Resources /\ Streams \subseteq Resources
    /\ \A b \in Buffers, s \in Streams : b # s
    /\ Device \subseteq Buffers /\ Pinned \subseteq Buffers
    /\ \A d \in Device, h \in Pinned : d # h
    /\ \A x \in Resources : x \in Buffers \/ x \in Streams
<1>1. IsFiniteSet(Buffers)
  BY DistinctResources, FS_Union DEF Buffers
<1> QED BY <1>1, DistinctResources DEF Buffers, Resources

\* A token, and the owner of a capture, is not None.
LEMMA TokenFacts == None \notin CopyTokens /\ None \notin CaptureOwners /\ None \notin Threads
  BY NoneIsNoToken, DistinctResources DEF CopyTokens, CaptureOwners, Resources, Buffers

\* The fields of what the variables hold.
LEMMA FieldTypes ==
    ASSUME MemoryTypes
    PROVE  /\ \A s \in Streams : Copying(s) =>
                /\ copies[s] \in CopyTokens
                /\ copies[s].device \in Device /\ copies[s].host \in Pinned
                /\ copies[s].device \in Buffers /\ copies[s].host \in Buffers
           /\ \A s \in Streams : batches[s] \in Batches /\ batches[s].ledger \subseteq Buffers
           /\ \A t \in Threads : Capturing(t) =>
                /\ captures[t] \in CaptureOwners
                /\ captures[t].stream \in Streams
                /\ captures[t].queue \in Seq(Resources)
<1>1. \A s \in Streams : Copying(s) => copies[s] \in CopyTokens
  BY DEF MemoryTypes, Copying
<1>2. \A s \in Streams : batches[s] \in Batches
  BY DEF MemoryTypes
<1>3. \A t \in Threads : Capturing(t) => captures[t] \in CaptureOwners
  BY DEF MemoryTypes, Capturing
<1> QED BY <1>1, <1>2, <1>3, ResourceFacts DEF CopyTokens, Batches, CaptureOwners

\* The queue of a capture changes.
LEMMA CaptureQueued ==
    ASSUME NEW c \in CaptureOwners, NEW r \in Seq(Resources),
           NEW d, d = [c EXCEPT !.queue = r]
    PROVE  d \in CaptureOwners /\ d.queue = r /\ d.stream = c.stream /\ d.phase = c.phase
  BY DEF CaptureOwners

\* The phase of a capture changes.
LEMMA CapturePhased ==
    ASSUME NEW c \in CaptureOwners, NEW p \in {"open", "dropping", "draining", "stranded"},
           NEW d, d = [c EXCEPT !.phase = p]
    PROVE  d \in CaptureOwners /\ d.queue = c.queue /\ d.stream = c.stream /\ d.phase = p
  BY DEF CaptureOwners

\* The outcome of a call into CUDA.
LEMMA OutcomeIs ==
    ASSUME NEW t, NEW isCapture, NEW o \in Outcomes(t, isCapture)
    PROVE  o \in [entered : BOOLEAN, ok : BOOLEAN, poison : BOOLEAN] /\ (o.ok => o.entered)
<1>1. \/ o = [entered |-> FALSE, ok |-> FALSE, poison |-> FALSE]
      \/ o = [entered |-> TRUE, ok |-> TRUE, poison |-> FALSE]
      \/ o \in [entered : BOOLEAN, ok : BOOLEAN, poison : BOOLEAN] /\ (o.ok => o.entered)
  BY Zenon DEF Outcomes
<1>2. CASE o = [entered |-> FALSE, ok |-> FALSE, poison |-> FALSE]
  BY <1>2
<1>3. CASE o = [entered |-> TRUE, ok |-> TRUE, poison |-> FALSE]
  BY <1>3
<1> QED BY <1>1, <1>2, <1>3

\* What a call into CUDA may do to the context besides the change it was made for.
LEMMA CalledIs ==
    ASSUME NEW t, NEW isCapture, NEW o, NEW after \in Contexts, Called(t, isCapture, o, after),
           faults \in Nat
    PROVE  /\ context' \in Contexts
           /\ context'.open = after.open /\ context'.children = after.children
           /\ context'.allocations = after.allocations /\ context'.copies = after.copies
           /\ faults' \in Nat
<1>1. o \in [entered : BOOLEAN, ok : BOOLEAN, poison : BOOLEAN]
  BY OutcomeIs DEF Called
<1>2. context' = [after EXCEPT !.poisoned = @ \/ o.poison]
  BY DEF Called
<1>3. (after.poisoned \/ o.poison) \in BOOLEAN
  OBVIOUS
<1>4. /\ context' \in Contexts
      /\ context'.open = after.open /\ context'.children = after.children
      /\ context'.allocations = after.allocations /\ context'.copies = after.copies
  BY <1>2, <1>3 DEF Contexts
<1>5. faults' \in Nat
  BY DEF Called
<1> QED BY <1>4, <1>5

\* A context is the record of its fields.
LEMMA ContextRecord ==
    ASSUME NEW c \in Contexts
    PROVE  c = [open |-> c.open, poisoned |-> c.poisoned, children |-> c.children,
                allocations |-> c.allocations, copies |-> c.copies]
  BY DEF Contexts

\* Two counters of a context change.
LEMMA CountersChange ==
    ASSUME NEW c \in Contexts, NEW n \in Int, NEW m \in Int
    PROVE  /\ [c EXCEPT !.children = n, !.allocations = m]
                 = [open |-> c.open, poisoned |-> c.poisoned, children |-> n,
                    allocations |-> m, copies |-> c.copies]
           /\ [c EXCEPT !.children = n, !.copies = m]
                 = [open |-> c.open, poisoned |-> c.poisoned, children |-> n,
                    allocations |-> c.allocations, copies |-> m]
<1>1. c = [open |-> c.open, poisoned |-> c.poisoned, children |-> c.children,
           allocations |-> c.allocations, copies |-> c.copies]
  BY ContextRecord
<1>2. ASSUME NEW d, d = [c EXCEPT !.children = n, !.allocations = m]
      PROVE  d = [open |-> c.open, poisoned |-> c.poisoned, children |-> n,
                  allocations |-> m, copies |-> c.copies]
  BY <1>1, <1>2
<1>3. ASSUME NEW d, d = [c EXCEPT !.children = n, !.copies = m]
      PROVE  d = [open |-> c.open, poisoned |-> c.poisoned, children |-> n,
                  allocations |-> c.allocations, copies |-> m]
  BY <1>1, <1>3
<1> QED BY <1>2, <1>3, Zenon

\* What the context counts after an allocation was freed or not, a copy was settled,
\* or a stream was destroyed.
LEMMA AfterIs ==
    ASSUME context \in Contexts, NEW ok \in BOOLEAN
    PROVE  /\ AfterFree(ok) \in Contexts /\ AfterFree(ok).open = context.open
           /\ AfterFree(ok).copies = context.copies
           /\ AfterFree(ok).children = IF ok THEN context.children - 1 ELSE context.children
           /\ AfterFree(ok).allocations =
                 IF ok THEN context.allocations - 1 ELSE context.allocations
           /\ AfterSettle \in Contexts /\ AfterSettle.open = context.open
           /\ AfterSettle.allocations = context.allocations
           /\ AfterSettle.children = context.children - 1
           /\ AfterSettle.copies = context.copies - 1
           /\ AfterDestroy \in Contexts /\ AfterDestroy.open = context.open
           /\ AfterDestroy.allocations = context.allocations
           /\ AfterDestroy.children = context.children - 1
           /\ AfterDestroy.copies = context.copies
<1> DEFINE c == context
<1>1. /\ c.children - 1 \in Int /\ c.allocations - 1 \in Int /\ c.copies - 1 \in Int
      /\ c = [open |-> c.open, poisoned |-> c.poisoned, children |-> c.children,
              allocations |-> c.allocations, copies |-> c.copies]
  BY ContextRecord DEF Contexts
<1>2. AfterSettle = [open |-> c.open, poisoned |-> c.poisoned, children |-> c.children - 1,
                     allocations |-> c.allocations, copies |-> c.copies - 1]
  <2> HIDE DEF c
  <2>1. AfterSettle = [c EXCEPT !.children = c.children - 1, !.copies = c.copies - 1]
    BY DEF AfterSettle, c
  <2>2. c \in Contexts
    BY DEF c
  <2> QED BY <1>1, <2>1, <2>2, CountersChange, Zenon
<1>3. AfterDestroy = [open |-> c.open, poisoned |-> c.poisoned, children |-> c.children - 1,
                      allocations |-> c.allocations, copies |-> c.copies]
  BY <1>1 DEF AfterDestroy
<1>4. /\ AfterSettle \in Contexts /\ AfterSettle.open = context.open
      /\ AfterSettle.allocations = context.allocations
      /\ AfterSettle.children = context.children - 1 /\ AfterSettle.copies = context.copies - 1
  BY <1>2 DEF Contexts
<1>5. /\ AfterDestroy \in Contexts /\ AfterDestroy.open = context.open
      /\ AfterDestroy.allocations = context.allocations
      /\ AfterDestroy.children = context.children - 1 /\ AfterDestroy.copies = context.copies
  BY <1>3 DEF Contexts
<1>6. CASE ok
  <2>1. AfterFree(ok) = [open |-> c.open, poisoned |-> c.poisoned, children |-> c.children - 1,
                         allocations |-> c.allocations - 1, copies |-> c.copies]
    BY <1>1, <1>6, CountersChange, Zenon DEF AfterFree
  <2>2. /\ AfterFree(ok) \in Contexts /\ AfterFree(ok).open = context.open
        /\ AfterFree(ok).copies = context.copies
        /\ AfterFree(ok).children = context.children - 1
        /\ AfterFree(ok).allocations = context.allocations - 1
    BY <2>1 DEF Contexts
  <2> QED BY <1>4, <1>5, <1>6, <2>2
<1>7. CASE ~ok
  <2>1. AfterFree(ok) = context
    BY <1>7 DEF AfterFree
  <2> QED BY <1>4, <1>5, <1>7, <2>1
<1> QED BY <1>6, <1>7

-----------------------------------------------------------------------------
(* Frame lemmas: what a step that leaves some of the guards alone keeps. *)

\* The guards of streams and buffers follow copies, batches and captured streams.
LEMMA GuardsKept ==
    ASSUME IInv, UNCHANGED <<uses, copies, batches, pending>>,
           \A t \in Threads, s \in Streams : CapturedBy(t, s)' <=> CapturedBy(t, s)
    PROVE  StreamsExclusive' /\ BuffersExclusive' /\ AccessesLent'
  BY DEF IInv, StreamsExclusive, BuffersExclusive, AccessesLent, Lent, Copying, Batching

\* The handles and the memory behind them.
LEMMA HandlesKept ==
    ASSUME IInv, UNCHANGED <<handle, memory>>
    PROVE  HandlesLive'
  BY DEF IInv, HandlesLive

\* The counters.
LEMMA CountsKept ==
    ASSUME IInv, UNCHANGED <<memory, handle>>,
           \A s \in Streams : Copying(s)' <=> Copying(s),
           \A t \in Threads : Capturing(t)' <=> Capturing(t),
           context'.children = context.children, context'.allocations = context.allocations,
           context'.copies = context.copies
    PROVE  ContextCounts'
<1>1. /\ CopyStreams' = CopyStreams /\ Allocated' = Allocated
      /\ OpenStreams' = OpenStreams /\ CaptureThreads' = CaptureThreads
  BY DEF CopyStreams, Allocated, OpenStreams, CaptureThreads
<1> QED BY <1>1 DEF IInv, ContextCounts

\* Nothing starts again once the context is released.
LEMMA ReleasedKept ==
    ASSUME IInv, context'.open = context.open,
           context.open \/ UNCHANGED <<memory, handle, pending, copies, captures>>
    PROVE  ContextReleasedLast'
  BY DEF IInv, ContextReleasedLast

\* The queues of the captures.
LEMMA QueuesKept ==
    ASSUME IInv,
           \A t \in Threads : Capturing(t)' => Capturing(t) /\ captures'[t].queue = captures[t].queue,
           \A x \in Resources : handle[x] = "deferred" => handle'[x] = "deferred"
    PROVE  QueuesDeferred'
<1>1. \A t \in Threads : Capturing(t) =>
          \A i \in DOMAIN captures[t].queue : captures[t].queue[i] \in Resources
  BY FieldTypes, LenProperties, ElementOfSeq DEF IInv
<1> QED BY <1>1 DEF IInv, QueuesDeferred

-----------------------------------------------------------------------------
(* Buffers. *)

\* An allocation is made.
LEMMA CreateInv ==
    ASSUME IInv, NEW t \in Threads, NEW b \in Buffers, Create(t, b)
    PROVE  IInv'
<1>1. /\ context.open /\ handle[b] = "absent" /\ b \in Resources
      /\ UNCHANGED <<uses, busy, copies, batches, captures, pending>>
      /\ context \in Contexts /\ faults \in Nat
  BY ResourceFacts DEF Create, IInv, MemoryTypes
<1>2. PICK o \in Outcomes(t, FALSE) :
        /\ Called(t, FALSE, o,
                  IF o.ok THEN [context EXCEPT !.children = @ + 1, !.allocations = @ + 1]
                  ELSE context)
        /\ memory' = [memory EXCEPT
               ![b] = IF ~o.ok THEN @ ELSE IF o.poison THEN "unknown" ELSE "live"]
        /\ handle' = [handle EXCEPT
               ![b] = IF ~o.ok THEN @ ELSE IF o.poison THEN "leaked" ELSE "owned"]
  BY DEF Create
<1> DEFINE after == IF o.ok THEN [context EXCEPT !.children = @ + 1, !.allocations = @ + 1]
                    ELSE context
<1>3. /\ after \in Contexts /\ after.open = context.open
      /\ after.children = IF o.ok THEN context.children + 1 ELSE context.children
      /\ after.allocations = IF o.ok THEN context.allocations + 1 ELSE context.allocations
      /\ after.copies = context.copies
  <2>1. CASE o.ok
    <3>0. context.children + 1 \in Int /\ context.allocations + 1 \in Int
      BY <1>1 DEF Contexts
    <3>1. after = [open |-> context.open, poisoned |-> context.poisoned,
                   children |-> context.children + 1, allocations |-> context.allocations + 1,
                   copies |-> context.copies]
      BY <1>1, <2>1, <3>0, CountersChange, Zenon
    <3> HIDE DEF after
    <3> QED BY <1>1, <2>1, <3>1 DEF Contexts
  <2>2. CASE ~o.ok
    BY <1>1, <2>2
  <2> QED BY <2>1, <2>2
<1> HIDE DEF after
<1>4. /\ context' \in Contexts /\ faults' \in Nat
      /\ context'.open = context.open /\ context'.copies = context.copies
      /\ context'.children = IF o.ok THEN context.children + 1 ELSE context.children
      /\ context'.allocations = IF o.ok THEN context.allocations + 1 ELSE context.allocations
  BY <1>1, <1>2, <1>3, CalledIs DEF after
<1>5. /\ handle' \in [Resources -> Owners] /\ memory' \in [Buffers -> Memories]
      /\ \A x \in Resources : x # b => handle'[x] = handle[x]
      /\ \A c \in Buffers : c # b => memory'[c] = memory[c]
      /\ \/ ~o.ok /\ handle'[b] = handle[b] /\ memory'[b] = memory[b]
         \/ o.ok /\ handle'[b] = "leaked" /\ memory'[b] = "unknown"
         \/ o.ok /\ handle'[b] = "owned" /\ memory'[b] = "live"
  BY <1>1, <1>2 DEF IInv, MemoryTypes, Owners, Memories
<1>6. uses[b] = 0 /\ memory[b] = "none"
  BY <1>1 DEF IInv, UsedAlive, HandlesLive, MemoryTypes
<1>7. MemoryTypes'
  BY <1>1, <1>4, <1>5 DEF IInv, MemoryTypes
<1>8. StreamsExclusive' /\ BuffersExclusive' /\ AccessesLent'
  BY <1>1, GuardsKept DEF CapturedBy
<1>9. UsedAlive'
  BY <1>1, <1>5, <1>6 DEF IInv, UsedAlive
<1>10. HandlesLive'
  BY <1>5, <1>6, ResourceFacts DEF IInv, HandlesLive
<1>11. QueuesDeferred'
  BY <1>1, <1>5, QueuesKept DEF Capturing
<1>12. CapturesAlone'
  BY <1>1 DEF IInv, CapturesAlone, Capturing, Copying
<1>13. ContextCounts'
  <2>1. /\ CopyStreams' = CopyStreams /\ CaptureThreads' = CaptureThreads
        /\ OpenStreams' = OpenStreams
    BY <1>1, <1>5, ResourceFacts
    DEF CopyStreams, CaptureThreads, OpenStreams, Copying, Capturing
  <2>2. CASE ~o.ok
    <3>1. Allocated' = Allocated
      BY <1>5, <2>2 DEF Allocated
    <3> QED BY <1>4, <2>1, <2>2, <3>1 DEF IInv, ContextCounts
  <2>3. CASE o.ok
    <3>1. Allocated' = Allocated \cup {b} /\ b \notin Allocated
      BY <1>5, <1>6, <2>3 DEF Allocated
    <3>2. IsFiniteSet(Allocated)
      BY ResourceFacts, FS_Subset DEF Allocated
    <3>3. Cardinality(Allocated') = Cardinality(Allocated) + 1
      BY <3>1, <3>2, FS_AddElement
    <3>4. context.children \in Int /\ context.allocations \in Int /\ context.copies \in Int
      BY <1>1 DEF Contexts
    <3>5. /\ Cardinality(OpenStreams) \in Nat /\ Cardinality(CaptureThreads) \in Nat
      BY ResourceFacts, FS_Subset, FS_CardinalityType DEF OpenStreams, CaptureThreads
    <3> QED BY <1>4, <2>1, <2>3, <3>3, <3>4, <3>5 DEF IInv, ContextCounts
  <2> QED BY <2>2, <2>3
<1>14. ContextReleasedLast'
  BY <1>1, <1>4, ReleasedKept
<1> QED BY <1>7, <1>8, <1>9, <1>10, <1>11, <1>12, <1>13, <1>14 DEF IInv

\* A capture that goes on has the stream it was begun on.
CapturesKept ==
    /\ captures' \in [Threads -> CaptureOwners \cup {None}]
    /\ \A t \in Threads : /\ Capturing(t)' <=> Capturing(t)
                          /\ Capturing(t) => captures'[t].stream = captures[t].stream

\* A capture that goes on holds the same stream.
LEMMA CapturedKept ==
    ASSUME CapturesKept
    PROVE  \A t \in Threads, s \in Streams : CapturedBy(t, s)' <=> CapturedBy(t, s)
  BY DEF CapturesKept, CapturedBy, Capturing

\* A free or a destroy that was attempted, by a close or by a drain.
LEMMA FreedInv ==
    ASSUME IInv, NEW x \in Resources, handle[x] \in {"owned", "dropping", "deferred"},
           uses[x] = 0, context.open, NEW t, NEW isCapture, NEW o,
           \/ x \in Buffers /\ Freed(x, o.ok) /\ Called(t, isCapture, o, AfterFree(o.ok))
           \/ /\ x \in Streams /\ handle' = [handle EXCEPT ![x] = "closed"]
              /\ Called(t, isCapture, o, AfterDestroy) /\ UNCHANGED memory,
           UNCHANGED <<uses, busy, copies, batches, pending>>, CapturesKept, QueuesDeferred'
    PROVE  IInv'
<1>1. /\ handle' \in [Resources -> Owners] /\ handle'[x] = "closed"
      /\ \A y \in Resources : y # x => handle'[y] = handle[y]
  BY DEF IInv, MemoryTypes, Owners, Freed
<1>2. context \in Contexts /\ faults \in Nat
  BY DEF IInv, MemoryTypes
<1>3. o.ok \in BOOLEAN
  BY OutcomeIs DEF Called
<1>4. /\ memory' \in [Buffers -> Memories]
      /\ \A b \in Buffers : b # x => memory'[b] = memory[b]
      /\ x \in Buffers => memory'[x] = IF o.ok THEN "freed" ELSE "unknown"
      /\ x \in Streams => memory' = memory
  BY <1>3, ResourceFacts DEF IInv, MemoryTypes, Memories, Freed
<1>5. /\ context' \in Contexts /\ faults' \in Nat
      /\ context'.open = context.open /\ context'.copies = context.copies
      /\ x \in Buffers =>
            /\ context'.children = IF o.ok THEN context.children - 1 ELSE context.children
            /\ context'.allocations = IF o.ok THEN context.allocations - 1 ELSE context.allocations
      /\ x \in Streams =>
            /\ context'.children = context.children - 1
            /\ context'.allocations = context.allocations
  <2>1. CASE x \in Buffers
    <3>1. Called(t, isCapture, o, AfterFree(o.ok)) /\ x \notin Streams
      BY <2>1, ResourceFacts
    <3> QED BY ZenonT(60), <1>2, <1>3, <2>1, <3>1, AfterIs, CalledIs
  <2>2. CASE x \in Streams
    <3>1. Called(t, isCapture, o, AfterDestroy) /\ x \notin Buffers
      BY <2>2, ResourceFacts
    <3>2. /\ AfterDestroy \in Contexts /\ AfterDestroy.open = context.open
          /\ AfterDestroy.allocations = context.allocations
          /\ AfterDestroy.children = context.children - 1
          /\ AfterDestroy.copies = context.copies
      BY <1>2, <1>3, AfterIs
    <3> QED BY <1>2, <2>2, <3>1, <3>2, CalledIs
  <2> QED BY <2>1, <2>2, ResourceFacts
<1>6. MemoryTypes'
  BY <1>1, <1>4, <1>5 DEF IInv, MemoryTypes, CapturesKept
<1>7. StreamsExclusive' /\ BuffersExclusive' /\ AccessesLent'
  BY CapturedKept, GuardsKept
<1>8. UsedAlive'
  BY <1>1, <1>4 DEF IInv, UsedAlive
<1>9. HandlesLive'
  BY <1>1, <1>4, ResourceFacts DEF IInv, HandlesLive
<1>10. CapturesAlone'
  BY DEF IInv, CapturesAlone, CapturesKept, Copying
<1>11. ContextCounts'
  <2>1. CopyStreams' = CopyStreams /\ CaptureThreads' = CaptureThreads
    BY DEF CopyStreams, CaptureThreads, Copying, CapturesKept
  <2>2. /\ IsFiniteSet(Allocated) /\ IsFiniteSet(OpenStreams)
        /\ Cardinality(Allocated) \in Nat /\ Cardinality(OpenStreams) \in Nat
        /\ Cardinality(CaptureThreads) \in Nat /\ Cardinality(CopyStreams) \in Nat
    BY ResourceFacts, FS_Subset, FS_CardinalityType
    DEF Allocated, OpenStreams, CaptureThreads, CopyStreams
  <2>3. CASE x \in Streams
    <3>1. Allocated' = Allocated /\ OpenStreams' = OpenStreams \ {x} /\ x \in OpenStreams
      BY <1>1, <1>4, <2>3, ResourceFacts DEF Allocated, OpenStreams
    <3>2. Cardinality(OpenStreams') = Cardinality(OpenStreams) - 1
      BY <2>2, <3>1, FS_RemoveElement
    <3> QED BY <1>5, <2>1, <2>2, <2>3, <3>1, <3>2 DEF IInv, ContextCounts
  <2>4. CASE x \in Buffers
    <3>1. OpenStreams' = OpenStreams
      BY <1>1, <2>4, ResourceFacts DEF OpenStreams
    <3>2. x \in Allocated
      BY <2>4 DEF IInv, HandlesLive, Allocated
    <3>3. CASE o.ok
      <4>1. Allocated' = Allocated \ {x}
        BY <1>4, <2>4, <3>3 DEF Allocated
      <4>2. Cardinality(Allocated') = Cardinality(Allocated) - 1
        BY <2>2, <3>2, <4>1, FS_RemoveElement
      <4> QED BY <1>5, <2>1, <2>2, <2>4, <3>1, <3>3, <4>2 DEF IInv, ContextCounts
    <3>4. CASE ~o.ok
      <4>1. Allocated' = Allocated
        BY <1>4, <2>4, <3>2, <3>4 DEF Allocated
      <4> QED BY <1>5, <2>1, <2>4, <3>1, <3>4, <4>1 DEF IInv, ContextCounts
    <3> QED BY <3>3, <3>4
  <2> QED BY <2>3, <2>4, ResourceFacts
<1>12. ContextReleasedLast'
  BY <1>5, ReleasedKept
<1> QED BY <1>6, <1>7, <1>8, <1>9, <1>10, <1>11, <1>12 DEF IInv

\* A handle changes hands: the resource stays as it is.
LEMMA HandedOver ==
    ASSUME IInv, NEW x \in Resources, handle[x] \in {"owned", "dropping"}, context.open,
           NEW h \in {"dropping", "leaked", "deferred"}, handle' = [handle EXCEPT ![x] = h],
           h = "deferred" => uses[x] = 0,
           UNCHANGED <<memory, uses, busy, copies, batches, pending>>,
           context' \in Contexts, faults' \in Nat, context'.open = context.open,
           context'.children = context.children, context'.allocations = context.allocations,
           context'.copies = context.copies, CapturesKept, QueuesDeferred'
    PROVE  IInv'
<1>1. /\ handle' \in [Resources -> Owners] /\ handle'[x] = h
      /\ \A y \in Resources : y # x => handle'[y] = handle[y]
  BY DEF IInv, MemoryTypes, Owners
<1>2. MemoryTypes'
  BY <1>1 DEF IInv, MemoryTypes, CapturesKept
<1>3. StreamsExclusive' /\ BuffersExclusive' /\ AccessesLent'
  BY CapturedKept, GuardsKept
<1>4. UsedAlive'
  BY <1>1 DEF IInv, UsedAlive
<1>5. HandlesLive'
  BY <1>1, ResourceFacts DEF IInv, HandlesLive
<1>6. CapturesAlone'
  BY DEF IInv, CapturesAlone, CapturesKept, Copying
<1>7. ContextCounts'
  <2>1. /\ CopyStreams' = CopyStreams /\ CaptureThreads' = CaptureThreads
        /\ Allocated' = Allocated
    BY DEF CopyStreams, CaptureThreads, Copying, CapturesKept, Allocated
  <2>2. OpenStreams' = OpenStreams
    BY <1>1, ResourceFacts DEF OpenStreams
  <2> QED BY <2>1, <2>2 DEF IInv, ContextCounts
<1>8. ContextReleasedLast'
  BY ReleasedKept
<1> QED BY <1>2, <1>3, <1>4, <1>5, <1>6, <1>7, <1>8 DEF IInv

\* The captures are not touched.
LEMMA CapturesUnchanged ==
    ASSUME IInv, UNCHANGED captures, NEW x \in Resources,
           handle[x] # "deferred", NEW h, handle' = [handle EXCEPT ![x] = h]
    PROVE  CapturesKept /\ QueuesDeferred'
<1>1. CapturesKept
  BY DEF IInv, MemoryTypes, CapturesKept, Capturing
<1>2. \A y \in Resources : handle[y] = "deferred" => handle'[y] = "deferred"
  BY DEF IInv, MemoryTypes
<1>3. QueuesDeferred'
  BY <1>2, QueuesKept DEF Capturing
<1> QED BY <1>1, <1>3

\* A close on a capturing thread goes into the queue of the capture.
LEMMA DeferredQueue ==
    ASSUME IInv, NEW t \in Threads, NEW x \in Resources, Capturing(t), handle[x] # "deferred",
           handle' = [handle EXCEPT ![x] = "deferred"],
           captures' = [captures EXCEPT ![t].queue = Append(@, x)]
    PROVE  CapturesKept /\ QueuesDeferred'
<1> DEFINE q == captures[t].queue
           n == Len(q)
<1>1. /\ captures[t] \in CaptureOwners /\ q \in Seq(Resources)
      /\ n \in Nat /\ DOMAIN q = 1 .. n
  BY FieldTypes, LenProperties DEF IInv
<1>2. /\ Append(q, x) \in Seq(Resources) /\ Len(Append(q, x)) = n + 1
      /\ \A i \in 1 .. n : Append(q, x)[i] = q[i]
      /\ Append(q, x)[n + 1] = x
  BY <1>1, AppendProperties
<1>3. DOMAIN Append(q, x) = 1 .. n + 1
  BY <1>2, LenProperties
<1> DEFINE r == Append(q, x)
<1> HIDE DEF r, n
<1>4. /\ captures'[t] = [captures[t] EXCEPT !.queue = r]
      /\ \A u \in Threads : u # t => captures'[u] = captures[u]
  BY DEF IInv, MemoryTypes, r
<1>5. /\ captures'[t] \in CaptureOwners /\ captures'[t].queue = r
      /\ captures'[t].stream = captures[t].stream
  <2>1. r \in Seq(Resources)
    BY <1>2 DEF r
  <2>2. PICK c, d : c = captures[t] /\ d = captures'[t]
    OBVIOUS
  <2>3. c \in CaptureOwners /\ d = [c EXCEPT !.queue = r]
    BY <1>1, <1>4, <2>2
  <2>4. d \in CaptureOwners /\ d.queue = r /\ d.stream = c.stream
    BY <2>1, <2>3, CaptureQueued
  <2> QED BY <2>2, <2>4
<1>6. captures' \in [Threads -> CaptureOwners \cup {None}]
  BY <1>4, <1>5 DEF IInv, MemoryTypes
<1>7. \A u \in Threads : Capturing(u)' <=> Capturing(u)
  BY <1>4, <1>5, TokenFacts DEF Capturing
<1>8. CapturesKept
  BY <1>4, <1>5, <1>6, <1>7 DEF CapturesKept
<1>9. /\ handle'[x] = "deferred"
      /\ \A y \in Resources : handle[y] = "deferred" => y # x /\ handle'[y] = "deferred"
  BY DEF IInv, MemoryTypes
<1>10. \A u \in Threads : Capturing(u) =>
          \A i \in DOMAIN captures[u].queue :
             /\ captures[u].queue[i] \in Resources
             /\ handle[captures[u].queue[i]] = "deferred" /\ captures[u].queue[i] # x
  <2>1. \A u \in Threads : Capturing(u) =>
          \A i \in DOMAIN captures[u].queue : captures[u].queue[i] \in Resources
    BY FieldTypes, LenProperties, ElementOfSeq DEF IInv
  <2> QED BY <2>1 DEF IInv, QueuesDeferred
<1>11. /\ DOMAIN r = 1 .. n + 1 /\ r[n + 1] = x
       /\ \A i \in 1 .. n : r[i] = q[i]
  BY <1>2, <1>3 DEF r
<1>12. \A i \in DOMAIN r : \/ i \in DOMAIN q /\ r[i] = q[i]
                           \/ i = n + 1 /\ r[i] = x
  BY <1>1, <1>11
<1>13. \A i \in DOMAIN r : handle'[r[i]] = "deferred"
  BY <1>9, <1>10, <1>12
<1>14. \A i, j \in DOMAIN r : r[i] = r[j] => i = j
  BY <1>10, <1>12 DEF IInv, QueuesDeferred
<1>15. QueuesDeferred'
  <2>1. ASSUME NEW u \in Threads, Capturing(u)'
        PROVE  /\ \A i \in DOMAIN captures'[u].queue : handle'[captures'[u].queue[i]] = "deferred"
               /\ \A i, j \in DOMAIN captures'[u].queue :
                     captures'[u].queue[i] = captures'[u].queue[j] => i = j
    <3>1. CASE u = t
      BY ZenonT(60), <1>5, <1>13, <1>14, <3>1
    <3>2. CASE u # t
      BY <1>4, <1>7, <1>9, <1>10, <2>1, <3>2 DEF IInv, QueuesDeferred
    <3> QED BY <3>1, <3>2
  <2>2. ASSUME NEW u \in Threads, NEW v \in Threads, Capturing(u)', Capturing(v)', u # v,
               NEW i \in DOMAIN captures'[u].queue, NEW j \in DOMAIN captures'[v].queue
        PROVE  captures'[u].queue[i] # captures'[v].queue[j]
    <3>1. Capturing(u) /\ Capturing(v)
      BY <1>7, <2>2
    <3>2. CASE u # t /\ v # t
      BY <1>4, <2>2, <3>1, <3>2 DEF IInv, QueuesDeferred
    <3>3. CASE u = t
      <4>1. captures'[v] = captures[v] /\ captures'[u].queue = r
        BY <1>4, <1>5, <2>2, <3>3
      <4>2. captures[v].queue[j] # x
        BY <1>10, <2>2, <3>1, <4>1
      <4>3. \A k \in DOMAIN q : q[k] # captures[v].queue[j]
        BY <2>2, <3>1, <3>3, <4>1 DEF IInv, QueuesDeferred
      <4> QED BY <1>12, <2>2, <4>1, <4>2, <4>3
    <3>4. CASE v = t
      <4>1. captures'[u] = captures[u] /\ captures'[v].queue = r
        BY <1>4, <1>5, <2>2, <3>4
      <4>2. captures[u].queue[i] # x
        BY <1>10, <2>2, <3>1, <4>1
      <4>3. \A k \in DOMAIN q : q[k] # captures[u].queue[i]
        BY <2>2, <3>1, <3>4, <4>1 DEF IInv, QueuesDeferred
      <4> QED BY <1>12, <2>2, <4>1, <4>2, <4>3
    <3> QED BY <3>2, <3>3, <3>4
  <2> QED BY <2>1, <2>2 DEF QueuesDeferred
<1> QED BY <1>8, <1>15

\* One native close.
LEMMA CloseInv ==
    ASSUME IInv, NEW t \in Threads, NEW x \in Resources, Close(t, x)
    PROVE  IInv'
<1>1. /\ context.open /\ handle[x] \in {"owned", "dropping"}
      /\ UNCHANGED <<uses, busy, copies, batches, pending>>
      /\ context \in Contexts /\ faults \in Nat /\ uses[x] \in {0, 1}
  BY DEF Close, IInv, MemoryTypes
<1>2. PICK last \in BOOLEAN : CloseOnce(t, x, last)
  BY DEF Close
<1>3. Kept(last) \in {"dropping", "leaked"}
  BY DEF Kept
<1>4. CASE /\ handle' = [handle EXCEPT ![x] = Kept(last)]
           /\ UNCHANGED <<memory, captures, context, faults>>
  <2>1. CapturesKept /\ QueuesDeferred'
    BY <1>1, <1>4, CapturesUnchanged
  <2> QED BY <1>1, <1>3, <1>4, <2>1, HandedOver
<1>5. CASE /\ ~InUse(x) /\ Capturing(t)
           /\ handle' = [handle EXCEPT ![x] = "deferred"]
           /\ captures' = [captures EXCEPT ![t].queue = Append(@, x)]
           /\ UNCHANGED <<memory, context, faults>>
  <2>1. CapturesKept /\ QueuesDeferred'
    BY <1>1, <1>5, DeferredQueue
  <2>2. uses[x] = 0
    BY <1>5 DEF InUse
  <2> QED BY <1>1, <1>5, <2>1, <2>2, HandedOver
<1>6. ASSUME NEW o \in Outcomes(t, FALSE), UNCHANGED <<memory, captures>>,
             handle' = [handle EXCEPT ![x] = Kept(last)], Called(t, FALSE, o, context)
      PROVE  IInv'
  <2>1. CapturesKept /\ QueuesDeferred'
    BY <1>1, <1>6, CapturesUnchanged
  <2>2. /\ context' \in Contexts /\ faults' \in Nat /\ context'.open = context.open
        /\ context'.children = context.children /\ context'.allocations = context.allocations
        /\ context'.copies = context.copies
    BY <1>1, <1>6, CalledIs
  <2> QED BY <1>1, <1>3, <1>6, <2>1, <2>2, HandedOver
<1>7. ASSUME NEW o \in Outcomes(t, FALSE), ~InUse(x), UNCHANGED captures,
             \/ x \in Buffers /\ Freed(x, o.ok) /\ Called(t, FALSE, o, AfterFree(o.ok))
             \/ /\ x \in Streams /\ handle' = [handle EXCEPT ![x] = "closed"]
                /\ Called(t, FALSE, o, AfterDestroy) /\ UNCHANGED memory
      PROVE  IInv'
  <2>1. handle' = [handle EXCEPT ![x] = "closed"]
    BY <1>7 DEF Freed
  <2>2. CapturesKept /\ QueuesDeferred'
    BY <1>1, <1>7, <2>1, CapturesUnchanged
  <2>3. uses[x] = 0
    BY <1>7 DEF InUse
  <2> QED BY <1>1, <1>7, <2>2, <2>3, FreedInv
<1> QED BY <1>2, <1>4, <1>5, <1>6, <1>7 DEF CloseOnce

-----------------------------------------------------------------------------
(* Pending copies. *)

\* The counters of active uses after SetUses.
LEMMA SetUsesIs ==
    ASSUME MemoryTypes, NEW X, NEW n \in {0, 1}, SetUses(X, n)
    PROVE  /\ uses' \in [Resources -> {0, 1}]
           /\ \A x \in Resources : uses'[x] = IF x \in X THEN n ELSE uses[x]
  BY DEF MemoryTypes, SetUses

\* The context is open while any of its streams is.
LEMMA OpenContext ==
    ASSUME IInv, NEW s \in Streams, handle[s] # "closed"
    PROVE  context.open
  BY DEF IInv, ContextReleasedLast

\* A stream that nobody uses has taken nothing.
LEMMA UnusedStream ==
    ASSUME IInv, NEW s \in Streams, uses[s] = 0
    PROVE  /\ ~Copying(s) /\ ~Batching(s) /\ \A t \in Threads : ~CapturedBy(t, s)
           /\ batches[s].ledger = {} /\ Lent(s) = {} /\ pending[s] = {}
  BY DEF IInv, StreamsExclusive, AccessesLent, Lent

\* A buffer that nobody uses is taken by no stream.
LEMMA UnusedBuffer ==
    ASSUME IInv, NEW b \in Buffers, uses[b] = 0
    PROVE  \A s \in Streams : b \notin Lent(s)
  BY DEF IInv, BuffersExclusive

\* A call that changes nothing but the poison of the context.
LEMMA OnlyContext ==
    ASSUME IInv, NEW t, NEW isCapture, NEW o, Called(t, isCapture, o, context)
    PROVE  /\ context' \in Contexts /\ faults' \in Nat /\ context'.open = context.open
           /\ context'.children = context.children /\ context'.allocations = context.allocations
           /\ context'.copies = context.copies
<1>1. context \in Contexts /\ faults \in Nat
  BY DEF IInv, MemoryTypes
<1> QED BY <1>1, CalledIs

\* Nothing but the poison of the context changes.
LEMMA OnlyContextInv ==
    ASSUME IInv, context' \in Contexts, faults' \in Nat, context'.open = context.open,
           context'.children = context.children, context'.allocations = context.allocations,
           context'.copies = context.copies,
           UNCHANGED <<handle, memory, uses, busy, copies, batches, captures, pending>>
    PROVE  IInv'
<1>1. MemoryTypes'
  BY DEF IInv, MemoryTypes
<1>2. StreamsExclusive' /\ BuffersExclusive' /\ AccessesLent'
  BY GuardsKept DEF CapturedBy
<1>3. UsedAlive' /\ HandlesLive' /\ CapturesAlone'
  BY DEF IInv, UsedAlive, HandlesLive, CapturesAlone, Capturing, Copying
<1>4. QueuesDeferred'
  BY QueuesKept DEF Capturing
<1>5. ContextCounts'
  BY CountsKept DEF Copying, Capturing
<1>6. ContextReleasedLast'
  BY ReleasedKept
<1> QED BY <1>1, <1>2, <1>3, <1>4, <1>5, <1>6 DEF IInv

\* A copy is started.
LEMMA StartCopyInv ==
    ASSUME IInv, NEW t \in Threads, NEW s \in Streams, NEW d \in Device, NEW h \in Pinned,
           StartCopy(t, s, d, h)
    PROVE  IInv'
<1>1. /\ handle[s] = "owned" /\ handle[d] = "owned" /\ handle[h] = "owned"
      /\ \A u \in Threads : ~Capturing(u)
      /\ uses[d] = 0 /\ uses[h] = 0 /\ uses[s] = 0
      /\ UNCHANGED <<handle, memory, batches, captures>>
      /\ d \in Buffers /\ h \in Buffers /\ d # h /\ s # d /\ s # h
      /\ s \in Resources /\ d \in Resources /\ h \in Resources
      /\ context \in Contexts /\ faults \in Nat
  BY ResourceFacts DEF StartCopy, Usable, IInv, MemoryTypes
<1>2. ASSUME NEW o \in Outcomes(t, FALSE), Called(t, FALSE, o, context),
             UNCHANGED <<uses, busy, copies, pending>>
      PROVE  IInv'
  BY <1>1, <1>2, OnlyContext, OnlyContextInv
<1>3. ASSUME NEW o \in Outcomes(t, FALSE), NEW queued \in BOOLEAN,
             SetUses({s, d, h}, 1),
             busy' = [busy EXCEPT ![d] = TRUE, ![h] = TRUE],
             copies' = [copies EXCEPT ![s] = [device |-> d, host |-> h, held |-> TRUE]],
             pending' = [pending EXCEPT ![s] = IF queued THEN @ \cup {{d, h}} ELSE @],
             Called(t, FALSE, o, [context EXCEPT !.children = @ + 1, !.copies = @ + 1])
      PROVE  IInv'
  <2> DEFINE token == [device |-> d, host |-> h, held |-> TRUE]
             after == [context EXCEPT !.children = @ + 1, !.copies = @ + 1]
  <2>1. /\ ~Copying(s) /\ ~Batching(s) /\ batches[s].ledger = {} /\ Lent(s) = {}
        /\ pending[s] = {} /\ \A u \in Threads : ~CapturedBy(u, s)
        /\ \A u \in Streams : d \notin Lent(u) /\ h \notin Lent(u)
    BY <1>1, UnusedStream, UnusedBuffer
  <2>2. /\ after \in Contexts /\ after.open = context.open
        /\ after.allocations = context.allocations
        /\ after.children = context.children + 1 /\ after.copies = context.copies + 1
    <3>1. context.children + 1 \in Int /\ context.copies + 1 \in Int
      BY <1>1 DEF Contexts
    <3>2. after = [open |-> context.open, poisoned |-> context.poisoned,
                   children |-> context.children + 1, allocations |-> context.allocations,
                   copies |-> context.copies + 1]
      <4> DEFINE c == context
      <4>1. after = [c EXCEPT !.children = c.children + 1, !.copies = c.copies + 1]
        OBVIOUS
      <4>2. c \in Contexts /\ c.children + 1 \in Int /\ c.copies + 1 \in Int
        BY <1>1, <3>1
      <4> HIDE DEF c, after
      <4>3. after = [open |-> c.open, poisoned |-> c.poisoned, children |-> c.children + 1,
                     allocations |-> c.allocations, copies |-> c.copies + 1]
        BY <4>1, <4>2, CountersChange, Zenon
      <4> QED BY <4>3 DEF c
    <3> HIDE DEF after
    <3> QED BY <1>1, <3>2 DEF Contexts
  <2> HIDE DEF after
  <2>3. /\ context' \in Contexts /\ faults' \in Nat /\ context'.open = context.open
        /\ context'.allocations = context.allocations
        /\ context'.children = context.children + 1 /\ context'.copies = context.copies + 1
    BY <1>1, <1>3, <2>2, CalledIs DEF after
  <2>4. /\ uses' \in [Resources -> {0, 1}]
        /\ uses'[s] = 1 /\ uses'[d] = 1 /\ uses'[h] = 1
        /\ \A x \in Resources : x \notin {s, d, h} => uses'[x] = uses[x]
    BY <1>1, <1>3, SetUsesIs DEF IInv
  <2>5. token \in CopyTokens /\ token # None /\ token.device = d /\ token.host = h
    <3>1. token \in CopyTokens /\ token.device = d /\ token.host = h
      BY DEF CopyTokens
    <3> HIDE DEF token
    <3> QED BY <3>1, TokenFacts
  <2> HIDE DEF token
  <2>6. /\ copies' \in [Streams -> CopyTokens \cup {None}] /\ copies'[s] = token
        /\ \A u \in Streams : u # s => copies'[u] = copies[u]
    BY <1>3, <2>5 DEF IInv, MemoryTypes, token
  <2>7. Copying(s)' /\ \A u \in Streams : u # s => (Copying(u)' <=> Copying(u))
    BY <2>5, <2>6 DEF Copying
  <2>8. /\ Lent(s)' = {d, h}
        /\ \A u \in Streams : u # s => Lent(u)' = Lent(u)
    <3>1. Lent(s)' = {d, h}
      BY <1>1, <2>1, <2>5, <2>6, <2>7 DEF Lent
    <3>2. \A u \in Streams : u # s => Lent(u)' = Lent(u)
      BY <1>1, <2>6, <2>7 DEF Lent
    <3> QED BY <3>1, <3>2
  <2>9. /\ pending' \in [Streams -> SUBSET SUBSET Buffers]
        /\ pending'[s] \subseteq {{d, h}}
        /\ \A u \in Streams : u # s => pending'[u] = pending[u]
    BY <1>1, <1>3, <2>1 DEF IInv, MemoryTypes
  <2>10. MemoryTypes'
    <3>1. busy' \in [Buffers -> BOOLEAN]
      BY <1>1, <1>3 DEF IInv, MemoryTypes
    <3> QED BY <1>1, <2>3, <2>4, <2>6, <2>9, <3>1 DEF IInv, MemoryTypes
  <2>11. StreamsExclusive'
    <3>1. \A u \in Streams : u # s => uses'[u] = uses[u]
      BY <2>4, ResourceFacts
    <3>2. \A u \in Streams : Batching(u)' <=> Batching(u)
      BY <1>1 DEF Batching
    <3>3. \A v \in Threads, u \in Streams : CapturedBy(v, u)' <=> CapturedBy(v, u)
      BY <1>1 DEF CapturedBy
    <3> QED BY <1>1, <2>1, <2>4, <2>7, <3>1, <3>2, <3>3 DEF IInv, StreamsExclusive
  <2>12. BuffersExclusive'
    <3>1. \A b \in Buffers : b \notin {d, h} => uses'[b] = uses[b]
      BY <2>4, ResourceFacts
    <3> QED BY <2>1, <2>4, <2>8, <3>1 DEF IInv, BuffersExclusive
  <2>13. AccessesLent'
    <3>1. \A u \in Streams : Batching(u)' <=> Batching(u)
      BY <1>1 DEF Batching
    <3> QED BY <2>7, <2>8, <2>9, <3>1 DEF IInv, AccessesLent
  <2>14. UsedAlive'
    BY <1>1, <2>4, ResourceFacts DEF IInv, UsedAlive, HandlesLive
  <2>15. HandlesLive'
    BY <1>1, HandlesKept
  <2>16. QueuesDeferred'
    BY <1>1, QueuesKept DEF Capturing
  <2>17. CapturesAlone'
    BY <1>1 DEF CapturesAlone, Capturing
  <2>18. ContextCounts'
    <3>1. /\ Allocated' = Allocated /\ OpenStreams' = OpenStreams
          /\ CaptureThreads' = CaptureThreads
      BY <1>1 DEF Allocated, OpenStreams, CaptureThreads, Capturing
    <3>2. CopyStreams' = CopyStreams \cup {s} /\ s \notin CopyStreams
      BY <2>1, <2>7 DEF CopyStreams
    <3>3. /\ IsFiniteSet(CopyStreams) /\ Cardinality(CopyStreams) \in Nat
          /\ Cardinality(OpenStreams) \in Nat /\ Cardinality(CaptureThreads) \in Nat
          /\ Cardinality(Allocated) \in Nat
      BY ResourceFacts, FS_Subset, FS_CardinalityType
      DEF Allocated, OpenStreams, CaptureThreads, CopyStreams
    <3>4. Cardinality(CopyStreams') = Cardinality(CopyStreams) + 1
      BY <3>2, <3>3, FS_AddElement
    <3> QED BY <2>3, <3>1, <3>3, <3>4 DEF IInv, ContextCounts
  <2>19. ContextReleasedLast'
    BY <1>1, <2>3, OpenContext, ReleasedKept
  <2> QED BY <2>10, <2>11, <2>12, <2>13, <2>14, <2>15, <2>16, <2>17, <2>18, <2>19 DEF IInv
<1>4. PICK o \in Outcomes(t, FALSE) :
        IF o.entered
        THEN /\ SetUses({s, d, h}, 1)
             /\ busy' = [busy EXCEPT ![d] = TRUE, ![h] = TRUE]
             /\ copies' = [copies EXCEPT ![s] = [device |-> d, host |-> h, held |-> TRUE]]
             /\ \E queued \in IF o.ok THEN {TRUE} ELSE BOOLEAN :
                   pending' = [pending EXCEPT ![s] = IF queued THEN @ \cup {{d, h}} ELSE @]
             /\ Called(t, FALSE, o, [context EXCEPT !.children = @ + 1, !.copies = @ + 1])
        ELSE /\ Called(t, FALSE, o, context)
             /\ UNCHANGED <<uses, busy, copies, pending>>
  BY Zenon DEF StartCopy
<1>5. CASE ~o.entered
  BY <1>2, <1>4, <1>5
<1>6. CASE o.entered
  <2>1. PICK queued \in IF o.ok THEN {TRUE} ELSE BOOLEAN :
          pending' = [pending EXCEPT ![s] = IF queued THEN @ \cup {{d, h}} ELSE @]
    BY <1>4, <1>6, Zenon
  <2>2. queued \in BOOLEAN
    BY <2>1
  <2> QED BY <1>3, <1>4, <1>6, <2>1, <2>2, Zenon
<1> QED BY <1>5, <1>6

\* The guards of streams and buffers when only the borrows of tokens end.
LEMMA GuardsSame ==
    ASSUME IInv, UNCHANGED <<uses, pending>>,
           \A s \in Streams : /\ Copying(s)' <=> Copying(s)
                              /\ Batching(s)' <=> Batching(s)
                              /\ batches'[s].ledger = batches[s].ledger
                              /\ Lent(s)' = Lent(s),
           \A t \in Threads, s \in Streams : CapturedBy(t, s)' <=> CapturedBy(t, s)
    PROVE  StreamsExclusive' /\ BuffersExclusive' /\ AccessesLent'
<1>1. StreamsExclusive'
  BY DEF IInv, StreamsExclusive
<1>2. BuffersExclusive'
  BY DEF IInv, BuffersExclusive
<1>3. AccessesLent'
  BY DEF IInv, AccessesLent
<1> QED BY <1>1, <1>2, <1>3

\* A copy token ends its borrows, or keeps them, and is not settled.
LEMMA CopyHeldInv ==
    ASSUME IInv, NEW s \in Streams, Copying(s), NEW v \in BOOLEAN,
           copies' = [copies EXCEPT ![s].held = v],
           context' \in Contexts, faults' \in Nat, context'.open = context.open,
           context'.children = context.children, context'.allocations = context.allocations,
           context'.copies = context.copies,
           UNCHANGED <<handle, memory, uses, busy, batches, captures, pending>>
    PROVE  IInv'
<1>1. /\ copies'[s] \in CopyTokens
      /\ copies'[s].device = copies[s].device /\ copies'[s].host = copies[s].host
  <2>1. PICK c, d : c = copies[s] /\ d = copies'[s]
    OBVIOUS
  <2>2. c \in CopyTokens
    BY <2>1, FieldTypes DEF IInv
  <2>3. d = [c EXCEPT !.held = v]
    BY <2>1 DEF IInv, MemoryTypes
  <2>4. d \in CopyTokens /\ d.device = c.device /\ d.host = c.host
    BY <2>2, <2>3 DEF CopyTokens
  <2> QED BY <2>1, <2>4
<1>2. /\ \A u \in Streams : u # s => copies'[u] = copies[u]
      /\ copies' \in [Streams -> CopyTokens \cup {None}]
  BY <1>1 DEF IInv, MemoryTypes
<1>3. \A u \in Streams : Copying(u)' <=> Copying(u)
  BY <1>1, <1>2, TokenFacts DEF Copying
<1>4. \A u \in Streams : Lent(u)' = Lent(u)
  BY <1>1, <1>2, <1>3 DEF Lent
<1>5. MemoryTypes'
  BY <1>2 DEF IInv, MemoryTypes
<1>6. StreamsExclusive' /\ BuffersExclusive' /\ AccessesLent'
  BY <1>3, <1>4, GuardsSame DEF CapturedBy, Batching
<1>7. UsedAlive' /\ HandlesLive'
  BY DEF IInv, UsedAlive, HandlesLive
<1>8. QueuesDeferred'
  BY QueuesKept DEF Capturing
<1>9. CapturesAlone'
  BY <1>3 DEF IInv, CapturesAlone, Capturing
<1>10. ContextCounts'
  BY <1>3, CountsKept DEF Capturing
<1>11. context.open
  BY DEF IInv, ContextReleasedLast, Copying
<1>12. ContextReleasedLast'
  BY <1>11, ReleasedKept
<1> QED BY <1>5, <1>6, <1>7, <1>8, <1>9, <1>10, <1>12 DEF IInv

\* A copy is settled: the stream and the two buffers are given back together.
LEMMA SettledInv ==
    ASSUME IInv, NEW t, NEW s \in Streams, NEW o, Copying(s), pending[s] = {},
           Settled(s), Called(t, FALSE, o, AfterSettle),
           UNCHANGED <<handle, memory, batches, captures, pending>>
    PROVE  IInv'
<1> DEFINE d == copies[s].device
           h == copies[s].host
<1>1. /\ d \in Buffers /\ h \in Buffers /\ s # d /\ s # h
      /\ s \in Resources /\ d \in Resources /\ h \in Resources
      /\ context \in Contexts /\ faults \in Nat
  BY FieldTypes, ResourceFacts DEF IInv, MemoryTypes
<1>2. SetUses({s, d, h}, 0) /\ copies' = [copies EXCEPT ![s] = None]
  BY DEF Settled
<1>3. busy' \in [Buffers -> BOOLEAN]
  <2>1. busy' = [busy EXCEPT ![d] = FALSE, ![h] = FALSE]
    BY DEF Settled
  <2> HIDE DEF d, h
  <2> QED BY <1>1, <2>1 DEF IInv, MemoryTypes
<1>4. /\ ~Batching(s) /\ batches[s].ledger = {} /\ Lent(s) = {d, h}
      /\ \A u \in Threads : ~CapturedBy(u, s)
  <2>1. ~Batching(s) /\ batches[s].ledger = {} /\ \A u \in Threads : ~CapturedBy(u, s)
    BY DEF IInv, StreamsExclusive
  <2> QED BY <1>1, <2>1 DEF Lent
<1> HIDE DEF d, h
<1>5. /\ context' \in Contexts /\ faults' \in Nat /\ context'.open = context.open
      /\ context'.allocations = context.allocations
      /\ context'.children = context.children - 1 /\ context'.copies = context.copies - 1
  <2>1. /\ AfterSettle \in Contexts /\ AfterSettle.open = context.open
        /\ AfterSettle.allocations = context.allocations
        /\ AfterSettle.children = context.children - 1
        /\ AfterSettle.copies = context.copies - 1
    BY <1>1, AfterIs
  <2> QED BY <1>1, <2>1, CalledIs
<1>6. /\ uses' \in [Resources -> {0, 1}]
      /\ uses'[s] = 0 /\ uses'[d] = 0 /\ uses'[h] = 0
      /\ \A x \in Resources : x \notin {s, d, h} => uses'[x] = uses[x]
  BY <1>1, <1>2, SetUsesIs DEF IInv
<1>7. /\ copies' \in [Streams -> CopyTokens \cup {None}] /\ copies'[s] = None
      /\ \A u \in Streams : u # s => copies'[u] = copies[u]
  BY <1>2 DEF IInv, MemoryTypes
<1>8. ~Copying(s)' /\ \A u \in Streams : u # s => (Copying(u)' <=> Copying(u))
  BY <1>7 DEF Copying
<1>9. /\ Lent(s)' = {}
      /\ \A u \in Streams : u # s => Lent(u)' = Lent(u)
  <2>1. Lent(s)' = {}
    BY <1>4, <1>8 DEF Lent
  <2>2. \A u \in Streams : u # s => Lent(u)' = Lent(u)
    BY <1>7, <1>8 DEF Lent
  <2> QED BY <2>1, <2>2
<1>10. MemoryTypes'
  BY <1>3, <1>5, <1>6, <1>7 DEF IInv, MemoryTypes
<1>11. \A u \in Streams : /\ Batching(u)' <=> Batching(u)
                          /\ u # s => uses'[u] = uses[u]
  BY <1>1, <1>6, ResourceFacts DEF Batching
<1>12. StreamsExclusive'
  <2>1. \A v \in Threads, u \in Streams : CapturedBy(v, u)' <=> CapturedBy(v, u)
    BY DEF CapturedBy
  <2> QED BY <1>4, <1>6, <1>8, <1>11, <2>1 DEF IInv, StreamsExclusive
<1>13. BuffersExclusive'
  <2>1. \A b \in Buffers : b \notin {d, h} => uses'[b] = uses[b]
    BY <1>6, ResourceFacts
  <2>2. \A u \in Streams : u # s => d \notin Lent(u) /\ h \notin Lent(u)
    BY <1>4 DEF IInv, BuffersExclusive
  <2>3. ASSUME NEW b \in Buffers
        PROVE  uses'[b] = 1 <=> \E u \in Streams : b \in Lent(u)'
    <3>1. CASE b \in {d, h}
      BY <1>6, <1>9, <2>2, <3>1
    <3>2. CASE b \notin {d, h}
      BY <1>4, <1>9, <2>1, <3>2 DEF IInv, BuffersExclusive
    <3> QED BY <3>1, <3>2
  <2>4. \A u, v \in Streams : u # v => Lent(u)' \cap Lent(v)' = {}
    BY <1>9 DEF IInv, BuffersExclusive
  <2> QED BY <2>3, <2>4 DEF BuffersExclusive
<1>14. AccessesLent'
  BY <1>8, <1>9, <1>11 DEF IInv, AccessesLent
<1>15. UsedAlive'
  BY <1>6, ResourceFacts DEF IInv, UsedAlive
<1>16. HandlesLive' /\ QueuesDeferred'
  BY HandlesKept, QueuesKept DEF Capturing
<1>17. CapturesAlone'
  BY <1>8 DEF IInv, CapturesAlone, Capturing
<1>18. ContextCounts'
  <2>1. /\ Allocated' = Allocated /\ OpenStreams' = OpenStreams
        /\ CaptureThreads' = CaptureThreads
    BY DEF Allocated, OpenStreams, CaptureThreads, Capturing
  <2>2. CopyStreams' = CopyStreams \ {s} /\ s \in CopyStreams
    BY <1>8 DEF CopyStreams
  <2>3. /\ IsFiniteSet(CopyStreams) /\ Cardinality(CopyStreams) \in Nat
        /\ Cardinality(OpenStreams) \in Nat /\ Cardinality(CaptureThreads) \in Nat
        /\ Cardinality(Allocated) \in Nat
    BY ResourceFacts, FS_Subset, FS_CardinalityType
    DEF Allocated, OpenStreams, CaptureThreads, CopyStreams
  <2>4. Cardinality(CopyStreams') = Cardinality(CopyStreams) - 1
    BY <2>2, <2>3, FS_RemoveElement
  <2> QED BY <1>5, <2>1, <2>3, <2>4 DEF IInv, ContextCounts
<1>19. context.open
  BY DEF IInv, ContextReleasedLast, Copying
<1>20. ContextReleasedLast'
  BY <1>5, <1>19, ReleasedKept
<1> QED BY <1>10, <1>12, <1>13, <1>14, <1>15, <1>16, <1>17, <1>18, <1>20 DEF IInv

\* A copy is queried, synchronized or dropped.
LEMMA CompleteCopyInv ==
    ASSUME IInv, NEW t \in Threads, NEW s \in Streams, NEW consuming \in BOOLEAN,
           CompleteCopy(t, s, consuming)
    PROVE  IInv'
<1>1. Copying(s) /\ UNCHANGED <<handle, memory, batches, captures, pending>>
  BY DEF CompleteCopy, Copying
<1>2. PICK o \in Outcomes(t, FALSE) :
        /\ o.ok => pending[s] = {}
        /\ IF Succeeded(o)
           THEN Settled(s) /\ Called(t, FALSE, o, AfterSettle)
           ELSE /\ Called(t, FALSE, o, context)
                /\ copies' = [copies EXCEPT ![s].held = ~consuming]
                /\ UNCHANGED <<uses, busy>>
  BY Zenon DEF CompleteCopy
<1>3. CASE Succeeded(o)
  <2>1. pending[s] = {}
    BY <1>2, <1>3 DEF Succeeded
  <2>2. Settled(s) /\ Called(t, FALSE, o, AfterSettle)
    BY <1>2, <1>3
  <2> QED BY <1>1, <2>1, <2>2, SettledInv
<1>4. CASE ~Succeeded(o)
  <2> DEFINE v == ~consuming
  <2>1. /\ Called(t, FALSE, o, context) /\ copies' = [copies EXCEPT ![s].held = v]
        /\ UNCHANGED <<uses, busy>> /\ v \in BOOLEAN
    BY <1>2, <1>4
  <2> HIDE DEF v
  <2> QED BY <1>1, <2>1, OnlyContext, CopyHeldInv
<1> QED BY <1>3, <1>4

-----------------------------------------------------------------------------
(* Command batches. *)

\* The guard of a batch changes.
LEMMA BatchGuarded ==
    ASSUME NEW c \in Batches, NEW v \in BOOLEAN, NEW d, d = [c EXCEPT !.guarded = v]
    PROVE  d \in Batches /\ d.owner = c.owner /\ d.ledger = c.ledger
  BY DEF Batches

\* The ledger of a batch changes.
LEMMA BatchLedger ==
    ASSUME NEW c \in Batches, NEW l \in SUBSET Buffers, NEW d, d = [c EXCEPT !.ledger = l]
    PROVE  d \in Batches /\ d.owner = c.owner /\ d.ledger = l
  BY DEF Batches

\* The same, in the batches of all streams.
LEMMA BatchLedgerAt ==
    ASSUME batches \in [Streams -> Batches], NEW s \in Streams, NEW l \in SUBSET Buffers,
           batches' = [batches EXCEPT ![s].ledger = l]
    PROVE  batches'[s] \in Batches /\ batches'[s].owner = batches[s].owner /\ batches'[s].ledger = l
<1>1. PICK c, d : c = batches[s] /\ d = batches'[s]
  OBVIOUS
<1>2. c \in Batches /\ d = [c EXCEPT !.ledger = l]
  BY <1>1
<1>3. d \in Batches /\ d.owner = c.owner /\ d.ledger = l
  BY SMTT(30), <1>2, BatchLedger
<1> QED BY <1>1, <1>3

\* A batch begins.
LEMMA BeginBatchInv ==
    ASSUME IInv, NEW t \in Threads, NEW s \in Streams, BeginBatch(t, s)
    PROVE  IInv'
<1> DEFINE fresh == [NoBatch EXCEPT !.owner = t, !.guarded = TRUE]
<1>1. /\ handle[s] = "owned" /\ uses[s] = 0 /\ ~Capturing(t)
      /\ SetUses({s}, 1) /\ s \in Resources
      /\ UNCHANGED <<handle, memory, busy, copies, captures, pending, context, faults>>
      /\ \A b \in Buffers : b # s
  BY ResourceFacts DEF BeginBatch, Usable
<1>2. fresh \in Batches /\ fresh.owner = t /\ fresh.ledger = {}
  <2>1. fresh = [owner |-> t, guarded |-> TRUE, ledger |-> {}]
    <3>1. PICK b : b = NoBatch
      OBVIOUS
    <3>2. b = [owner |-> None, guarded |-> FALSE, ledger |-> {}]
      BY <3>1 DEF NoBatch
    <3>3. ASSUME NEW d, d = [b EXCEPT !.owner = t, !.guarded = TRUE]
          PROVE  d = [owner |-> t, guarded |-> TRUE, ledger |-> {}]
      BY <3>2, <3>3
    <3> QED BY <3>1, <3>3, Zenon
  <2> HIDE DEF fresh
  <2> QED BY <2>1 DEF Batches
<1>3. batches' = [batches EXCEPT ![s] = fresh]
  BY DEF BeginBatch
<1> HIDE DEF fresh
<1>4. /\ batches' \in [Streams -> Batches] /\ batches'[s] = fresh
      /\ \A u \in Streams : u # s => batches'[u] = batches[u]
  BY <1>2, <1>3 DEF IInv, MemoryTypes
<1>5. /\ ~Copying(s) /\ ~Batching(s) /\ batches[s].ledger = {}
      /\ pending[s] = {} /\ \A u \in Threads : ~CapturedBy(u, s)
  BY <1>1, UnusedStream
<1>6. /\ Batching(s)' /\ \A u \in Streams : u # s => (Batching(u)' <=> Batching(u))
      /\ \A u \in Streams : batches'[u].ledger = batches[u].ledger
  BY <1>2, <1>4, <1>5, TokenFacts DEF Batching
<1>7. \A u \in Streams : (Copying(u)' <=> Copying(u)) /\ Lent(u)' = Lent(u)
  BY <1>1, <1>6 DEF Copying, Lent
<1>8. /\ uses' \in [Resources -> {0, 1}] /\ uses'[s] = 1
      /\ \A x \in Resources : x # s => uses'[x] = uses[x]
  BY <1>1, SetUsesIs DEF IInv
<1>9. MemoryTypes'
  BY <1>1, <1>4, <1>8 DEF IInv, MemoryTypes
<1>10. StreamsExclusive'
  <2>1. \A v \in Threads, u \in Streams : CapturedBy(v, u)' <=> CapturedBy(v, u)
    BY <1>1 DEF CapturedBy
  <2>2. \A u \in Streams : u # s => uses'[u] = uses[u]
    BY <1>8, ResourceFacts
  <2> QED BY <1>5, <1>6, <1>7, <1>8, <2>1, <2>2 DEF IInv, StreamsExclusive
<1>11. BuffersExclusive'
  <2>1. \A b \in Buffers : uses'[b] = uses[b]
    BY <1>1, <1>8, ResourceFacts
  <2> QED BY <1>7, <2>1 DEF IInv, BuffersExclusive
<1>12. AccessesLent'
  BY <1>1, <1>6, <1>7 DEF IInv, AccessesLent
<1>13. UsedAlive'
  BY <1>1, <1>8, ResourceFacts DEF IInv, UsedAlive
<1>14. HandlesLive' /\ QueuesDeferred'
  BY <1>1, HandlesKept, QueuesKept DEF Capturing
<1>15. CapturesAlone'
  BY <1>1, <1>2, <1>4, <1>7 DEF IInv, CapturesAlone, Capturing
<1>16. ContextCounts'
  BY <1>1, CountsKept DEF Copying, Capturing
<1>17. ContextReleasedLast'
  BY <1>1, ReleasedKept
<1> QED BY <1>9, <1>10, <1>11, <1>12, <1>13, <1>14, <1>15, <1>16, <1>17 DEF IInv

\* The ledger of a batch grows by buffers that nobody else has, and the device may be
\* given work on them.
LEMMA LedgerInv ==
    ASSUME IInv, NEW s \in Streams, Batching(s), NEW l \in SUBSET Buffers,
           batches[s].ledger \subseteq l,
           \A b \in l : b \in batches[s].ledger \/ (uses[b] = 0 /\ handle[b] = "owned"),
           batches' = [batches EXCEPT ![s].ledger = l], SetUses(l, 1),
           pending' \in [Streams -> SUBSET SUBSET Buffers],
           \A u \in Streams : u # s => pending'[u] = pending[u],
           \A access \in pending'[s] : access \in pending[s] \/ access \subseteq l,
           context' \in Contexts, faults' \in Nat, context'.open = context.open,
           context'.children = context.children, context'.allocations = context.allocations,
           context'.copies = context.copies, context.open,
           UNCHANGED <<handle, memory, busy, copies, captures>>
    PROVE  IInv'
<1>1. /\ batches'[s] \in Batches /\ batches'[s].owner = batches[s].owner
      /\ batches'[s].ledger = l
  BY BatchLedgerAt DEF IInv, MemoryTypes
<1>2. /\ batches' \in [Streams -> Batches]
      /\ \A u \in Streams : u # s => batches'[u] = batches[u]
  BY <1>1 DEF IInv, MemoryTypes
<1>3. \A u \in Streams : Batching(u)' <=> Batching(u)
  BY <1>1, <1>2 DEF Batching
<1>4. \A u \in Streams : Copying(u)' <=> Copying(u)
  BY DEF Copying
<1>5. ~Copying(s) /\ \A u \in Threads : ~CapturedBy(u, s)
  BY DEF IInv, StreamsExclusive
<1>6. /\ Lent(s)' = l /\ Lent(s) = batches[s].ledger
      /\ \A u \in Streams : u # s => Lent(u)' = Lent(u)
  <2>1. Lent(s)' = l
    BY <1>1, <1>4, <1>5 DEF Lent
  <2>2. Lent(s) = batches[s].ledger
    BY <1>5 DEF Lent
  <2>3. \A u \in Streams : u # s => Lent(u)' = Lent(u)
    BY <1>2, <1>4 DEF Lent
  <2> QED BY <2>1, <2>2, <2>3
<1>7. /\ uses' \in [Resources -> {0, 1}]
      /\ \A x \in Resources : uses'[x] = IF x \in l THEN 1 ELSE uses[x]
  BY SetUsesIs DEF IInv
<1>8. /\ \A u \in Streams : uses'[u] = uses[u]
      /\ \A b \in Buffers : uses'[b] = IF b \in l THEN 1 ELSE uses[b]
  BY <1>7, ResourceFacts
<1>9. MemoryTypes'
  BY <1>2, <1>7 DEF IInv, MemoryTypes
<1>10. StreamsExclusive'
  <2>1. \A v \in Threads, u \in Streams : CapturedBy(v, u)' <=> CapturedBy(v, u)
    BY DEF CapturedBy
  <2>2. \A u \in Streams : ~Batching(u)' => batches'[u].ledger = {}
    BY <1>2, <1>3 DEF IInv, StreamsExclusive
  <2> QED BY <1>3, <1>4, <1>8, <2>1, <2>2 DEF IInv, StreamsExclusive
<1>11. \A b \in l, u \in Streams : u # s => b \notin Lent(u)
  <2> SUFFICES ASSUME NEW b \in l, NEW u \in Streams, u # s, b \in Lent(u)
               PROVE  FALSE
    OBVIOUS
  <2>1. CASE b \in batches[s].ledger
    BY <1>6, <2>1 DEF IInv, BuffersExclusive
  <2>2. CASE uses[b] = 0
    BY <2>2, UnusedBuffer
  <2> QED BY <2>1, <2>2
<1>12. BuffersExclusive'
  <2>1. ASSUME NEW b \in Buffers
        PROVE  uses'[b] = 1 <=> \E u \in Streams : b \in Lent(u)'
    <3>1. CASE b \in l
      BY <1>6, <1>8, <3>1
    <3>2. CASE b \notin l
      BY <1>6, <1>8, <3>2 DEF IInv, BuffersExclusive
    <3> QED BY <3>1, <3>2
  <2>2. ASSUME NEW u \in Streams, NEW v \in Streams, u # v
        PROVE  Lent(u)' \cap Lent(v)' = {}
    BY <1>6, <1>11, <2>2 DEF IInv, BuffersExclusive
  <2> QED BY <2>1, <2>2 DEF BuffersExclusive
<1>13. AccessesLent'
  <2>1. \A access \in pending'[s] : access \subseteq l
    BY <1>6 DEF IInv, AccessesLent
  <2> QED BY <1>3, <1>4, <1>6, <2>1 DEF IInv, AccessesLent
<1>14. UsedAlive'
  <2>1. \A b \in Buffers : b \in batches[s].ledger => uses[b] = 1
    BY <1>6 DEF IInv, BuffersExclusive
  <2>2. \A b \in l : handle[b] \in {"owned", "dropping", "leaked"} /\ memory[b] = "live"
    BY <2>1, ResourceFacts DEF IInv, UsedAlive, HandlesLive
  <2> QED BY <1>7, <2>2, ResourceFacts DEF IInv, UsedAlive
<1>15. HandlesLive' /\ QueuesDeferred'
  BY HandlesKept, QueuesKept DEF Capturing
<1>16. CapturesAlone'
  BY <1>1, <1>2, <1>4 DEF IInv, CapturesAlone, Capturing
<1>17. ContextCounts'
  BY CountsKept DEF Copying, Capturing
<1>18. ContextReleasedLast'
  BY ReleasedKept
<1> QED BY <1>9, <1>10, <1>12, <1>13, <1>14, <1>15, <1>16, <1>17, <1>18 DEF IInv

\* A copy inside a batch.
LEMMA BatchCopyInv ==
    ASSUME IInv, NEW t \in Threads, NEW s \in Streams, NEW to \in Buffers, NEW from \in Buffers,
           BatchCopy(t, s, to, from)
    PROVE  IInv'
<1> DEFINE first == batches[s].ledger \cup {to}
           both == Registers(s, first, from)
           ledger == IF both THEN first \cup {from} ELSE first
<1>1. /\ batches[s].owner = t /\ handle[s] = "owned"
      /\ handle[to] = "owned" /\ handle[from] = "owned"
      /\ to \in batches[s].ledger \/ uses[to] = 0
      /\ both => from \in first \/ uses[from] = 0
      /\ UNCHANGED <<handle, memory, busy, copies, captures>>
  BY DEF BatchCopy, Usable, Registers
<1>2. Batching(s) /\ context.open /\ batches[s].ledger \subseteq Buffers
  BY <1>1, TokenFacts, OpenContext, FieldTypes DEF Batching, IInv
<1>3. /\ batches' = [batches EXCEPT ![s].ledger = ledger] /\ SetUses(ledger, 1)
      /\ \/ ~both /\ UNCHANGED <<pending, context, faults>>
         \/ /\ both
            /\ \E o \in Outcomes(t, FALSE) :
                 /\ Called(t, FALSE, o, context)
                 /\ \E queued \in IF o.ok THEN {TRUE}
                                  ELSE IF o.entered THEN BOOLEAN ELSE {FALSE} :
                      pending' = [pending EXCEPT
                          ![s] = IF queued THEN @ \cup {{to, from}} ELSE @]
  BY Zenon DEF BatchCopy
<1>4. /\ ledger \in SUBSET Buffers /\ batches[s].ledger \subseteq ledger
      /\ both => {to, from} \subseteq ledger
      /\ \A b \in ledger : b \in batches[s].ledger \/ (uses[b] = 0 /\ handle[b] = "owned")
  <2> HIDE DEF both
  <2> QED BY <1>1, <1>2
<1> HIDE DEF first, both, ledger
<1>5. CASE ~both /\ UNCHANGED <<pending, context, faults>>
  <2>1. /\ pending' \in [Streams -> SUBSET SUBSET Buffers] /\ context' \in Contexts
        /\ faults' \in Nat
    BY <1>5 DEF IInv, MemoryTypes
  <2> QED BY <1>1, <1>2, <1>3, <1>4, <1>5, <2>1, LedgerInv
<1>6. CASE both /\ ~UNCHANGED <<pending, context, faults>>
  <2>1. PICK o \in Outcomes(t, FALSE) :
          /\ Called(t, FALSE, o, context)
          /\ \E queued \in IF o.ok THEN {TRUE}
                           ELSE IF o.entered THEN BOOLEAN ELSE {FALSE} :
               pending' = [pending EXCEPT ![s] = IF queued THEN @ \cup {{to, from}} ELSE @]
    BY <1>3, <1>6, Zenon
  <2>2. PICK queued :
          pending' = [pending EXCEPT ![s] = IF queued THEN @ \cup {{to, from}} ELSE @]
    BY <2>1, Zenon
  <2>3. /\ pending' \in [Streams -> SUBSET SUBSET Buffers]
        /\ \A u \in Streams : u # s => pending'[u] = pending[u]
        /\ \A access \in pending'[s] : access \in pending[s] \/ access = {to, from}
    BY <2>2 DEF IInv, MemoryTypes
  <2>4. \A access \in pending'[s] : access \in pending[s] \/ access \subseteq ledger
    BY <1>4, <1>6, <2>3
  <2>5. /\ context' \in Contexts /\ faults' \in Nat /\ context'.open = context.open
        /\ context'.children = context.children /\ context'.allocations = context.allocations
        /\ context'.copies = context.copies
    BY <2>1, OnlyContext
  <2> QED BY <1>1, <1>2, <1>3, <1>4, <2>3, <2>4, <2>5, LedgerInv
<1>7. CASE both /\ UNCHANGED <<pending, context, faults>>
  <2>1. /\ pending' \in [Streams -> SUBSET SUBSET Buffers] /\ context' \in Contexts
        /\ faults' \in Nat
    BY <1>7 DEF IInv, MemoryTypes
  <2> QED BY <1>1, <1>2, <1>3, <1>4, <1>7, <2>1, LedgerInv
<1> QED BY <1>3, <1>5, <1>6, <1>7

\* A batch ends its borrow of the stream and keeps what it has taken.
LEMMA BatchForgottenInv ==
    ASSUME IInv, NEW s \in Streams, batches' = [batches EXCEPT ![s].guarded = FALSE],
           context' \in Contexts, faults' \in Nat, context'.open = context.open,
           context'.children = context.children, context'.allocations = context.allocations,
           context'.copies = context.copies,
           UNCHANGED <<handle, memory, uses, busy, copies, captures, pending>>
    PROVE  IInv'
<1>1. /\ batches'[s] \in Batches /\ batches'[s].owner = batches[s].owner
      /\ batches'[s].ledger = batches[s].ledger
  <2>1. PICK c, d : c = batches[s] /\ d = batches'[s]
    OBVIOUS
  <2>2. c \in Batches /\ d = [c EXCEPT !.guarded = FALSE]
    BY <2>1 DEF IInv, MemoryTypes
  <2>3. d \in Batches /\ d.owner = c.owner /\ d.ledger = c.ledger
    BY <2>2, BatchGuarded
  <2> QED BY <2>1, <2>3
<1>2. /\ batches' \in [Streams -> Batches]
      /\ \A u \in Streams : /\ batches'[u].owner = batches[u].owner
                            /\ batches'[u].ledger = batches[u].ledger
  BY <1>1 DEF IInv, MemoryTypes
<1>3. MemoryTypes'
  BY <1>2 DEF IInv, MemoryTypes
<1>4. \A u \in Streams : /\ Copying(u)' <=> Copying(u)
                         /\ Batching(u)' <=> Batching(u)
                         /\ Lent(u)' = Lent(u)
  BY <1>2 DEF Copying, Batching, Lent
<1>5. StreamsExclusive' /\ BuffersExclusive' /\ AccessesLent'
  BY <1>2, <1>4, GuardsSame DEF CapturedBy
<1>6. UsedAlive' /\ HandlesLive'
  BY DEF IInv, UsedAlive, HandlesLive
<1>7. QueuesDeferred'
  BY QueuesKept DEF Capturing
<1>8. CapturesAlone'
  BY <1>2, <1>4 DEF IInv, CapturesAlone, Capturing
<1>9. ContextCounts'
  BY CountsKept DEF Copying, Capturing
<1>10. ContextReleasedLast'
  BY ReleasedKept
<1> QED BY <1>3, <1>5, <1>6, <1>7, <1>8, <1>9, <1>10 DEF IInv

\* A batch ends, and its stream and its ledger are given back.
LEMMA BatchEndedInv ==
    ASSUME IInv, NEW s \in Streams, Batching(s), pending[s] = {},
           SetUses(batches[s].ledger \cup {s}, 0),
           batches' = [batches EXCEPT ![s] = NoBatch],
           context' \in Contexts, faults' \in Nat, context'.open = context.open,
           context'.children = context.children, context'.allocations = context.allocations,
           context'.copies = context.copies,
           UNCHANGED <<handle, memory, busy, copies, captures, pending>>
    PROVE  IInv'
<1>1. NoBatch \in Batches /\ NoBatch.owner = None /\ NoBatch.ledger = {}
  BY DEF NoBatch, Batches
<1>2. /\ batches' \in [Streams -> Batches] /\ batches'[s] = NoBatch
      /\ \A u \in Streams : u # s => batches'[u] = batches[u]
  BY <1>1 DEF IInv, MemoryTypes
<1>3. /\ ~Batching(s)' /\ batches'[s].ledger = {}
      /\ \A u \in Streams : u # s => (Batching(u)' <=> Batching(u))
  BY <1>1, <1>2 DEF Batching
<1>4. /\ ~Copying(s) /\ \A u \in Threads : ~CapturedBy(u, s)
      /\ \A u \in Streams : Copying(u)' <=> Copying(u)
  BY DEF IInv, StreamsExclusive, Copying
<1>5. /\ Lent(s) = batches[s].ledger /\ Lent(s)' = {}
      /\ \A u \in Streams : u # s => Lent(u)' = Lent(u)
  <2>1. Lent(s) = batches[s].ledger
    BY <1>4 DEF Lent
  <2>2. Lent(s)' = {}
    BY <1>3, <1>4 DEF Lent
  <2>3. \A u \in Streams : u # s => Lent(u)' = Lent(u)
    BY <1>2, <1>4 DEF Lent
  <2> QED BY <2>1, <2>2, <2>3
<1>6. /\ batches[s].ledger \subseteq Buffers /\ s \in Resources
      /\ \A u \in Streams : u \notin batches[s].ledger
      /\ \A b \in Buffers : b # s /\ b \in Resources
  BY FieldTypes, ResourceFacts DEF IInv
<1>7. /\ uses' \in [Resources -> {0, 1}] /\ uses'[s] = 0
      /\ \A x \in Resources : uses'[x] = IF x \in batches[s].ledger \cup {s} THEN 0 ELSE uses[x]
  BY <1>6, SetUsesIs DEF IInv
<1>8. /\ \A u \in Streams : u # s => uses'[u] = uses[u]
      /\ \A b \in Buffers : uses'[b] = IF b \in Lent(s) THEN 0 ELSE uses[b]
  BY <1>5, <1>6, <1>7, ResourceFacts
<1>9. MemoryTypes'
  BY <1>2, <1>7 DEF IInv, MemoryTypes
<1>10. StreamsExclusive'
  <2>1. \A v \in Threads, u \in Streams : CapturedBy(v, u)' <=> CapturedBy(v, u)
    BY DEF CapturedBy
  <2>2. \A u \in Streams : ~Batching(u)' => batches'[u].ledger = {}
    BY <1>2, <1>3 DEF IInv, StreamsExclusive
  <2> QED BY <1>3, <1>4, <1>7, <1>8, <2>1, <2>2 DEF IInv, StreamsExclusive
<1>11. BuffersExclusive'
  <2>1. ASSUME NEW b \in Buffers
        PROVE  uses'[b] = 1 <=> \E u \in Streams : b \in Lent(u)'
    <3>1. CASE b \in Lent(s)
      BY <1>5, <1>8, <3>1 DEF IInv, BuffersExclusive
    <3>2. CASE b \notin Lent(s)
      BY <1>5, <1>8, <3>2 DEF IInv, BuffersExclusive
    <3> QED BY <3>1, <3>2
  <2>2. \A u, v \in Streams : u # v => Lent(u)' \cap Lent(v)' = {}
    BY <1>5 DEF IInv, BuffersExclusive
  <2> QED BY <2>1, <2>2 DEF BuffersExclusive
<1>12. AccessesLent'
  BY <1>3, <1>4, <1>5 DEF IInv, AccessesLent
<1>13. UsedAlive'
  BY <1>7, <1>6 DEF IInv, UsedAlive
<1>14. HandlesLive' /\ QueuesDeferred'
  BY HandlesKept, QueuesKept DEF Capturing
<1>15. CapturesAlone'
  BY <1>1, <1>2, <1>4, TokenFacts DEF IInv, CapturesAlone, Capturing
<1>16. ContextCounts'
  BY CountsKept DEF Copying, Capturing
<1>17. ContextReleasedLast'
  BY ReleasedKept
<1> QED BY <1>9, <1>10, <1>11, <1>12, <1>13, <1>14, <1>15, <1>16, <1>17 DEF IInv

\* A batch is finished or dropped.
LEMMA EndBatchInv ==
    ASSUME IInv, NEW t \in Threads, NEW s \in Streams, EndBatch(t, s)
    PROVE  IInv'
<1>1. /\ Batching(s)
      /\ UNCHANGED <<handle, memory, busy, copies, captures, pending>>
  BY TokenFacts DEF EndBatch, Batching
<1>2. PICK o \in Outcomes(t, FALSE) :
        /\ o.ok => pending[s] = {}
        /\ Called(t, FALSE, o, context)
        /\ IF Succeeded(o)
           THEN /\ SetUses(batches[s].ledger \cup {s}, 0)
                /\ batches' = [batches EXCEPT ![s] = NoBatch]
           ELSE /\ batches' = [batches EXCEPT ![s].guarded = FALSE]
                /\ UNCHANGED uses
  BY Zenon DEF EndBatch
<1>3. /\ context' \in Contexts /\ faults' \in Nat /\ context'.open = context.open
      /\ context'.children = context.children /\ context'.allocations = context.allocations
      /\ context'.copies = context.copies
  BY <1>2, OnlyContext
<1>4. CASE Succeeded(o)
  <2>1. pending[s] = {}
    BY <1>2, <1>4 DEF Succeeded
  <2> QED BY <1>1, <1>2, <1>3, <1>4, <2>1, BatchEndedInv
<1>5. CASE ~Succeeded(o)
  BY <1>1, <1>2, <1>3, <1>5, BatchForgottenInv
<1> QED BY <1>4, <1>5

-----------------------------------------------------------------------------
(* Graph captures. *)

\* A capture begins.
LEMMA CaptureBegunInv ==
    ASSUME IInv, NEW t \in Threads, NEW s \in Streams, handle[s] = "owned", uses[s] = 0,
           AdmitsCapture(t), SetUses({s}, 1),
           captures' = [captures EXCEPT ![t] = [stream |-> s, queue |-> <<>>, phase |-> "open"]],
           context' \in Contexts, faults' \in Nat, context'.open = context.open,
           context'.children = context.children + 1, context'.allocations = context.allocations,
           context'.copies = context.copies,
           UNCHANGED <<handle, memory, busy, copies, batches, pending>>
    PROVE  IInv'
<1> DEFINE c == [stream |-> s, queue |-> <<>>, phase |-> "open"]
<1>1. c \in CaptureOwners /\ c.stream = s /\ c.queue = <<>>
  <2>1. <<>> \in Seq(Resources)
    BY EmptySeq
  <2> QED BY <2>1 DEF CaptureOwners
<1> HIDE DEF c
<1>2. /\ captures' \in [Threads -> CaptureOwners \cup {None}] /\ captures'[t] = c
      /\ \A u \in Threads : u # t => captures'[u] = captures[u]
  BY <1>1 DEF IInv, MemoryTypes, c
<1>3. ~Capturing(t) /\ context.copies = 0 /\ \A u \in Streams : batches[u].owner # t
  BY DEF AdmitsCapture, HasBatch
<1>4. Capturing(t)' /\ \A u \in Threads : u # t => (Capturing(u)' <=> Capturing(u))
  BY <1>1, <1>2, TokenFacts DEF Capturing
<1>5. \A u \in Streams : ~Copying(u)
  <2>1. IsFiniteSet(CopyStreams)
    BY ResourceFacts, FS_Subset DEF CopyStreams
  <2>2. Cardinality(CopyStreams) = 0
    BY <1>3 DEF IInv, ContextCounts
  <2>3. CopyStreams = {}
    BY <2>1, <2>2, FS_EmptySet
  <2> QED BY <2>3 DEF CopyStreams
<1>6. /\ ~Copying(s) /\ ~Batching(s) /\ \A u \in Threads : ~CapturedBy(u, s)
  BY UnusedStream
<1>7. /\ s \in Resources /\ \A b \in Buffers : b # s /\ b \in Resources
  BY ResourceFacts
<1>8. /\ uses' \in [Resources -> {0, 1}] /\ uses'[s] = 1
      /\ \A x \in Resources : x # s => uses'[x] = uses[x]
  BY <1>7, SetUsesIs DEF IInv
<1>9. /\ CapturedBy(t, s)' /\ \A u \in Streams : u # s => ~CapturedBy(t, u)'
      /\ \A u \in Threads, v \in Streams : u # t => (CapturedBy(u, v)' <=> CapturedBy(u, v))
      /\ \A v \in Streams : ~CapturedBy(t, v)
  BY <1>1, <1>2, <1>3, <1>4 DEF CapturedBy, Capturing
<1>10. \A u \in Streams :
          /\ Copying(u)' <=> Copying(u)
          /\ Batching(u)' <=> Batching(u)
          /\ Lent(u)' = Lent(u)
  BY DEF Copying, Batching, Lent
<1>11. MemoryTypes'
  BY <1>2, <1>8 DEF IInv, MemoryTypes
<1>12. StreamsExclusive'
  <2>1. ASSUME NEW u \in Streams
        PROVE  /\ uses'[u] = 1 <=> Copying(u)' \/ Batching(u)' \/ \E v \in Threads : CapturedBy(v, u)'
               /\ ~(Copying(u)' /\ Batching(u)')
               /\ ~Batching(u)' => batches'[u].ledger = {}
    <3>1. CASE u = s
      BY <1>6, <1>8, <1>9, <1>10, <3>1 DEF IInv, StreamsExclusive
    <3>2. CASE u # s
      <4>1. uses'[u] = uses[u]
        BY <1>8, <3>2, ResourceFacts
      <4>2. (\E v \in Threads : CapturedBy(v, u)') <=> \E v \in Threads : CapturedBy(v, u)
        BY <1>9, <3>2
      <4> QED BY <1>10, <4>1, <4>2 DEF IInv, StreamsExclusive
    <3> QED BY <3>1, <3>2
  <2>2. ASSUME NEW u \in Streams, NEW v \in Threads, CapturedBy(v, u)'
        PROVE  ~Copying(u)' /\ ~Batching(u)' /\ \A w \in Threads : CapturedBy(w, u)' => w = v
    BY <1>6, <1>9, <1>10, <2>2 DEF IInv, StreamsExclusive
  <2> QED BY <2>1, <2>2 DEF StreamsExclusive
<1>13. BuffersExclusive'
  <2>1. \A b \in Buffers : uses'[b] = uses[b]
    BY <1>7, <1>8
  <2> QED BY <1>10, <2>1 DEF IInv, BuffersExclusive
<1>14. AccessesLent'
  BY <1>10 DEF IInv, AccessesLent
<1>15. UsedAlive'
  BY <1>7, <1>8 DEF IInv, UsedAlive
<1>16. HandlesLive'
  BY HandlesKept
<1>17. QueuesDeferred'
  <2>1. captures'[t].queue = <<>> /\ DOMAIN captures'[t].queue = {}
    BY <1>1, <1>2
  <2> QED BY <1>2, <1>4, <2>1 DEF IInv, QueuesDeferred
<1>18. CapturesAlone'
  BY <1>3, <1>4, <1>5, <1>10 DEF IInv, CapturesAlone
<1>19. ContextCounts'
  <2>1. /\ Allocated' = Allocated /\ OpenStreams' = OpenStreams
        /\ CopyStreams' = CopyStreams
    BY DEF Allocated, OpenStreams, CopyStreams, Copying
  <2>2. CaptureThreads' = CaptureThreads \cup {t} /\ t \notin CaptureThreads
    BY <1>3, <1>4 DEF CaptureThreads
  <2>3. /\ IsFiniteSet(CaptureThreads) /\ Cardinality(CopyStreams) \in Nat
        /\ Cardinality(OpenStreams) \in Nat /\ Cardinality(CaptureThreads) \in Nat
        /\ Cardinality(Allocated) \in Nat
    BY ResourceFacts, FS_Subset, FS_CardinalityType
    DEF Allocated, OpenStreams, CaptureThreads, CopyStreams
  <2>4. Cardinality(CaptureThreads') = Cardinality(CaptureThreads) + 1
    BY <2>2, <2>3, FS_AddElement
  <2> QED BY <2>1, <2>3, <2>4 DEF IInv, ContextCounts
<1>20. ContextReleasedLast'
  BY OpenContext, ReleasedKept
<1> QED BY <1>11, <1>12, <1>13, <1>14, <1>15, <1>16, <1>17, <1>18, <1>19, <1>20 DEF IInv

\* A capture is begun, or fails to begin.
LEMMA BeginCaptureInv ==
    ASSUME IInv, NEW t \in Threads, NEW s \in Streams, BeginCapture(t, s)
    PROVE  IInv'
<1>1. /\ handle[s] = "owned" /\ uses[s] = 0 /\ AdmitsCapture(t)
      /\ UNCHANGED <<handle, memory, busy, copies, batches, pending>>
      /\ context \in Contexts /\ faults \in Nat
  BY DEF BeginCapture, Usable, IInv, MemoryTypes
<1>2. PICK o \in Outcomes(t, FALSE), started \in BOOLEAN :
          /\ Called(t, FALSE, o, IF started THEN [context EXCEPT !.children = @ + 1] ELSE context)
          /\ captures' = IF ~started THEN captures
                         ELSE [captures EXCEPT ![t] =
                                  [stream |-> s, queue |-> <<>>, phase |-> "open"]]
          /\ SetUses(IF started THEN {s} ELSE {}, 1)
  BY Zenon DEF BeginCapture
<1>3. CASE started
  <2> DEFINE after == [context EXCEPT !.children = @ + 1]
  <2>1. /\ after \in Contexts /\ after.open = context.open
        /\ after.allocations = context.allocations
        /\ after.children = context.children + 1 /\ after.copies = context.copies
    BY <1>1 DEF Contexts
  <2>2. /\ Called(t, FALSE, o, after) /\ SetUses({s}, 1)
        /\ captures' = [captures EXCEPT ![t] = [stream |-> s, queue |-> <<>>, phase |-> "open"]]
    BY <1>2, <1>3
  <2> HIDE DEF after
  <2>3. /\ context' \in Contexts /\ faults' \in Nat /\ context'.open = context.open
        /\ context'.allocations = context.allocations
        /\ context'.children = context.children + 1 /\ context'.copies = context.copies
    BY <1>1, <2>1, <2>2, CalledIs
  <2> QED BY <1>1, <2>2, <2>3, CaptureBegunInv
<1>4. CASE ~started
  <2>1. Called(t, FALSE, o, context) /\ SetUses({}, 1) /\ UNCHANGED captures
    BY <1>2, <1>4
  <2>2. uses' = uses
    BY <2>1 DEF SetUses, IInv, MemoryTypes
  <2> QED BY <1>1, <2>1, <2>2, OnlyContext, OnlyContextInv
<1> QED BY <1>3, <1>4

\* A capture is open only while the context is.
LEMMA CaptureOpen ==
    ASSUME IInv, NEW t \in Threads, Capturing(t)
    PROVE  context.open
  BY DEF IInv, ContextReleasedLast, Capturing

\* Nothing but the phase of a capture changes.
LEMMA CapturePhaseInv ==
    ASSUME IInv, NEW t \in Threads, Capturing(t),
           NEW p \in {"open", "dropping", "draining", "stranded"},
           captures' = [captures EXCEPT ![t].phase = p],
           context' \in Contexts, faults' \in Nat, context'.open = context.open,
           context'.children = context.children, context'.allocations = context.allocations,
           context'.copies = context.copies,
           UNCHANGED <<handle, memory, uses, busy, copies, batches, pending>>
    PROVE  IInv'
<1>1. /\ captures'[t] \in CaptureOwners /\ captures'[t].stream = captures[t].stream
      /\ captures'[t].queue = captures[t].queue
  <2>1. PICK c, d : c = captures[t] /\ d = captures'[t]
    OBVIOUS
  <2>2. c \in CaptureOwners
    BY <2>1, FieldTypes DEF IInv
  <2>3. d = [c EXCEPT !.phase = p]
    BY <2>1 DEF IInv, MemoryTypes
  <2>4. d \in CaptureOwners /\ d.queue = c.queue /\ d.stream = c.stream
    BY <2>2, <2>3, CapturePhased
  <2> QED BY <2>1, <2>4
<1>2. /\ captures' \in [Threads -> CaptureOwners \cup {None}]
      /\ \A u \in Threads : u # t => captures'[u] = captures[u]
  BY <1>1 DEF IInv, MemoryTypes
<1>3. \A u \in Threads : /\ Capturing(u)' <=> Capturing(u)
                         /\ captures'[u].queue = captures[u].queue
                         /\ captures'[u].stream = captures[u].stream
  BY <1>1, <1>2, TokenFacts DEF Capturing
<1>4. CapturesKept
  BY <1>2, <1>3 DEF CapturesKept
<1>5. MemoryTypes'
  BY <1>2 DEF IInv, MemoryTypes
<1>6. StreamsExclusive' /\ BuffersExclusive' /\ AccessesLent'
  BY <1>4, CapturedKept, GuardsKept
<1>7. UsedAlive' /\ HandlesLive'
  BY DEF IInv, UsedAlive, HandlesLive
<1>8. QueuesDeferred'
  BY <1>3, QueuesKept
<1>9. CapturesAlone'
  BY <1>3 DEF IInv, CapturesAlone, Copying
<1>10. ContextCounts'
  BY <1>3, CountsKept DEF Copying
<1>11. ContextReleasedLast'
  BY CaptureOpen, ReleasedKept
<1> QED BY <1>5, <1>6, <1>7, <1>8, <1>9, <1>10, <1>11 DEF IInv

\* A capture is aborted.
LEMMA AbortCaptureInv ==
    ASSUME IInv, NEW t \in Threads, AbortCapture(t)
    PROVE  IInv'
<1>1. Capturing(t) /\ UNCHANGED <<handle, memory, uses, busy, copies, batches, pending>>
  BY DEF AbortCapture, Held, Capturing
<1>2. PICK o \in Outcomes(t, TRUE), last \in BOOLEAN, known \in BOOLEAN :
          /\ Called(t, TRUE, o, context)
          /\ captures' = [captures EXCEPT ![t].phase =
                 IF known THEN "draining"
                 ELSE IF ~o.entered /\ ~last THEN "dropping" ELSE "stranded"]
  BY Zenon DEF AbortCapture
<1> DEFINE p == IF known THEN "draining"
                ELSE IF ~o.entered /\ ~last THEN "dropping" ELSE "stranded"
<1>3. p \in {"open", "dropping", "draining", "stranded"}
  OBVIOUS
<1>4. captures' = [captures EXCEPT ![t].phase = p]
  BY <1>2
<1> HIDE DEF p
<1> QED BY <1>1, <1>2, <1>3, <1>4, OnlyContext, CapturePhaseInv

\* The first close of a capture's queue has left it, and was made.
LEMMA PoppedQueue ==
    ASSUME IInv, NEW t \in Threads, Capturing(t), captures[t].queue # <<>>,
           captures' \in [Threads -> CaptureOwners \cup {None}],
           \A u \in Threads : u # t => captures'[u] = captures[u],
           captures'[t] \in CaptureOwners, captures'[t].stream = captures[t].stream,
           captures'[t].queue = Tail(captures[t].queue),
           NEW x, x = Head(captures[t].queue), handle' = [handle EXCEPT ![x] = "closed"]
    PROVE  CapturesKept /\ QueuesDeferred'
<1> DEFINE q == captures[t].queue
           n == Len(q)
           r == Tail(q)
<1>1. /\ q \in Seq(Resources) /\ n \in Nat /\ DOMAIN q = 1 .. n /\ n >= 1
      /\ \A i \in DOMAIN q : q[i] \in Resources
  BY FieldTypes, LenProperties, ElementOfSeq, EmptySeq DEF IInv
<1>2. /\ x = q[1] /\ r \in Seq(Resources) /\ Len(r) = n - 1
      /\ \A i \in 1 .. Len(r) : r[i] = q[i + 1]
  BY <1>1, HeadTailProperties
<1>3. DOMAIN r = 1 .. n - 1
  BY <1>2, LenProperties
<1> HIDE DEF r, n
<1>4. /\ \A i \in DOMAIN r : i + 1 \in DOMAIN q /\ i + 1 # 1 /\ r[i] = q[i + 1]
      /\ 1 \in DOMAIN q /\ \A i \in DOMAIN r : i \in Nat
  BY <1>1, <1>2, <1>3
<1>5. captures'[t].queue = r
  BY DEF r
<1>6. \A u \in Threads : Capturing(u)' <=> Capturing(u)
  BY TokenFacts DEF Capturing
<1>7. CapturesKept
  BY <1>6 DEF CapturesKept
<1>8. x \in Resources /\ \A y \in Resources : y # x => handle'[y] = handle[y]
  BY <1>1, <1>2, <1>4 DEF IInv, MemoryTypes
<1>9. \A u \in Threads : Capturing(u) =>
        \A i \in DOMAIN captures[u].queue : captures[u].queue[i] \in Resources
  BY FieldTypes, LenProperties, ElementOfSeq DEF IInv
<1>10. \A u \in Threads : u # t /\ Capturing(u) =>
        \A i \in DOMAIN captures[u].queue :
           captures[u].queue[i] # x /\ handle'[captures[u].queue[i]] = "deferred"
  BY <1>2, <1>4, <1>8, <1>9 DEF IInv, QueuesDeferred
<1>11. \A i \in DOMAIN r : r[i] # x /\ handle'[r[i]] = "deferred"
  <2>1. \A i \in DOMAIN r : q[i + 1] # q[1]
    BY <1>4 DEF IInv, QueuesDeferred
  <2>2. \A i \in DOMAIN r : handle[q[i + 1]] = "deferred" /\ q[i + 1] \in Resources
    BY <1>1, <1>4 DEF IInv, QueuesDeferred
  <2> QED BY <1>2, <1>4, <1>8, <2>1, <2>2
<1>12. \A i, j \in DOMAIN r : r[i] = r[j] => i = j
  <2>1. \A i, j \in DOMAIN r : q[i + 1] = q[j + 1] => i + 1 = j + 1
    BY <1>4 DEF IInv, QueuesDeferred
  <2> QED BY <1>4, <2>1
<1>13. ASSUME NEW u \in Threads, Capturing(u)'
       PROVE  /\ \A i \in DOMAIN captures'[u].queue : handle'[captures'[u].queue[i]] = "deferred"
              /\ \A i, j \in DOMAIN captures'[u].queue :
                    captures'[u].queue[i] = captures'[u].queue[j] => i = j
  <2>1. CASE u = t
    BY <1>5, <1>11, <1>12, <2>1
  <2>2. CASE u # t
    BY <1>6, <1>10, <1>13, <2>2 DEF IInv, QueuesDeferred
  <2> QED BY <2>1, <2>2
<1>14. ASSUME NEW u \in Threads, NEW v \in Threads, Capturing(u)', Capturing(v)', u # v,
              NEW i \in DOMAIN captures'[u].queue, NEW j \in DOMAIN captures'[v].queue
       PROVE  captures'[u].queue[i] # captures'[v].queue[j]
  <2>1. Capturing(u) /\ Capturing(v)
    BY <1>6, <1>14
  <2>2. CASE u # t /\ v # t
    BY <1>14, <2>1, <2>2 DEF IInv, QueuesDeferred
  <2>3. CASE u = t
    <3>1. captures'[v] = captures[v] /\ captures'[u].queue = r
      BY <1>5, <1>14, <2>3
    <3>2. \A k \in DOMAIN q : q[k] # captures[v].queue[j]
      BY <1>14, <2>1, <2>3, <3>1 DEF IInv, QueuesDeferred
    <3> QED BY <1>4, <1>14, <3>1, <3>2
  <2>4. CASE v = t
    <3>1. captures'[u] = captures[u] /\ captures'[v].queue = r
      BY <1>5, <1>14, <2>4
    <3>2. \A k \in DOMAIN q : q[k] # captures[u].queue[i]
      BY <1>14, <2>1, <2>4, <3>1 DEF IInv, QueuesDeferred
    <3> QED BY <1>4, <1>14, <3>1, <3>2
  <2> QED BY <2>2, <2>3, <2>4
<1>15. QueuesDeferred'
  BY <1>13, <1>14 DEF QueuesDeferred
<1> QED BY <1>7, <1>15

\* A queued close is made, or strands the capture.
LEMMA DrainCloseInv ==
    ASSUME IInv, NEW t \in Threads, DrainClose(t)
    PROVE  IInv'
<1> DEFINE x == Head(captures[t].queue)
           popped == [captures[t] EXCEPT !.queue = Tail(@)]
<1>1. /\ Capturing(t) /\ captures[t].queue # <<>>
      /\ UNCHANGED <<uses, busy, copies, batches, pending>>
      /\ captures[t] \in CaptureOwners /\ captures[t].queue \in Seq(Resources)
      /\ captures \in [Threads -> CaptureOwners \cup {None}] /\ context.open
  BY FieldTypes, CaptureOpen DEF DrainClose, Draining, IInv, MemoryTypes
<1>2. /\ x \in Resources /\ handle[x] = "deferred" /\ Tail(captures[t].queue) \in Seq(Resources)
      /\ uses[x] \in {0, 1}
  <2>1. /\ 1 \in DOMAIN captures[t].queue /\ x = captures[t].queue[1]
        /\ x \in Resources /\ Tail(captures[t].queue) \in Seq(Resources)
    BY <1>1, HeadTailProperties, LenProperties, EmptySeq
  <2> QED BY <1>1, <2>1 DEF IInv, QueuesDeferred, MemoryTypes
<1>3. popped \in CaptureOwners /\ popped.queue = Tail(captures[t].queue)
      /\ popped.stream = captures[t].stream
  <2>1. PICK c, r : c = captures[t] /\ r = Tail(captures[t].queue)
    OBVIOUS
  <2>2. popped = [c EXCEPT !.queue = r] /\ c \in CaptureOwners /\ r \in Seq(Resources)
    BY <1>1, <1>2, <2>1
  <2> HIDE DEF popped
  <2>3. popped \in CaptureOwners /\ popped.queue = r /\ popped.stream = c.stream
    BY <2>2, CaptureQueued
  <2> QED BY <2>1, <2>3
<1>4. CASE InUse(x)
  <2>1. /\ captures' = [captures EXCEPT ![t].phase = "stranded"]
        /\ UNCHANGED <<handle, memory, context, faults>>
    BY <1>4, Zenon DEF DrainClose
  <2>2. context' \in Contexts /\ faults' \in Nat
    BY <2>1 DEF IInv, MemoryTypes
  <2> QED BY <1>1, <2>1, <2>2, CapturePhaseInv
<1>5. CASE ~InUse(x)
  <2>1. PICK o \in Outcomes(t, TRUE) :
                /\ captures' = [captures EXCEPT ![t] =
                       IF Succeeded(o) THEN popped
                       ELSE [(IF o.entered THEN popped ELSE captures[t]) EXCEPT !.phase = "stranded"]]
                /\ \/ /\ o.entered /\ x \in Buffers
                      /\ Freed(x, o.ok) /\ Called(t, TRUE, o, AfterFree(o.ok))
                   \/ /\ o.entered /\ x \in Streams
                      /\ handle' = [handle EXCEPT ![x] = "closed"]
                      /\ Called(t, TRUE, o, AfterDestroy)
                      /\ UNCHANGED memory
                   \/ /\ ~o.entered
                      /\ Called(t, TRUE, o, context)
                      /\ UNCHANGED <<handle, memory>>
    BY <1>5, Zenon DEF DrainClose
  <2> HIDE DEF popped, x
  <2>2. CASE ~o.entered
    <3>1. /\ captures' = [captures EXCEPT ![t] = [captures[t] EXCEPT !.phase = "stranded"]]
          /\ Called(t, TRUE, o, context) /\ UNCHANGED <<handle, memory>>
      BY <2>1, <2>2 DEF Succeeded
    <3>2. captures' = [captures EXCEPT ![t].phase = "stranded"]
      BY <3>1
    <3> QED BY <1>1, <3>1, <3>2, OnlyContext, CapturePhaseInv
  <2>3. CASE o.entered
    <3>1. /\ captures' = [captures EXCEPT ![t] =
                 IF Succeeded(o) THEN popped ELSE [popped EXCEPT !.phase = "stranded"]]
          /\ \/ x \in Buffers /\ Freed(x, o.ok) /\ Called(t, TRUE, o, AfterFree(o.ok))
             \/ /\ x \in Streams /\ handle' = [handle EXCEPT ![x] = "closed"]
                /\ Called(t, TRUE, o, AfterDestroy) /\ UNCHANGED memory
      BY <2>1, <2>3
    <3>2. PICK c : c = IF Succeeded(o) THEN popped ELSE [popped EXCEPT !.phase = "stranded"]
      OBVIOUS
    <3>3. c \in CaptureOwners /\ c.queue = popped.queue /\ c.stream = popped.stream
      <4>1. CASE Succeeded(o)
        BY <1>3, <3>2, <4>1
      <4>2. CASE ~Succeeded(o)
        <5>1. c = [popped EXCEPT !.phase = "stranded"]
          BY <3>2, <4>2
        <5> QED BY <1>3, <5>1, CapturePhased
      <4> QED BY <4>1, <4>2
    <3>4. captures' = [captures EXCEPT ![t] = c]
      BY <3>1, <3>2
    <3>5. /\ captures' \in [Threads -> CaptureOwners \cup {None}] /\ captures'[t] = c
          /\ \A u \in Threads : u # t => captures'[u] = captures[u]
      BY <1>1, <3>3, <3>4
    <3>6. handle' = [handle EXCEPT ![x] = "closed"]
      BY <3>1 DEF Freed
    <3>7. CapturesKept /\ QueuesDeferred'
      BY <1>1, <1>3, <3>3, <3>5, <3>6, PoppedQueue DEF x
    <3>8. uses[x] = 0
      BY <1>2, <1>5 DEF InUse, x
    <3> QED BY <1>1, <1>2, <3>1, <3>7, <3>8, FreedInv DEF x
  <2> QED BY <2>1, <2>2, <2>3
<1> QED BY <1>4, <1>5

\* A capture has drained its queue and gives its stream back.
LEMMA ReleaseCaptureInv ==
    ASSUME IInv, NEW t \in Threads, ReleaseCapture(t)
    PROVE  IInv'
<1> DEFINE s == captures[t].stream
<1>1. /\ Capturing(t) /\ s \in Streams /\ SetUses({s}, 0)
      /\ captures' = [captures EXCEPT ![t] = None]
      /\ UNCHANGED <<handle, memory, busy, copies, batches, pending, faults>>
      /\ context \in Contexts
  BY FieldTypes DEF ReleaseCapture, Draining, IInv, MemoryTypes
<1>2. /\ context' \in Contexts /\ context'.open = context.open
      /\ context'.allocations = context.allocations
      /\ context'.children = context.children - 1 /\ context'.copies = context.copies
  <2>1. context' = [context EXCEPT !.children = @ - 1]
    BY DEF ReleaseCapture
  <2> QED BY <1>1, <2>1 DEF Contexts
<1>3. CapturedBy(t, s) /\ \A v \in Streams : v # s => ~CapturedBy(t, v)
  BY <1>1 DEF CapturedBy, Capturing
<1> HIDE DEF s
<1>4. /\ captures' \in [Threads -> CaptureOwners \cup {None}] /\ captures'[t] = None
      /\ \A u \in Threads : u # t => captures'[u] = captures[u]
  BY <1>1 DEF IInv, MemoryTypes
<1>5. ~Capturing(t)' /\ \A u \in Threads : u # t => (Capturing(u)' <=> Capturing(u))
  BY <1>4 DEF Capturing
<1>6. /\ \A v \in Streams : ~CapturedBy(t, v)'
      /\ \A u \in Threads, v \in Streams : u # t => (CapturedBy(u, v)' <=> CapturedBy(u, v))
  BY <1>4 DEF CapturedBy
<1>7. ~Copying(s) /\ ~Batching(s) /\ \A u \in Threads : CapturedBy(u, s) => u = t
  BY <1>1, <1>3 DEF IInv, StreamsExclusive
<1>8. s \in Resources /\ \A b \in Buffers : b # s /\ b \in Resources
  BY <1>1, ResourceFacts
<1>9. /\ uses' \in [Resources -> {0, 1}] /\ uses'[s] = 0
      /\ \A x \in Resources : x # s => uses'[x] = uses[x]
  BY <1>1, <1>8, SetUsesIs DEF IInv
<1>10. \A u \in Streams :
          /\ Copying(u)' <=> Copying(u)
          /\ Batching(u)' <=> Batching(u)
          /\ Lent(u)' = Lent(u)
  BY <1>1 DEF Copying, Batching, Lent
<1>11. MemoryTypes'
  BY <1>1, <1>2, <1>4, <1>9 DEF IInv, MemoryTypes
<1>12. StreamsExclusive'
  <2>1. ASSUME NEW u \in Streams
        PROVE  /\ uses'[u] = 1 <=> Copying(u)' \/ Batching(u)' \/ \E v \in Threads : CapturedBy(v, u)'
               /\ ~(Copying(u)' /\ Batching(u)')
               /\ ~Batching(u)' => batches'[u].ledger = {}
    <3>1. CASE u = s
      BY <1>1, <1>6, <1>7, <1>9, <1>10, <3>1 DEF IInv, StreamsExclusive
    <3>2. CASE u # s
      <4>1. uses'[u] = uses[u]
        BY <1>9, <3>2, ResourceFacts
      <4>2. (\E v \in Threads : CapturedBy(v, u)') <=> \E v \in Threads : CapturedBy(v, u)
        BY <1>3, <1>6, <3>2
      <4> QED BY <1>1, <1>10, <4>1, <4>2 DEF IInv, StreamsExclusive
    <3> QED BY <3>1, <3>2
  <2>2. ASSUME NEW u \in Streams, NEW v \in Threads, CapturedBy(v, u)'
        PROVE  ~Copying(u)' /\ ~Batching(u)' /\ \A w \in Threads : CapturedBy(w, u)' => w = v
    BY <1>6, <1>10, <2>2 DEF IInv, StreamsExclusive
  <2> QED BY <2>1, <2>2 DEF StreamsExclusive
<1>13. BuffersExclusive'
  <2>1. \A b \in Buffers : uses'[b] = uses[b]
    BY <1>8, <1>9
  <2> QED BY <1>10, <2>1 DEF IInv, BuffersExclusive
<1>14. AccessesLent'
  BY <1>1, <1>10 DEF IInv, AccessesLent
<1>15. UsedAlive'
  BY <1>1, <1>8, <1>9 DEF IInv, UsedAlive
<1>16. HandlesLive' /\ QueuesDeferred'
  <2>1. \A u \in Threads : Capturing(u)' => Capturing(u) /\ captures'[u].queue = captures[u].queue
    BY <1>4, <1>5
  <2> QED BY <1>1, <2>1, HandlesKept, QueuesKept
<1>17. CapturesAlone'
  BY <1>1, <1>5, <1>10 DEF IInv, CapturesAlone
<1>18. ContextCounts'
  <2>1. /\ Allocated' = Allocated /\ OpenStreams' = OpenStreams
        /\ CopyStreams' = CopyStreams
    BY <1>1 DEF Allocated, OpenStreams, CopyStreams, Copying
  <2>2. CaptureThreads' = CaptureThreads \ {t} /\ t \in CaptureThreads
    BY <1>1, <1>5 DEF CaptureThreads
  <2>3. /\ IsFiniteSet(CaptureThreads) /\ Cardinality(CopyStreams) \in Nat
        /\ Cardinality(OpenStreams) \in Nat /\ Cardinality(CaptureThreads) \in Nat
        /\ Cardinality(Allocated) \in Nat
    BY ResourceFacts, FS_Subset, FS_CardinalityType
    DEF Allocated, OpenStreams, CaptureThreads, CopyStreams
  <2>4. Cardinality(CaptureThreads') = Cardinality(CaptureThreads) - 1
    BY <2>2, <2>3, FS_RemoveElement
  <2> QED BY <1>2, <2>1, <2>3, <2>4 DEF IInv, ContextCounts
<1>19. ContextReleasedLast'
  BY <1>1, <1>2, CaptureOpen, ReleasedKept
<1> QED BY <1>11, <1>12, <1>13, <1>14, <1>15, <1>16, <1>17, <1>18, <1>19 DEF IInv

-----------------------------------------------------------------------------
(* Forgotten guards, the context and the device. *)

\* A token or a guard is forgotten.
LEMMA ForgetInv ==
    ASSUME IInv, Forget
    PROVE  IInv'
<1>1. /\ UNCHANGED <<handle, memory, uses, busy, pending, context, faults>>
      /\ context' \in Contexts /\ faults' \in Nat
  BY DEF Forget, IInv, MemoryTypes
<1>2. ASSUME NEW s \in Streams, copies[s] # None,
             copies' = [copies EXCEPT ![s].held = FALSE], UNCHANGED <<batches, captures>>
      PROVE  IInv'
  BY <1>1, <1>2, CopyHeldInv DEF Copying
<1>3. ASSUME NEW s \in Streams, batches' = [batches EXCEPT ![s].guarded = FALSE],
             UNCHANGED <<copies, captures>>
      PROVE  IInv'
  BY <1>1, <1>3, BatchForgottenInv
<1>4. ASSUME NEW t \in Threads, Held(t),
             captures' = [captures EXCEPT ![t].phase = "stranded"],
             UNCHANGED <<copies, batches>>
      PROVE  IInv'
  <2>1. Capturing(t)
    BY <1>4 DEF Held, Capturing
  <2> QED BY <1>1, <1>4, <2>1, CapturePhaseInv
<1> QED BY <1>2, <1>3, <1>4 DEF Forget

\* The context is released: nothing it counts is left.
LEMMA CloseContextInv ==
    ASSUME IInv, NEW t \in Threads, CloseContext(t)
    PROVE  IInv'
<1>1. /\ \A u \in Threads : ~Capturing(u)
      /\ context.children = 0 /\ context.allocations = 0
      /\ UNCHANGED <<handle, memory, uses, busy, copies, batches, captures, pending, faults>>
  BY DEF CloseContext
<1>2. /\ context' \in Contexts /\ context'.children = context.children
      /\ context'.allocations = context.allocations /\ context'.copies = context.copies
  BY DEF CloseContext, IInv, MemoryTypes, Contexts
<1>3. MemoryTypes'
  BY <1>1, <1>2 DEF IInv, MemoryTypes
<1>4. StreamsExclusive' /\ BuffersExclusive' /\ AccessesLent'
  BY <1>1, GuardsKept DEF CapturedBy
<1>5. UsedAlive' /\ HandlesLive' /\ CapturesAlone'
  BY <1>1 DEF IInv, UsedAlive, HandlesLive, CapturesAlone, Capturing, Copying
<1>6. QueuesDeferred'
  BY <1>1, QueuesKept DEF Capturing
<1>7. ContextCounts'
  BY <1>1, <1>2, CountsKept DEF Copying, Capturing
<1>8. ContextReleasedLast'
  <2>1. /\ IsFiniteSet(CopyStreams) /\ IsFiniteSet(Allocated) /\ IsFiniteSet(OpenStreams)
        /\ Cardinality(CopyStreams) \in Nat /\ Cardinality(Allocated) \in Nat
        /\ Cardinality(OpenStreams) \in Nat /\ Cardinality(CaptureThreads) \in Nat
    BY ResourceFacts, FS_Subset, FS_CardinalityType
    DEF Allocated, OpenStreams, CaptureThreads, CopyStreams
  <2>2. /\ Cardinality(CopyStreams) = 0 /\ Cardinality(Allocated) = 0
        /\ Cardinality(OpenStreams) = 0
    BY <1>1, <2>1 DEF IInv, ContextCounts
  <2>3. CopyStreams = {} /\ Allocated = {} /\ OpenStreams = {}
    BY <2>1, <2>2, FS_EmptySet
  <2>4. /\ \A b \in Buffers : memory[b] \in {"none", "freed"}
        /\ \A s \in Streams : handle[s] = "closed" /\ copies[s] = None
    BY <2>3 DEF CopyStreams, Allocated, OpenStreams, Copying, IInv, MemoryTypes, Memories
  <2>5. \A s \in Streams : pending[s] = {}
    <3>1. \A s \in Streams : uses[s] = 0
      BY <2>4, ResourceFacts DEF IInv, UsedAlive, MemoryTypes
    <3> QED BY <3>1, UnusedStream
  <2> QED BY <1>1, <2>4, <2>5 DEF ContextReleasedLast, Capturing
<1> QED BY <1>3, <1>4, <1>5, <1>6, <1>7, <1>8 DEF IInv

\* The device performs an access.
LEMMA TransferInv ==
    ASSUME IInv, NEW s \in Streams, Transfer(s)
    PROVE  IInv'
<1>1. UNCHANGED <<handle, memory, uses, busy, copies, batches, captures, context, faults>>
  BY DEF Transfer
<1>2. PICK access \in pending[s] : pending' = [pending EXCEPT ![s] = @ \ {access}]
  BY DEF Transfer
<1>3. /\ pending' \in [Streams -> SUBSET SUBSET Buffers]
      /\ \A u \in Streams : pending'[u] \subseteq pending[u]
      /\ pending[s] # {}
  BY <1>2 DEF IInv, MemoryTypes
<1>4. MemoryTypes'
  BY <1>1, <1>3 DEF IInv, MemoryTypes
<1>5. StreamsExclusive' /\ BuffersExclusive'
  BY <1>1 DEF IInv, StreamsExclusive, BuffersExclusive, Lent, Copying, Batching, CapturedBy
<1>6. AccessesLent'
  <2>1. \A u \in Streams : Lent(u)' = Lent(u)
    BY <1>1 DEF Lent, Copying
  <2> QED BY <1>1, <1>3, <2>1 DEF IInv, AccessesLent, Copying, Batching
<1>7. UsedAlive' /\ HandlesLive' /\ CapturesAlone'
  BY <1>1 DEF IInv, UsedAlive, HandlesLive, CapturesAlone, Capturing, Copying
<1>8. QueuesDeferred'
  BY <1>1, QueuesKept DEF Capturing
<1>9. ContextCounts'
  BY <1>1, CountsKept DEF Copying, Capturing
<1>10. ContextReleasedLast'
  BY <1>1, <1>3 DEF IInv, ContextReleasedLast
<1> QED BY <1>4, <1>5, <1>6, <1>7, <1>8, <1>9, <1>10 DEF IInv

-----------------------------------------------------------------------------
(* The invariant. *)

\* The invariant holds before anything is allocated.
LEMMA InitInv == Init => IInv
<1> SUFFICES ASSUME Init PROVE IInv
  OBVIOUS
<1>1. NoBatch \in Batches /\ NoBatch.owner = None /\ NoBatch.ledger = {}
  BY DEF NoBatch, Batches
<1>2. /\ \A s \in Streams : /\ handle[s] = "owned" /\ ~Copying(s) /\ ~Batching(s)
                            /\ batches[s].ledger = {} /\ uses[s] = 0 /\ Lent(s) = {}
                            /\ pending[s] = {}
      /\ \A t \in Threads : ~Capturing(t) /\ \A s \in Streams : ~CapturedBy(t, s)
      /\ \A b \in Buffers : handle[b] = "absent" /\ memory[b] = "none" /\ uses[b] = 0
  BY <1>1, ResourceFacts DEF Init, Copying, Batching, Lent, Capturing, CapturedBy
<1>3. MemoryTypes
  <2>1. IsFiniteSet(Streams) /\ Cardinality(Streams) \in Nat
    BY ResourceFacts, FS_CardinalityType
  <2>2. context \in Contexts
    BY <2>1 DEF Init, Contexts
  <2> QED BY <1>1, <2>2 DEF Init, MemoryTypes, Owners, Memories
<1>4. StreamsExclusive /\ BuffersExclusive /\ AccessesLent
  BY <1>2 DEF StreamsExclusive, BuffersExclusive, AccessesLent
<1>5. UsedAlive /\ HandlesLive /\ QueuesDeferred /\ CapturesAlone
  BY <1>2, ResourceFacts DEF UsedAlive, HandlesLive, QueuesDeferred, CapturesAlone
<1>6. ContextCounts
  <2>1. /\ CopyStreams = {} /\ Allocated = {} /\ OpenStreams = Streams
        /\ CaptureThreads = {}
    BY <1>2 DEF CopyStreams, Allocated, OpenStreams, CaptureThreads
  <2>2. Cardinality({}) = 0 /\ Cardinality(Streams) \in Nat
    BY FS_EmptySet, ResourceFacts, FS_CardinalityType
  <2> QED BY <2>1, <2>2 DEF Init, ContextCounts
<1>7. ContextReleasedLast
  BY DEF Init, ContextReleasedLast
<1> QED BY <1>3, <1>4, <1>5, <1>6, <1>7 DEF IInv

\* Every step keeps the invariant.
LEMMA NextInv == IInv /\ [Next]_vars => IInv'
<1> SUFFICES ASSUME IInv, [Next]_vars PROVE IInv'
  OBVIOUS
<1>1. CASE UNCHANGED vars
  BY <1>1, OnlyContextInv DEF vars, IInv, MemoryTypes
<1>2. ASSUME NEW t \in Threads, NEW b \in Buffers, Create(t, b) PROVE IInv'
  BY <1>2, CreateInv
<1>3. ASSUME NEW t \in Threads, NEW x \in Resources, Close(t, x) PROVE IInv'
  BY <1>3, CloseInv
<1>4. ASSUME NEW t \in Threads, NEW s \in Streams,
             \/ \E d \in Device, h \in Pinned : StartCopy(t, s, d, h)
             \/ \E consuming \in BOOLEAN : CompleteCopy(t, s, consuming)
             \/ BeginBatch(t, s)
             \/ \E d \in Device, h \in Pinned : BatchCopy(t, s, d, h) \/ BatchCopy(t, s, h, d)
             \/ EndBatch(t, s)
             \/ BeginCapture(t, s)
      PROVE  IInv'
  BY <1>4, StartCopyInv, CompleteCopyInv, BeginBatchInv, BatchCopyInv, EndBatchInv,
     BeginCaptureInv, ResourceFacts
<1>5. ASSUME NEW t \in Threads,
             AbortCapture(t) \/ CloseContext(t) \/ DrainClose(t) \/ ReleaseCapture(t)
      PROVE  IInv'
  BY <1>5, AbortCaptureInv, CloseContextInv, DrainCloseInv, ReleaseCaptureInv
<1>6. CASE Forget
  BY <1>6, ForgetInv
<1>7. ASSUME NEW s \in Streams, Transfer(s) PROVE IInv'
  BY <1>7, TransferInv
<1> QED BY <1>1, <1>2, <1>3, <1>4, <1>5, <1>6, <1>7 DEF Next

\* Every reachable state satisfies the invariant.
THEOREM Invariant == Spec => []IInv
  BY InitInv, NextInv, PTL DEF Spec

-----------------------------------------------------------------------------
(* What the guards are for. *)

\* However tokens, batches, captures and buffers are dropped, forgotten or fail, the
\* device only works on live memory that the host can neither touch nor free and that
\* no other stream is working on, of a stream that is not closed.
THEOREM DeviceUseCorrect == Spec => []DeviceOwnsWhatItUses
<1>1. ASSUME IInv PROVE DeviceOwnsWhatItUses
  <2> SUFFICES ASSUME NEW s \in Streams, NEW access \in pending[s]
               PROVE  /\ uses[s] = 1 /\ handle[s] # "closed"
                      /\ \A b \in access :
                           /\ memory[b] = "live"
                           /\ ~HostMayTouch(b) /\ InUse(b)
                           /\ \A u \in Streams \ {s} : b \notin UNION pending[u]
    BY DEF DeviceOwnsWhatItUses
  <2>1. uses[s] = 1 /\ handle[s] # "closed"
    BY <1>1, ResourceFacts DEF IInv, AccessesLent, StreamsExclusive, UsedAlive
  <2>2. ASSUME NEW b \in access
        PROVE  /\ b \in Buffers /\ uses[b] = 1 /\ memory[b] = "live"
               /\ \A u \in Streams \ {s} : b \notin UNION pending[u]
    <3>1. b \in Lent(s) /\ b \in Buffers
      BY <1>1, <2>2 DEF IInv, AccessesLent, MemoryTypes
    <3>2. uses[b] = 1 /\ memory[b] = "live"
      BY <1>1, <3>1 DEF IInv, BuffersExclusive, UsedAlive
    <3>3. \A u \in Streams \ {s} : b \notin Lent(u)
      BY <1>1, <3>1 DEF IInv, BuffersExclusive
    <3>4. \A u \in Streams \ {s} : b \notin UNION pending[u]
      BY <1>1, <3>3 DEF IInv, AccessesLent
    <3> QED BY <3>1, <3>2, <3>4
  <2> QED BY <2>1, <2>2 DEF HostMayTouch, InUse
<1> QED BY <1>1, Invariant, PTL

\* No graph capture cuts the owner of a pending copy or of a command batch off from
\* the CUDA calls that would settle it.
THEOREM SynchronizeCorrect == Spec => []OwnersCanSynchronize
<1>1. ASSUME IInv PROVE OwnersCanSynchronize
  BY <1>1 DEF IInv, CapturesAlone, OwnersCanSynchronize, Copying
<1> QED BY <1>1, Invariant, PTL

\* The primary context is released after everything that lives in it.
THEOREM ContextReleaseCorrect == Spec => []ContextReleasedLast
<1>1. IInv => ContextReleasedLast
  BY DEF IInv
<1> QED BY <1>1, Invariant, PTL
=============================================================================
