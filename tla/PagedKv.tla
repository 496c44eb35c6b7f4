------------------------------ MODULE PagedKv ------------------------------
(***************************************************************************)
(* The paged KV allocator of riley-runtime (paged_kv.rs): one KvBlockPool  *)
(* of physical blocks and the SequenceStates bound to it.  A sequence      *)
(* grows by a reserve / commit transaction around device work; committed   *)
(* prompt blocks can become shared, and then have one reference per        *)
(* holder.                                                                 *)
(*                                                                         *)
(* The specification lets an arbitrary caller make any sequence of calls.  *)
(* A call the code rejects leaves every variable unchanged, so a rejected  *)
(* call is a disabled action.  Only the order of the LIFO free list is     *)
(* abstracted: an allocation may take any free block.                      *)
(***************************************************************************)
EXTENDS Integers, FiniteSets

CONSTANTS
    Blocks,         \* physical block indices
    SequenceIds,    \* ids create_sequence can hand out; never reused
    None,           \* Rust's Option::None
    SharedOwner,    \* SHARED_BLOCK_OWNER, the owner of a shared block
    BlockSize,      \* KV_BLOCK_SIZE
    MaximumLengths, \* the maximum_logical_length values callers ask for
    MaxLength,      \* the largest of them
    MaxGeneration,  \* the last generation of a slot (u64::MAX in the code)
    MaxNonce        \* the last reservation nonce (u64::MAX in the code)

ASSUME ConstantsAssumption ==
    /\ IsFiniteSet(Blocks) /\ IsFiniteSet(SequenceIds)
    /\ BlockSize \in Nat \ {0}
    /\ MaxLength \in Nat
    /\ MaximumLengths \subseteq 0 .. MaxLength
    /\ MaxGeneration \in Nat
    /\ MaxNonce \in Nat
    /\ None \notin SequenceIds \cup {SharedOwner}
    /\ SharedOwner \notin SequenceIds

\* blocks_for_length: ceiling division by the block size.
BlocksForLength(length) == (length + BlockSize - 1) \div BlockSize

\* Positions of the fixed-capacity block table of a sequence.
Index == 0 .. BlocksForLength(MaxLength) - 1

\* BlockId: a physical index and the generation of the lease.
Handle == [index : Blocks, generation : 1 .. MaxGeneration]

\* SequenceReservation, the move-only token reserve_to returns.
Token == [sequence : SequenceIds, nonce : 1 .. MaxNonce,
          previous : Nat, target : Nat]

VARIABLES
    slots,      \* BlockSlot of every physical block
    free,       \* the free list, without its order
    allocated,  \* KvBlockPool::allocated_block_count
    seqs,       \* SequenceState of every sequence id
    tokens,     \* reservation tokens that callers still own
    holds       \* shared handles for which a caller owes a release

vars == <<slots, free, allocated, seqs, tokens, holds>>

Slot == [owner : SequenceIds \cup {None, SharedOwner},
         generation : 0 .. MaxGeneration,
         references : Nat,
         sidecar : (0 .. BlockSize) \cup {None}]

Pending == [nonce : 1 .. MaxNonce, previous : Nat, target : Nat]

SequenceState ==
    [phase : {"unborn", "live", "orphan", "gone"},
     maximum : 0 .. MaxLength,
     ids : [Index -> Handle \cup {None}],
     valid : [Index -> 0 .. BlockSize],
     count : Nat,
     shared : Nat,
     length : Nat,
     nonce : 1 .. MaxNonce + 1,
     pending : Pending \cup {None},
     poisoned : BOOLEAN]

\* None is no value of the option types.
ASSUME NoneAssumption == None \notin Handle \cup Pending

FreeSlot == [owner |-> None, generation |-> 0, references |-> 0, sidecar |-> None]

Unborn == [phase |-> "unborn", maximum |-> 0,
           ids |-> [i \in Index |-> None], valid |-> [i \in Index |-> 0],
           count |-> 0, shared |-> 0, length |-> 0, nonce |-> 1,
           pending |-> None, poisoned |-> FALSE]

-----------------------------------------------------------------------------
(* Validation: what a call checks before it touches the pool. *)

\* validate_block: the lease is current and this sequence owns it alone.
ValidBlock(h, s) ==
    /\ h # None
    /\ slots[h.index].generation = h.generation
    /\ slots[h.index].owner = s

\* shared_references: the lease is current and the block is shared.
ValidShared(h) ==
    /\ h # None
    /\ slots[h.index].generation = h.generation
    /\ slots[h.index].owner # None
    /\ slots[h.index].references > 0

ValidHeld(s, i) ==
    IF i < seqs[s].shared THEN ValidShared(seqs[s].ids[i])
                          ELSE ValidBlock(seqs[s].ids[i], s)

\* ensure_mutable, and no reservation in progress.
Mutable(s) ==
    /\ seqs[s].phase = "live"
    /\ ~seqs[s].poisoned
    /\ seqs[s].pending = None

\* validate_reservation: the token is the one of the pending reservation.
Matches(s, t) ==
    /\ seqs[s].phase = "live"
    /\ t.sequence = s
    /\ seqs[s].pending = [nonce |-> t.nonce, previous |-> t.previous,
                          target |-> t.target]

-----------------------------------------------------------------------------
(* Table and slot updates shared by several calls. *)

SmallerOf(m, n) == IF m <= n THEN m ELSE n
LargerOf(m, n) == IF m >= n THEN m ELSE n

\* fill_valid_tokens on a table of count blocks.
FillValidTokens(valid, length, blocks, count) ==
    [i \in Index |->
        IF i < blocks THEN SmallerOf(LargerOf(length - i * BlockSize, 0), BlockSize)
        ELSE IF i < count THEN 0
        ELSE valid[i]]

\* Mutant: a released slot starts over with generation 0.
ReleasedAfresh(slot) == FreeSlot

\* release_slot: the generation stays, so that old handles remain stale.
Released(slot) == [slot EXCEPT !.owner = None, !.sidecar = None]

\* Blocks s gives back when release_tail keeps the first `kept` entries.
PrivateTail(s, kept) ==
    {seqs[s].ids[i].index : i \in {j \in Index : /\ j >= kept
                                                /\ j >= seqs[s].shared
                                                /\ j < seqs[s].count}}

\* The references s drops on block b when it keeps the first `kept` entries.
SharedTail(s, kept, b) ==
    {i \in Index : /\ i >= kept
                   /\ i < seqs[s].shared
                   /\ seqs[s].ids[i].index = b}

\* release_shared_block by `dropped` holders at once: the last one frees it.
DropReferences(slot, dropped) ==
    LET less == [slot EXCEPT !.references = @ - dropped]
    IN  IF dropped > 0 /\ slot.references = dropped THEN Released(less) ELSE less

\* Slots after release_tail, and the blocks that it returns to the free list.
SlotsWithoutTail(s, kept) ==
    [b \in Blocks |->
        IF b \in PrivateTail(s, kept)
        THEN Released(slots[b])
        ELSE DropReferences(slots[b], Cardinality(SharedTail(s, kept, b)))]

Freed(slotsAfter) == {b \in Blocks : slots[b].owner # None /\ slotsAfter[b].owner = None}

\* The table after release_tail.
TableWithoutTail(q, kept) ==
    [q EXCEPT !.ids = [i \in Index |-> IF i >= kept /\ i < q.count THEN None ELSE q.ids[i]],
              !.valid = [i \in Index |-> IF i >= kept /\ i < q.count THEN 0 ELSE q.valid[i]],
              !.count = SmallerOf(q.count, kept),
              !.shared = SmallerOf(q.shared, kept)]

\* rollback_pending: back to the block count the reservation started from.
TableRolledBack(q) ==
    LET kept == TableWithoutTail(q, q.pending.previous)
    IN  [kept EXCEPT
            !.valid = FillValidTokens(kept.valid, q.length, BlocksForLength(q.length), kept.count),
            !.pending = None]

\* Mutant: a reset also restarts the nonces.
TableResetWithNonce(q) ==
    [TableWithoutTail(q, 0) EXCEPT !.length = 0, !.pending = None, !.poisoned = FALSE,
                                   !.nonce = 1]

\* The table reset leaves: empty, and mutable again.
TableReset(q) ==
    [TableWithoutTail(q, 0) EXCEPT !.length = 0, !.pending = None, !.poisoned = FALSE]

\* Mutant: released blocks are not put on the free list.
SettleWithoutFree(slotsAfter) ==
    /\ slots' = slotsAfter
    /\ free' = free
    /\ allocated' = allocated - Cardinality(Freed(slotsAfter))

\* Mutant: however many blocks are released, one is counted.
SettleOnce(slotsAfter) ==
    /\ slots' = slotsAfter
    /\ free' = free \cup Freed(slotsAfter)
    /\ allocated' = allocated - (IF Freed(slotsAfter) = {} THEN 0 ELSE 1)

\* Give the blocks freed in slotsAfter back to the pool.
Settle(slotsAfter) ==
    /\ slots' = slotsAfter
    /\ free' = free \cup Freed(slotsAfter)
    /\ allocated' = allocated - Cardinality(Freed(slotsAfter))

\* Mutant: metadata survives what overwrites its block.
WithSidecars(s, indices) == slots

\* clear_sidecar on the blocks with index in `indices` of the table of s.
WithoutSidecars(s, indices) ==
    [b \in Blocks |-> IF \E i \in indices : seqs[s].ids[i].index = b
                      THEN [slots[b] EXCEPT !.sidecar = None]
                      ELSE slots[b]]

-----------------------------------------------------------------------------
(* Calls. *)

\* KvBlockPool::new.
Init ==
    /\ slots = [b \in Blocks |-> FreeSlot]
    /\ free = Blocks
    /\ allocated = 0
    /\ seqs = [s \in SequenceIds |-> Unborn]
    /\ tokens = {}
    /\ holds = {}

CreateSequence(s, maximum) ==
    /\ seqs[s].phase = "unborn"
    /\ maximum > 0
    /\ seqs' = [seqs EXCEPT ![s].phase = "live", ![s].maximum = maximum]
    /\ UNCHANGED <<slots, free, allocated, tokens, holds>>

\* Mutant: a block may be handed out twice.
FreshBlocksRepeated(from, to) == [{i \in Index : i >= from /\ i < to} -> free]

\* Every injective choice of free blocks for the table positions from .. to - 1.
FreshBlocks(from, to) ==
    {new \in [{i \in Index : i >= from /\ i < to} -> free] :
        \A i, j \in DOMAIN new : new[i] = new[j] => i = j}

Leased(new) == {new[i] : i \in DOMAIN new}

\* reserve_to up to the allocation loop: the preflight checks.
ReservePreflight(s, target) ==
    /\ Mutable(s)
    /\ target >= seqs[s].length
    /\ target <= seqs[s].maximum
    /\ BlocksForLength(target) - seqs[s].count <= Cardinality(free)
    /\ seqs[s].count # 0 => ValidHeld(s, seqs[s].count - 1)
    /\ seqs[s].nonce <= MaxNonce

ReserveTo(s, target) ==
    LET q      == seqs[s]
        blocks == BlocksForLength(target)
        count  == LargerOf(blocks, q.count)
    IN  /\ ReservePreflight(s, target)
        /\ \E new \in FreshBlocks(q.count, blocks) :
            /\ \A b \in Leased(new) : slots[b].generation < MaxGeneration
            /\ slots' = [b \in Blocks |->
                            IF b \in Leased(new)
                            THEN [slots[b] EXCEPT !.generation = @ + 1, !.owner = s]
                            ELSE slots[b]]
            /\ free' = free \ Leased(new)
            /\ allocated' = allocated + Cardinality(Leased(new))
            /\ seqs' = [seqs EXCEPT ![s] = [q EXCEPT
                    !.ids = [i \in Index |->
                                IF i \in DOMAIN new
                                THEN [index |-> new[i],
                                      generation |-> slots[new[i]].generation + 1]
                                ELSE q.ids[i]],
                    !.valid = FillValidTokens(q.valid, target, blocks, count),
                    !.count = count,
                    !.pending = [nonce |-> q.nonce, previous |-> q.count, target |-> target],
                    !.nonce = q.nonce + 1]]
        /\ tokens' = tokens \cup {[sequence |-> s, nonce |-> q.nonce,
                                   previous |-> q.count, target |-> target]}
        /\ UNCHANGED holds

\* reserve_to when a popped block has no generation left: it goes back to the
\* free list, and rollback_new_blocks returns the blocks leased before it.
ReserveExhausted(s, target) ==
    /\ ReservePreflight(s, target)
    /\ \E new \in FreshBlocks(seqs[s].count, BlocksForLength(target)), last \in Index :
        /\ last \in DOMAIN new
        /\ slots[new[last]].generation = MaxGeneration
        /\ \A i \in DOMAIN new : i < last => slots[new[i]].generation < MaxGeneration
        /\ slots' = [b \in Blocks |->
                        IF \E i \in DOMAIN new : i < last /\ new[i] = b
                        THEN [slots[b] EXCEPT !.generation = @ + 1]
                        ELSE slots[b]]
    /\ UNCHANGED <<free, allocated, seqs, tokens, holds>>

\* Positions whose content the reservation of s may write.
Written(s) ==
    IF seqs[s].pending.target > seqs[s].length
    THEN {i \in Index : i >= seqs[s].length \div BlockSize /\ i < seqs[s].count}
    ELSE {}

Commit(s, t) ==
    /\ t \in tokens
    /\ Matches(s, t)
    /\ \A i \in Written(s) : ValidBlock(seqs[s].ids[i], s)
    /\ slots' = WithoutSidecars(s, Written(s))
    /\ seqs' = [seqs EXCEPT ![s].pending = None, ![s].length = t.target]
    /\ tokens' = tokens \ {t}
    /\ UNCHANGED <<free, allocated, holds>>

\* rollback_new_blocks validates every tentative block before it releases one.
TentativeValid(s) ==
    \A i \in Index :
        i >= seqs[s].pending.previous /\ i < seqs[s].count => ValidBlock(seqs[s].ids[i], s)

RollbackPending(s) ==
    /\ TentativeValid(s)
    /\ Settle(SlotsWithoutTail(s, seqs[s].pending.previous))

Rollback(s, t) ==
    /\ t \in tokens
    /\ Matches(s, t)
    /\ RollbackPending(s)
    /\ seqs' = [seqs EXCEPT ![s] = TableRolledBack(@)]
    /\ tokens' = tokens \ {t}
    /\ UNCHANGED holds

\* poison also drops the metadata of the blocks that stay: their content is unknown.
PoisonedSlots(s) ==
    LET after   == SlotsWithoutTail(s, seqs[s].pending.previous)
        private == {i \in Index : i >= seqs[s].shared /\ i < seqs[s].count}
    IN  [b \in Blocks |-> IF \E i \in private : seqs[s].ids[i].index = b
                          THEN [after[b] EXCEPT !.sidecar = None]
                          ELSE after[b]]

Poison(s, t) ==
    /\ t \in tokens
    /\ Matches(s, t)
    /\ \A i \in Index : i < seqs[s].count => ValidHeld(s, i)
    /\ TentativeValid(s)
    /\ Settle(PoisonedSlots(s))
    /\ seqs' = [seqs EXCEPT ![s] = [TableRolledBack(@) EXCEPT !.poisoned = TRUE]]
    /\ tokens' = tokens \ {t}
    /\ UNCHANGED holds

\* A caller loses its token, or presents one that the sequence has outlived:
\* commit, rollback and poison consume the token even when they reject it.
DropToken(t) ==
    /\ t \in tokens
    /\ tokens' = tokens \ {t}
    /\ UNCHANGED <<slots, free, allocated, seqs, holds>>

RollbackAbandonedReservation(s) ==
    /\ seqs[s].phase = "live"
    /\ seqs[s].pending # None
    /\ RollbackPending(s)
    /\ seqs' = [seqs EXCEPT ![s] = [TableRolledBack(@) EXCEPT !.poisoned = TRUE]]
    /\ UNCHANGED <<tokens, holds>>

\* Mutant: a truncation may cut into the shared prefix.
TruncatePreflightAnyPrefix(s, target) == Mutable(s) /\ target <= seqs[s].length

TruncatePreflight(s, target) ==
    /\ Mutable(s)
    /\ target <= seqs[s].length
    /\ target >= seqs[s].shared * BlockSize

TruncateTo(s, target) ==
    LET q      == seqs[s]
        blocks == BlocksForLength(target)
        kept   == TableWithoutTail(q, blocks)
        after  == SlotsWithoutTail(s, blocks)
        tail   == blocks > q.shared /\ target # q.length
    IN  /\ TruncatePreflight(s, target)
        /\ \A i \in Index : i >= blocks /\ i < q.count => ValidHeld(s, i)
        /\ blocks # 0 /\ target # q.length => ValidHeld(s, blocks - 1)
        /\ Settle([b \in Blocks |->
                        IF tail /\ q.ids[blocks - 1].index = b
                        THEN [after[b] EXCEPT !.sidecar = None]
                        ELSE after[b]])
        /\ seqs' = [seqs EXCEPT ![s] = [kept EXCEPT
                        !.length = target,
                        !.valid = FillValidTokens(kept.valid, target, blocks, kept.count)]]
        /\ UNCHANGED <<tokens, holds>>

\* reset, and close, which is reset: the empty sequence stays usable.
Reset(s) ==
    /\ seqs[s].phase = "live"
    /\ seqs[s].pending # None => TentativeValid(s)
    /\ \A i \in Index : i < seqs[s].count => ValidHeld(s, i)
    /\ \A b \in Blocks : Cardinality(SharedTail(s, 0, b)) <= slots[b].references
    /\ Settle(SlotsWithoutTail(s, 0))
    /\ seqs' = [seqs EXCEPT ![s] = TableReset(@)]
    /\ UNCHANGED <<tokens, holds>>

\* abandon_for_reclaim consumes the sequence; its table becomes the reclaim token.
AbandonForReclaim(s) ==
    /\ seqs[s].phase = "live"
    /\ seqs' = [seqs EXCEPT ![s].phase = "orphan"]
    /\ UNCHANGED <<slots, free, allocated, tokens, holds>>

\* reclaim_sequence: a scan for the owner, then the references of the token.
ReclaimSequence(s) ==
    /\ seqs[s].phase = "orphan"
    /\ \A i \in Index : i < seqs[s].shared => ValidShared(seqs[s].ids[i])
    /\ \A b \in Blocks : Cardinality(SharedTail(s, 0, b)) <= slots[b].references
    /\ Settle([b \in Blocks |->
                IF slots[b].owner = s
                THEN Released(slots[b])
                ELSE DropReferences(slots[b], Cardinality(SharedTail(s, 0, b)))])
    /\ seqs' = [seqs EXCEPT ![s] = [Unborn EXCEPT !.phase = "gone"]]
    /\ UNCHANGED <<tokens, holds>>

AdoptPreflight(s, h) ==
    /\ Mutable(s)
    /\ seqs[s].count = seqs[s].shared
    /\ seqs[s].count < BlocksForLength(seqs[s].maximum)
    /\ ValidShared(h)

AdoptSharedBlock(s, h) ==
    LET i == seqs[s].count
    IN  /\ AdoptPreflight(s, h)
        /\ slots' = [slots EXCEPT ![h.index].references = @ + 1]
        /\ seqs' = [seqs EXCEPT ![s] = [@ EXCEPT
                        !.ids[i] = h, !.valid[i] = BlockSize,
                        !.count = i + 1, !.shared = i + 1,
                        !.length = (i + 1) * BlockSize]]
        /\ UNCHANGED <<free, allocated, tokens, holds>>

\* Mutant: only the caller is counted as a holder.
SharedSlotOneHolder(slot) ==
    [slot EXCEPT !.owner = SharedOwner, !.references = 1, !.sidecar = None]

\* A block the sequence and the caller hold from now on.
SharedSlot(slot) ==
    [slot EXCEPT !.owner = SharedOwner, !.references = 2, !.sidecar = None]

ShareNextBlock(s) ==
    LET i == seqs[s].shared
        h == seqs[s].ids[i]
    IN  /\ Mutable(s)
        /\ (i + 1) * BlockSize <= seqs[s].length
        /\ i \in Index
        /\ ValidBlock(h, s)
        /\ slots' = [slots EXCEPT ![h.index] = SharedSlot(@)]
        /\ seqs' = [seqs EXCEPT ![s].shared = i + 1]
        /\ holds' = holds \cup {h}
        /\ UNCHANGED <<free, allocated, tokens>>

\* release_shared_block by the caller that shared the block.
ReleaseSharedBlock(h) ==
    /\ h \in holds
    /\ ValidShared(h)
    /\ Settle([slots EXCEPT ![h.index] = DropReferences(@, 1)])
    /\ holds' = holds \ {h}
    /\ UNCHANGED <<seqs, tokens>>

\* attach_sidecar; the descriptor is abstracted to the valid tokens it describes.
AttachSidecar(s, i) ==
    /\ Mutable(s)
    /\ i < BlocksForLength(seqs[s].length)
    /\ ValidBlock(seqs[s].ids[i], s)
    /\ slots' = [slots EXCEPT ![seqs[s].ids[i].index].sidecar = seqs[s].valid[i]]
    /\ UNCHANGED <<free, allocated, seqs, tokens, holds>>

Next ==
    \/ \E s \in SequenceIds :
        \/ \E maximum \in MaximumLengths : CreateSequence(s, maximum)
        \/ \E target \in 0 .. MaxLength : ReserveTo(s, target)
        \/ \E target \in 0 .. MaxLength : ReserveExhausted(s, target)
        \/ \E target \in 0 .. MaxLength : TruncateTo(s, target)
        \/ \E t \in tokens : Commit(s, t) \/ Rollback(s, t) \/ Poison(s, t)
        \/ RollbackAbandonedReservation(s)
        \/ Reset(s)
        \/ AbandonForReclaim(s)
        \/ ReclaimSequence(s)
        \/ \E h \in Handle : AdoptSharedBlock(s, h)
        \/ ShareNextBlock(s)
        \/ \E i \in Index : AttachSidecar(s, i)
    \/ \E t \in tokens : DropToken(t)
    \/ \E h \in holds : ReleaseSharedBlock(h)

Spec == Init /\ [][Next]_vars

-----------------------------------------------------------------------------
(* Properties. *)

Alive(s) == seqs[s].phase \in {"live", "orphan"}

\* Table positions s has filled, and the ones it owns alone.
Held(s) == {i \in Index : i < seqs[s].count}
Private(s) == {i \in Held(s) : i >= seqs[s].shared}

\* The (sequence, position) pairs that hold block b through a reference.
Readers(b) ==
    {r \in SequenceIds \X Index : /\ r[2] < seqs[r[1]].shared
                                  /\ seqs[r[1]].ids[r[2]].index = b}

\* Every variable has the shape of the Rust struct it stands for, and the
\* counts of a sequence stay inside its table.
TypeOK ==
    /\ slots \in [Blocks -> Slot]
    /\ free \subseteq Blocks
    /\ allocated \in Nat
    /\ seqs \in [SequenceIds -> SequenceState]
    /\ tokens \subseteq Token
    /\ holds \subseteq Handle
    /\ \A s \in SequenceIds : /\ seqs[s].shared <= seqs[s].count
                               /\ seqs[s].count <= BlocksForLength(MaxLength)

\* A block is on the free list exactly when its slot has no owner: nothing the
\* pool can hand out again is still leased, and nothing released is lost.
FreeListExact ==
    \A b \in Blocks : b \in free <=> slots[b].owner = None

\* allocated_block_count counts the leased blocks through every rollback,
\* truncation, reclaim and last release (the pool never leaks or double frees).
AccountingExact == allocated = Cardinality(Blocks \ free)

\* A block owned by a sequence is at exactly one private position of that
\* sequence, with the current generation; a private position is owned.
PrivateBlocksExclusive ==
    /\ \A s \in SequenceIds : \A i \in Private(s) :
            /\ ValidBlock(seqs[s].ids[i], s)
            /\ \A j \in Private(s) :
                    seqs[s].ids[i].index = seqs[s].ids[j].index => i = j
    /\ \A b \in Blocks : \A s \in SequenceIds :
            slots[b].owner = s => \E i \in Private(s) : seqs[s].ids[i].index = b

\* The reference count of a block is the number of its holders: table entries
\* of sequences, and callers that owe a release.  It is positive exactly while
\* the block is shared, so the last release and no earlier one frees it.
ReferencesExact ==
    \A b \in Blocks :
        /\ slots[b].references = Cardinality(Readers(b)) + Cardinality({h \in holds : h.index = b})
        /\ slots[b].owner = SharedOwner <=> slots[b].references > 0

\* No handle the program still holds is stale: the checks of validate_block and
\* shared_references that guard a release or a commit can never fail.
HeldHandlesValid ==
    /\ \A s \in SequenceIds : Alive(s) => \A i \in Held(s) : ValidHeld(s, i)
    /\ \A h \in holds : ValidShared(h)

\* The positions a reservation lets the device write lie behind the shared
\* prefix and no other table or caller holds their blocks.
WritesArePrivate ==
    \A s \in SequenceIds : seqs[s].phase = "live" /\ seqs[s].pending # None =>
        \A i \in Written(s) :
            LET b == seqs[s].ids[i].index
            IN  /\ ValidBlock(seqs[s].ids[i], s)
                /\ Readers(b) = {}
                /\ \A h \in holds : h.index # b
                /\ \A r \in SequenceIds : \A j \in Held(r) :
                        seqs[r].ids[j].index = b => r = s /\ i = j

\* The length the table of s describes: the target while a reservation pends.
TableLength(s) == IF seqs[s].pending = None THEN seqs[s].length ELSE seqs[s].pending.target

\* A table has exactly the blocks its length needs, its valid-token counts
\* describe that length, and a pending reservation remembers what to return to.
TableCoversLength ==
    \A s \in SequenceIds : seqs[s].phase = "live" =>
        /\ seqs[s].count = BlocksForLength(TableLength(s))
        /\ seqs[s].pending # None => seqs[s].pending.previous = BlocksForLength(seqs[s].length)
        /\ \A i \in Held(s) :
            seqs[s].valid[i] = SmallerOf(LargerOf(TableLength(s) - i * BlockSize, 0), BlockSize)

\* What a block table promises the device: every handle in it is current, it
\* covers exactly the committed length or the pending target, and the blocks a
\* pending reservation writes are its own, whatever truncations, adoptions,
\* aborts and releases of other sequences came before.
TablesSound == HeldHandlesValid /\ TableCoversLength /\ WritesArePrivate

\* Metadata sits on a block that one sequence owns and describes what is
\* committed there now: commit, truncate, poison, share and release drop it first.
SidecarsDescribeContent ==
    \A b \in Blocks : slots[b].sidecar # None =>
        \E s \in SequenceIds : \E i \in Private(s) :
            /\ seqs[s].ids[i] = [index |-> b, generation |-> slots[b].generation]
            /\ slots[b].owner = s
            /\ slots[b].sidecar = SmallerOf(LargerOf(seqs[s].length - i * BlockSize, 0), BlockSize)

\* A step that hands a block to a sequence takes it from the free list and
\* advances its generation; no step lets a generation fall.
LeaseStep ==
    \A b \in Blocks :
        /\ slots'[b].generation >= slots[b].generation
        /\ slots'[b].owner \in SequenceIds /\ slots'[b].owner # slots[b].owner =>
            /\ b \in free
            /\ slots'[b].generation = slots[b].generation + 1

\* A block becomes writable for a sequence only by such a lease: old handles,
\* and readers of a shared block, never see it change hands.
LeaseFencing == [][LeaseStep]_vars

\* A step that starts a reservation gives it a token no caller has.
TokenStep ==
    \A s \in SequenceIds :
        seqs'[s].pending # None /\ seqs'[s].pending # seqs[s].pending =>
            [sequence |-> s, nonce |-> seqs'[s].pending.nonce,
             previous |-> seqs'[s].pending.previous,
             target |-> seqs'[s].pending.target] \notin tokens

\* reserve_to never issues a token a caller already has: a token that survived
\* reset or rollback_abandoned_reservation cannot settle a later reservation.
TokensUnforgeable == [][TokenStep]_vars
=============================================================================
