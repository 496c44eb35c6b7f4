--------------------------- MODULE PagedKvProofs ---------------------------
(***************************************************************************)
(* Proofs about the paged KV allocator, for every number of blocks and     *)
(* sequences, every block size and every caller: the pool, then shared     *)
(* blocks, block tables, sidecars and reservation tokens.                  *)
(***************************************************************************)
EXTENDS PagedKv, FiniteSetTheorems, TLAPS

-----------------------------------------------------------------------------
(* Arithmetic of block counts. *)

\* Integer division leaves a remainder below the divisor.
LEMMA DivisionBounds ==
    ASSUME NEW x \in Nat, NEW b \in Nat \ {0}
    PROVE  /\ x \div b \in Nat
           /\ b * (x \div b) <= x
           /\ x < b * (x \div b) + b
  BY Z3

\* blocks_for_length returns a natural number.
LEMMA BlocksForLengthNat ==
    ASSUME NEW n \in Nat
    PROVE  BlocksForLength(n) \in Nat
  BY ConstantsAssumption, DivisionBounds DEF BlocksForLength

\* A longer sequence never needs fewer blocks.
LEMMA BlocksForLengthMonotone ==
    ASSUME NEW m \in Nat, NEW n \in Nat, m <= n
    PROVE  BlocksForLength(m) <= BlocksForLength(n)
<1> DEFINE p == BlocksForLength(m)
           q == BlocksForLength(n)
<1>1. /\ p \in Nat /\ q \in Nat
      /\ BlockSize * p <= m + BlockSize - 1
      /\ n + BlockSize - 1 < BlockSize * q + BlockSize
  BY ConstantsAssumption, DivisionBounds DEF BlocksForLength
<1> HIDE DEF p, q
<1>2. SUFFICES ASSUME p >= q + 1 PROVE FALSE
  BY <1>1 DEF p, q
<1>3. BlockSize * p >= BlockSize * (q + 1)
  BY <1>1, <1>2, ConstantsAssumption
<1>4. BlockSize * (q + 1) = BlockSize * q + BlockSize
  BY <1>1, ConstantsAssumption
<1> QED BY <1>1, <1>3, <1>4, ConstantsAssumption

\* A length that fills k blocks needs at least k blocks.
LEMMA FullBlocksAreNeeded ==
    ASSUME NEW k \in Nat, NEW n \in Nat, n >= k * BlockSize
    PROVE  k <= BlocksForLength(n)
<1> DEFINE q == BlocksForLength(n)
<1>1. q \in Nat /\ n + BlockSize - 1 < BlockSize * q + BlockSize
  BY ConstantsAssumption, DivisionBounds DEF BlocksForLength
<1> HIDE DEF q
<1>2. SUFFICES ASSUME k >= q + 1 PROVE FALSE
  BY <1>1 DEF q
<1>3. BlockSize * k >= BlockSize * (q + 1)
  BY <1>1, <1>2, ConstantsAssumption
<1>4. BlockSize * (q + 1) = BlockSize * q + BlockSize
  BY <1>1, ConstantsAssumption
<1>5. BlockSize * k = k * BlockSize
  BY ConstantsAssumption
<1> QED BY <1>1, <1>3, <1>4, <1>5, ConstantsAssumption

-----------------------------------------------------------------------------
(* Cardinalities. *)

\* The table positions are finitely many naturals.
LEMMA IndexFinite == IsFiniteSet(Index) /\ Index \subseteq Nat
<1>1. BlocksForLength(MaxLength) \in Nat
  BY BlocksForLengthNat, ConstantsAssumption
<1>2. Index \subseteq Nat
  BY <1>1 DEF Index
<1>3. IsFiniteSet(Index)
  BY <1>1, FS_Interval DEF Index
<1> QED BY <1>2, <1>3

\* Returning blocks to the free list takes them off the leased ones.
LEMMA ReturnedBlocksCount ==
    ASSUME NEW F, F \subseteq Blocks, NEW R, R \subseteq Blocks \ F
    PROVE  /\ Cardinality(Blocks \ (F \cup R)) = Cardinality(Blocks \ F) - Cardinality(R)
           /\ Cardinality(Blocks \ (F \cup R)) \in Nat
<1>1. IsFiniteSet(Blocks \ F) /\ IsFiniteSet(R)
  BY ConstantsAssumption, FS_Subset
<1>2. Blocks \ (F \cup R) = (Blocks \ F) \ R /\ (Blocks \ F) \cap R = R
  OBVIOUS
<1>3. Cardinality((Blocks \ F) \ R) = Cardinality(Blocks \ F) - Cardinality((Blocks \ F) \cap R)
  BY <1>1, FS_Difference
<1>4. IsFiniteSet((Blocks \ F) \ R)
  BY <1>1, FS_Difference
<1> QED BY <1>2, <1>3, <1>4, FS_CardinalityType

\* Leasing free blocks adds them to the leased ones.
LEMMA LeasedBlocksCount ==
    ASSUME NEW F, F \subseteq Blocks, NEW L, L \subseteq F
    PROVE  /\ Cardinality(Blocks \ (F \ L)) = Cardinality(Blocks \ F) + Cardinality(L)
           /\ Cardinality(Blocks \ (F \ L)) \in Nat
<1>1. IsFiniteSet(Blocks \ F) /\ IsFiniteSet(L) /\ IsFiniteSet(Blocks \ (F \ L))
  BY ConstantsAssumption, FS_Subset
<1>2. Blocks \ (F \ L) = (Blocks \ F) \cup L /\ (Blocks \ F) \cap L = {}
  OBVIOUS
<1>3. Cardinality((Blocks \ F) \cup L)
        = Cardinality(Blocks \ F) + Cardinality(L) - Cardinality((Blocks \ F) \cap L)
  BY <1>1, FS_Union
<1>4. Cardinality({}) = 0
  BY FS_EmptySet
<1>5. /\ Cardinality(Blocks \ F) \in Nat /\ Cardinality(L) \in Nat
      /\ Cardinality(Blocks \ (F \ L)) \in Nat
  BY <1>1, FS_CardinalityType
<1>6. Cardinality((Blocks \ F) \cap L) = 0
  BY <1>2, <1>4
<1>7. Cardinality(Blocks \ (F \ L)) = Cardinality((Blocks \ F) \cup L)
  BY <1>2
<1> QED BY <1>3, <1>5, <1>6, <1>7

-----------------------------------------------------------------------------
(* The inductive invariant. *)

\* A shared block has references, and no other block has any.
SharedHaveReferences ==
    \A b \in Blocks : slots[b].owner = SharedOwner <=> slots[b].references > 0

\* A table is empty behind its count, and a reservation never goes back into
\* the shared prefix.
TablesBounded ==
    \A s \in SequenceIds :
        /\ \A i \in Index : i >= seqs[s].count => seqs[s].ids[i] = None
        /\ seqs[s].pending # None => seqs[s].shared <= seqs[s].pending.previous

IInv ==
    /\ TypeOK
    /\ FreeListExact
    /\ AccountingExact
    /\ SharedHaveReferences
    /\ PrivateBlocksExclusive
    /\ TablesBounded

-----------------------------------------------------------------------------
(* Tables. *)

\* Valid-token counts stay within a block.
LEMMA FillValidTokensType ==
    ASSUME NEW valid \in [Index -> 0 .. BlockSize], NEW length \in Nat,
           NEW blocks \in Nat, NEW count \in Nat
    PROVE  FillValidTokens(valid, length, blocks, count) \in [Index -> 0 .. BlockSize]
<1> SUFFICES ASSUME NEW i \in Index
             PROVE  FillValidTokens(valid, length, blocks, count)[i] \in 0 .. BlockSize
  BY DEF FillValidTokens
<1>1. i \in Nat /\ BlockSize \in Nat
  BY IndexFinite, ConstantsAssumption
<1>2. length - i * BlockSize \in Int
  BY <1>1
<1>3. SmallerOf(LargerOf(length - i * BlockSize, 0), BlockSize) \in 0 .. BlockSize
  BY <1>1, <1>2 DEF SmallerOf, LargerOf
<1> QED BY <1>1, <1>3 DEF FillValidTokens

\* release_tail keeps a table a table.
LEMMA TableWithoutTailType ==
    ASSUME NEW q \in SequenceState, NEW kept \in Nat
    PROVE  /\ TableWithoutTail(q, kept) \in SequenceState
           /\ TableWithoutTail(q, kept).count = SmallerOf(q.count, kept)
           /\ TableWithoutTail(q, kept).shared = SmallerOf(q.shared, kept)
           /\ TableWithoutTail(q, kept).pending = q.pending
           /\ \A i \in Index : TableWithoutTail(q, kept).ids[i] =
                    IF i >= kept /\ i < q.count THEN None ELSE q.ids[i]
<1>1. SmallerOf(q.count, kept) \in Nat /\ SmallerOf(q.shared, kept) \in Nat
  BY DEF SequenceState, SmallerOf
<1>2. [i \in Index |-> IF i >= kept /\ i < q.count THEN None ELSE q.ids[i]]
        \in [Index -> Handle \cup {None}]
  BY DEF SequenceState
<1>3. [i \in Index |-> IF i >= kept /\ i < q.count THEN 0 ELSE q.valid[i]]
        \in [Index -> 0 .. BlockSize]
  BY ConstantsAssumption DEF SequenceState
<1> QED BY <1>1, <1>2, <1>3 DEF SequenceState, TableWithoutTail

\* So does the rollback of a reservation.
LEMMA TableRolledBackType ==
    ASSUME NEW q \in SequenceState, q.pending # None
    PROVE  /\ q.pending.previous \in Nat
           /\ TableRolledBack(q) \in SequenceState
           /\ TableRolledBack(q).count = SmallerOf(q.count, q.pending.previous)
           /\ TableRolledBack(q).shared = SmallerOf(q.shared, q.pending.previous)
           /\ TableRolledBack(q).pending = None
           /\ \A i \in Index : TableRolledBack(q).ids[i] =
                    IF i >= q.pending.previous /\ i < q.count THEN None ELSE q.ids[i]
<1>1. q.pending.previous \in Nat
  BY DEF SequenceState, Pending
<1> DEFINE t == TableWithoutTail(q, q.pending.previous)
           v == FillValidTokens(t.valid, q.length, BlocksForLength(q.length), t.count)
<1>2. t \in SequenceState
  BY <1>1, TableWithoutTailType
<1>3. /\ t.count = SmallerOf(q.count, q.pending.previous)
      /\ t.shared = SmallerOf(q.shared, q.pending.previous)
      /\ \A i \in Index : t.ids[i] =
                    IF i >= q.pending.previous /\ i < q.count THEN None ELSE q.ids[i]
  BY <1>1, TableWithoutTailType
<1>4. v \in [Index -> 0 .. BlockSize]
  <2>1. t.valid \in [Index -> 0 .. BlockSize] /\ t.count \in Nat /\ q.length \in Nat
    BY <1>2 DEF SequenceState
  <2> QED BY <2>1, BlocksForLengthNat, FillValidTokensType
<1>5. TableRolledBack(q) = [t EXCEPT !.valid = v, !.pending = None]
  BY DEF TableRolledBack
<1> HIDE DEF t, v
<1> QED BY <1>1, <1>2, <1>3, <1>4, <1>5 DEF SequenceState

-----------------------------------------------------------------------------
(* Slots. *)

\* The references a sequence drops are counted by a natural number.
LEMMA SharedTailCount ==
    ASSUME NEW s, NEW kept, NEW b
    PROVE  Cardinality(SharedTail(s, kept, b)) \in Nat
<1>1. SharedTail(s, kept, b) \subseteq Index
  BY DEF SharedTail
<1> QED BY <1>1, IndexFinite, FS_Subset, FS_CardinalityType

\* A sequence that keeps its shared prefix drops no reference.
LEMMA KeepsSharedPrefix ==
    ASSUME TypeOK, NEW s \in SequenceIds, NEW kept \in Nat, seqs[s].shared <= kept, NEW b \in Blocks
    PROVE  Cardinality(SharedTail(s, kept, b)) <= slots[b].references
<1>1. SharedTail(s, kept, b) = {}
  <2>1. seqs[s].shared \in Nat
    BY DEF TypeOK, SequenceState
  <2>2. SUFFICES ASSUME NEW i \in SharedTail(s, kept, b) PROVE FALSE
    OBVIOUS
  <2>3. i \in Nat /\ i >= kept /\ i < seqs[s].shared
    BY IndexFinite DEF SharedTail
  <2> QED BY <2>1, <2>3
<1>2. slots[b].references \in Nat
  BY DEF TypeOK, Slot
<1>3. Cardinality(SharedTail(s, kept, b)) = 0
  BY <1>1, FS_EmptySet
<1> QED BY <1>2, <1>3

\* What release_tail does to the slots: it frees the private tail, drops
\* references, and leaves generations and other owners alone.
LEMMA SlotsWithoutTailFacts ==
    ASSUME TypeOK, SharedHaveReferences, PrivateBlocksExclusive,
           NEW s \in SequenceIds, NEW kept \in Nat,
           \A b \in Blocks : Cardinality(SharedTail(s, kept, b)) <= slots[b].references
    PROVE  /\ SlotsWithoutTail(s, kept) \in [Blocks -> Slot]
           /\ \A b \in Blocks :
                LET after == SlotsWithoutTail(s, kept)[b]
                IN  /\ after.generation = slots[b].generation
                    /\ after.owner = SharedOwner <=> after.references > 0
                    /\ after.owner # None => after.owner = slots[b].owner
                    /\ b \in PrivateTail(s, kept) => after.owner = None
                    /\ b \notin PrivateTail(s, kept) /\ slots[b].owner # SharedOwner
                            => after.owner = slots[b].owner
<1> SUFFICES ASSUME NEW b \in Blocks
             PROVE  LET after == SlotsWithoutTail(s, kept)[b]
                    IN  /\ after \in Slot
                        /\ after.generation = slots[b].generation
                        /\ after.owner = SharedOwner <=> after.references > 0
                        /\ after.owner # None => after.owner = slots[b].owner
                        /\ b \in PrivateTail(s, kept) => after.owner = None
                        /\ b \notin PrivateTail(s, kept) /\ slots[b].owner # SharedOwner
                                => after.owner = slots[b].owner
  BY DEF SlotsWithoutTail
<1> DEFINE after == SlotsWithoutTail(s, kept)[b]
<1>1. slots[b] \in Slot
  BY DEF TypeOK
<1>2. CASE b \in PrivateTail(s, kept)
  <2>1. after = Released(slots[b])
    BY <1>2 DEF SlotsWithoutTail
  <2>2. slots[b].owner = s
    <3>1. PICK i \in Index : /\ i >= kept /\ i >= seqs[s].shared /\ i < seqs[s].count
                             /\ seqs[s].ids[i].index = b
      BY <1>2 DEF PrivateTail
    <3>2. i \in Private(s)
      BY <3>1 DEF Private, Held
    <3> QED BY <3>1, <3>2 DEF PrivateBlocksExclusive, ValidBlock
  <2>3. ~(slots[b].references > 0)
    BY <2>2, ConstantsAssumption DEF SharedHaveReferences
  <2>4. after = [slots[b] EXCEPT !.owner = None, !.sidecar = None]
    BY <2>1 DEF Released
  <2> HIDE DEF after
  <2> QED BY <1>1, <1>2, <2>3, <2>4, ConstantsAssumption DEF Slot, after
<1>3. CASE b \notin PrivateTail(s, kept)
  <2> DEFINE k == Cardinality(SharedTail(s, kept, b))
  <2>1. after = DropReferences(slots[b], k)
    BY <1>3 DEF SlotsWithoutTail
  <2>2. k \in Nat /\ k <= slots[b].references
    BY SharedTailCount
  <2>3. slots[b].owner = SharedOwner <=> slots[b].references > 0
    BY DEF SharedHaveReferences
  <2> HIDE DEF k
  <2>4. CASE k > 0 /\ slots[b].references = k
    <3> DEFINE less == [slots[b] EXCEPT !.references = slots[b].references - k]
    <3>1. after = Released(less)
      BY <2>1, <2>4 DEF DropReferences
    <3>2. less \in Slot /\ less.references = 0 /\ less.generation = slots[b].generation
      BY <1>1, <2>2, <2>4 DEF Slot
    <3> HIDE DEF less, after
    <3>3. /\ after \in Slot /\ after.owner = None
          /\ after.references = 0 /\ after.generation = slots[b].generation
      BY <3>1, <3>2 DEF Slot, Released
    <3>4. slots[b].owner = SharedOwner
      BY <2>2, <2>3, <2>4
    <3> QED BY <1>3, <3>3, <3>4, ConstantsAssumption DEF after
  <2>5. CASE ~(k > 0 /\ slots[b].references = k)
    <3>1. after = [slots[b] EXCEPT !.references = slots[b].references - k]
      BY <1>1, <2>1, <2>2, <2>5 DEF DropReferences, Slot
    <3>2. slots[b].references - k \in Nat
      BY <1>1, <2>2 DEF Slot
    <3>3. slots[b].references - k > 0 <=> slots[b].references > 0
      BY <1>1, <2>2, <2>5 DEF Slot
    <3> HIDE DEF after
    <3> QED BY <1>1, <1>3, <2>3, <3>1, <3>2, <3>3, ConstantsAssumption DEF Slot, after
  <2> QED BY <2>4, <2>5
<1> QED BY <1>2, <1>3

\* Giving blocks back keeps the free list and the block count exact.
LEMMA SettleExact ==
    ASSUME TypeOK, FreeListExact, AccountingExact, NEW after, Settle(after),
           after \in [Blocks -> Slot],
           \A b \in Blocks : after[b].owner # None => after[b].owner = slots[b].owner
    PROVE  free' \subseteq Blocks /\ allocated' \in Nat /\ FreeListExact' /\ AccountingExact'
<1> DEFINE R == Freed(after)
<1>1. slots' = after /\ free' = free \cup R /\ allocated' = allocated - Cardinality(R)
  BY DEF Settle
<1>2. R \subseteq Blocks \ free /\ free \subseteq Blocks
  BY DEF Freed, FreeListExact, TypeOK
<1>3. \A b \in Blocks : b \in R <=> slots[b].owner # None /\ after[b].owner = None
  BY DEF Freed
<1>4. allocated = Cardinality(Blocks \ free)
  BY DEF AccountingExact
<1> HIDE DEF R
<1>5. FreeListExact'
  BY <1>1, <1>2, <1>3 DEF FreeListExact
<1>6. /\ Cardinality(Blocks \ (free \cup R)) = Cardinality(Blocks \ free) - Cardinality(R)
      /\ Cardinality(Blocks \ (free \cup R)) \in Nat
  BY <1>2, ReturnedBlocksCount
<1> QED BY <1>1, <1>2, <1>4, <1>5, <1>6 DEF AccountingExact

-----------------------------------------------------------------------------
(* One sequence gives back the tail of its table. *)

\* A private position of s before the cut is not one of the released blocks.
LEMMA KeptIsNotReleased ==
    ASSUME TypeOK, PrivateBlocksExclusive, NEW s \in SequenceIds, NEW kept \in Nat,
           NEW i \in Private(s), i < kept
    PROVE  seqs[s].ids[i].index \notin PrivateTail(s, kept)
<1> SUFFICES ASSUME seqs[s].ids[i].index \in PrivateTail(s, kept) PROVE FALSE
  OBVIOUS
<1>1. PICK j \in Index : /\ j >= kept /\ j >= seqs[s].shared /\ j < seqs[s].count
                         /\ seqs[s].ids[j].index = seqs[s].ids[i].index
  BY DEF PrivateTail
<1>2. j \in Private(s) /\ i \in Index
  BY <1>1 DEF Private, Held
<1>3. i = j
  BY <1>1, <1>2 DEF PrivateBlocksExclusive
<1> QED BY <1>1, <1>2, <1>3, IndexFinite

\* release_tail and what follows it preserve the invariant: `after` may differ
\* from the released slots in sidecars, and q in lengths and flags.
LEMMA TailReleased ==
    ASSUME IInv, NEW s \in SequenceIds, NEW kept \in Nat,
           \A b \in Blocks : Cardinality(SharedTail(s, kept, b)) <= slots[b].references,
           NEW after, after \in [Blocks -> Slot],
           \A b \in Blocks : /\ after[b].owner = SlotsWithoutTail(s, kept)[b].owner
                             /\ after[b].generation = SlotsWithoutTail(s, kept)[b].generation
                             /\ after[b].references = SlotsWithoutTail(s, kept)[b].references,
           Settle(after),
           NEW q \in SequenceState,
           q.count = SmallerOf(seqs[s].count, kept),
           q.shared = SmallerOf(seqs[s].shared, kept),
           q.pending = None,
           \A i \in Index : q.ids[i] =
                IF i >= kept /\ i < seqs[s].count THEN None ELSE seqs[s].ids[i],
           seqs' = [seqs EXCEPT ![s] = q],
           tokens' \subseteq Token, holds' \subseteq Handle
    PROVE  IInv'
<1> USE DEF IInv
<1>1. \A b \in Blocks :
        /\ after[b].generation = slots[b].generation
        /\ after[b].owner = SharedOwner <=> after[b].references > 0
        /\ after[b].owner # None => after[b].owner = slots[b].owner
        /\ b \in PrivateTail(s, kept) => after[b].owner = None
        /\ b \notin PrivateTail(s, kept) /\ slots[b].owner # SharedOwner
                => after[b].owner = slots[b].owner
  BY SlotsWithoutTailFacts
<1>2. slots' = after
  BY DEF Settle
<1>3. seqs[s] \in SequenceState /\ seqs' \in [SequenceIds -> SequenceState]
  BY DEF TypeOK
<1>4. seqs'[s] = q /\ \A r \in SequenceIds : r # s => seqs'[r] = seqs[r]
  BY DEF TypeOK
<1>5. /\ seqs[s].count \in Nat /\ seqs[s].shared \in Nat
      /\ seqs[s].shared <= seqs[s].count /\ seqs[s].count <= BlocksForLength(MaxLength)
      /\ BlocksForLength(MaxLength) \in Nat
  BY <1>3, BlocksForLengthNat, ConstantsAssumption DEF TypeOK, SequenceState
<1>6. free' \subseteq Blocks /\ allocated' \in Nat /\ FreeListExact' /\ AccountingExact'
  BY <1>1, SettleExact
<1>7. TypeOK'
  <2>1. q.shared <= q.count /\ q.count <= BlocksForLength(MaxLength)
    BY <1>5 DEF SmallerOf
  <2>2. \A r \in SequenceIds : /\ seqs'[r].shared <= seqs'[r].count
                               /\ seqs'[r].count <= BlocksForLength(MaxLength)
    BY <1>4, <2>1 DEF TypeOK
  <2> QED BY <1>2, <1>3, <1>6, <2>2 DEF TypeOK
<1>8. SharedHaveReferences'
  BY <1>1, <1>2 DEF SharedHaveReferences
<1>9. TablesBounded'
  <2>1. \A i \in Index : i >= q.count => q.ids[i] = None
    <3> TAKE i \in Index
    <3> HAVE i >= q.count
    <3>1. i \in Nat
      BY IndexFinite
    <3>2. i >= seqs[s].count => seqs[s].ids[i] = None
      BY DEF TablesBounded
    <3>3. i >= seqs[s].count \/ i >= kept
      BY <1>5, <3>1 DEF SmallerOf
    <3> QED BY <1>5, <3>1, <3>2, <3>3
  <2> QED BY <1>4, <2>1 DEF TablesBounded
<1>10. \A r \in SequenceIds : r # s => Private(r)' = Private(r)
  BY <1>4 DEF Private, Held
<1>11. \A i : i \in Private(s)' <=> i \in Private(s) /\ i < kept
  <2> TAKE i
  <2>1. i \in Private(s)' <=> i \in Index /\ i < q.count /\ i >= q.shared
    BY <1>4 DEF Private, Held
  <2>2. i \in Private(s) <=> i \in Index /\ i < seqs[s].count /\ i >= seqs[s].shared
    BY DEF Private, Held
  <2>3. CASE i \in Index
    <3>1. i \in Nat
      BY <2>3, IndexFinite
    <3>2. i < q.count /\ i >= q.shared <=> i < seqs[s].count /\ i >= seqs[s].shared /\ i < kept
      BY <1>5, <3>1 DEF SmallerOf
    <3> QED BY <2>1, <2>2, <2>3, <3>2
  <2> QED BY <2>1, <2>2, <2>3
<1>12. \A i \in Private(s)' : q.ids[i] = seqs[s].ids[i]
  BY <1>11, IndexFinite DEF Private, Held
<1>13. ASSUME NEW r \in SequenceIds, NEW i \in Private(r)'
       PROVE  /\ ValidBlock(seqs[r].ids[i], r)'
              /\ \A j \in Private(r)' : seqs'[r].ids[i].index = seqs'[r].ids[j].index => i = j
  <2>1. i \in Private(r) /\ Private(r)' \subseteq Private(r)
    BY <1>10, <1>11, <1>13
  <2>2. \A j \in Private(r)' : seqs'[r].ids[j] = seqs[r].ids[j]
    BY <1>4, <1>12
  <2> DEFINE h == seqs[r].ids[i]
  <2>3. ValidBlock(h, r)
    BY <2>1 DEF PrivateBlocksExclusive
  <2>4. h.index \in Blocks
    <3>1. i \in Index
      BY <2>1 DEF Private, Held
    <3> QED BY <2>3, <3>1 DEF TypeOK, SequenceState, Handle, ValidBlock
  <2>5. h.index \notin PrivateTail(s, kept)
    <3>1. CASE r = s
      BY <1>11, <1>13, <3>1, KeptIsNotReleased
    <3>2. CASE r # s
      <4>1. SUFFICES ASSUME h.index \in PrivateTail(s, kept) PROVE FALSE
        OBVIOUS
      <4>2. PICK j \in Index : /\ j >= seqs[s].shared /\ j < seqs[s].count
                               /\ seqs[s].ids[j].index = h.index
        BY <4>1 DEF PrivateTail
      <4>3. j \in Private(s)
        BY <4>2 DEF Private, Held
      <4>4. slots[h.index].owner = s
        BY <4>2, <4>3 DEF PrivateBlocksExclusive, ValidBlock
      <4> QED BY <2>3, <3>2, <4>4 DEF ValidBlock
    <3> QED BY <3>1, <3>2
  <2>6. slots[h.index].owner = r /\ slots[h.index].generation = h.generation /\ h # None
    BY <2>3 DEF ValidBlock
  <2>7. after[h.index].owner = r /\ after[h.index].generation = h.generation
    BY <1>1, <2>4, <2>5, <2>6, ConstantsAssumption
  <2>8. seqs'[r].ids[i] = h
    BY <1>13, <2>2
  <2> HIDE DEF h
  <2>9. ValidBlock(seqs[r].ids[i], r)'
    BY <1>2, <2>6, <2>7, <2>8 DEF ValidBlock
  <2>10. \A j \in Private(r) : seqs[r].ids[i].index = seqs[r].ids[j].index => i = j
    BY <2>1 DEF PrivateBlocksExclusive
  <2> QED BY <1>13, <2>1, <2>2, <2>9, <2>10
<1>14. ASSUME NEW b \in Blocks, NEW r \in SequenceIds, slots'[b].owner = r
       PROVE  \E i \in Private(r)' : seqs'[r].ids[i].index = b
  <2>1. slots[b].owner = r /\ b \notin PrivateTail(s, kept)
    BY <1>1, <1>2, <1>14, ConstantsAssumption
  <2>2. PICK i \in Private(r) : seqs[r].ids[i].index = b
    BY <2>1 DEF PrivateBlocksExclusive
  <2>3. i \in Private(r)'
    <3>1. CASE r = s
      <4>1. i \in Index /\ i >= seqs[s].shared /\ i < seqs[s].count
        BY <3>1 DEF Private, Held
      <4>2. ~(i >= kept)
        BY <2>1, <2>2, <3>1, <4>1 DEF PrivateTail
      <4> QED BY <1>11, <3>1, <4>1, <4>2, IndexFinite
    <3>2. CASE r # s
      BY <1>10, <3>2
    <3> QED BY <3>1, <3>2
  <2>4. seqs'[r].ids[i] = seqs[r].ids[i]
    BY <1>4, <1>12, <2>3
  <2> QED BY <2>2, <2>3, <2>4
<1>15. PrivateBlocksExclusive'
  BY <1>13, <1>14 DEF PrivateBlocksExclusive
<1> QED BY <1>6, <1>7, <1>8, <1>9, <1>15

\* rollback, poison and rollback_abandoned_reservation give back what the
\* reservation leased; poisoning or not, and losing sidecars or not.
LEMMA ReservationRolledBack ==
    ASSUME IInv, NEW s \in SequenceIds, seqs[s].pending # None,
           NEW after, after \in [Blocks -> Slot], NEW poisoned \in BOOLEAN,
           \A b \in Blocks :
                LET released == SlotsWithoutTail(s, seqs[s].pending.previous)[b]
                IN  /\ after[b].owner = released.owner
                    /\ after[b].generation = released.generation
                    /\ after[b].references = released.references,
           Settle(after),
           seqs' = [seqs EXCEPT ![s] = [TableRolledBack(@) EXCEPT !.poisoned = poisoned]],
           tokens' \subseteq Token, holds' \subseteq Handle
    PROVE  IInv'
<1> DEFINE kept == seqs[s].pending.previous
           t == TableRolledBack(seqs[s])
           q == [t EXCEPT !.poisoned = poisoned]
<1>1. TypeOK /\ seqs[s] \in SequenceState
  BY DEF IInv, TypeOK
<1>2. /\ kept \in Nat /\ t \in SequenceState
      /\ t.count = SmallerOf(seqs[s].count, kept)
      /\ t.shared = SmallerOf(seqs[s].shared, kept)
      /\ t.pending = None
      /\ \A i \in Index : t.ids[i] =
            IF i >= kept /\ i < seqs[s].count THEN None ELSE seqs[s].ids[i]
  BY <1>1, TableRolledBackType
<1>3. seqs[s].shared <= kept
  BY DEF IInv, TablesBounded
<1>4. \A b \in Blocks : Cardinality(SharedTail(s, kept, b)) <= slots[b].references
  BY <1>1, <1>2, <1>3, KeepsSharedPrefix
<1>5. seqs' = [seqs EXCEPT ![s] = q]
  BY <1>1
<1>6. \A b \in Blocks : /\ after[b].owner = SlotsWithoutTail(s, kept)[b].owner
                        /\ after[b].generation = SlotsWithoutTail(s, kept)[b].generation
                        /\ after[b].references = SlotsWithoutTail(s, kept)[b].references
  OBVIOUS
<1> HIDE DEF kept, t
<1>7. /\ q \in SequenceState
      /\ q.count = SmallerOf(seqs[s].count, kept)
      /\ q.shared = SmallerOf(seqs[s].shared, kept)
      /\ q.pending = None
      /\ \A i \in Index : q.ids[i] =
            IF i >= kept /\ i < seqs[s].count THEN None ELSE seqs[s].ids[i]
  BY <1>2 DEF SequenceState
<1> HIDE DEF q
<1> QED BY <1>2, <1>4, <1>5, <1>6, <1>7, TailReleased, ZenonT(90)

\* The slots after the tentative blocks of a reservation are released.
LEMMA RolledBackSlotsType ==
    ASSUME IInv, NEW s \in SequenceIds, seqs[s].pending # None
    PROVE  SlotsWithoutTail(s, seqs[s].pending.previous) \in [Blocks -> Slot]
<1>1. TypeOK /\ SharedHaveReferences /\ PrivateBlocksExclusive /\ seqs[s] \in SequenceState
  BY DEF IInv, TypeOK
<1>2. seqs[s].pending.previous \in Nat
  BY <1>1, TableRolledBackType
<1>3. seqs[s].shared <= seqs[s].pending.previous
  BY DEF IInv, TablesBounded
<1>4. \A b \in Blocks : Cardinality(SharedTail(s, seqs[s].pending.previous, b))
                            <= slots[b].references
  BY <1>1, <1>2, <1>3, KeepsSharedPrefix
<1> QED BY <1>1, <1>2, <1>4, SlotsWithoutTailFacts

\* Dropping a sidecar (take_sidecar) leaves the lease of the block alone.
LEMMA SidecarDropped ==
    ASSUME NEW x \in Slot
    PROVE  /\ [x EXCEPT !.sidecar = None] \in Slot
           /\ [x EXCEPT !.sidecar = None].owner = x.owner
           /\ [x EXCEPT !.sidecar = None].generation = x.generation
           /\ [x EXCEPT !.sidecar = None].references = x.references
BY DEF Slot

\* A token that matches a reservation shows that there is one.
LEMMA MatchedIsPending ==
    ASSUME IInv, NEW s \in SequenceIds, NEW t \in tokens, Matches(s, t)
    PROVE  /\ seqs[s].pending # None
           /\ t \in Token
           /\ seqs[s].pending.target = t.target
<1>1. t \in Token
  BY DEF IInv, TypeOK
<1>2. seqs[s].pending \in Pending
  BY <1>1 DEF Matches, Pending, Token
<1> QED BY <1>1, <1>2, NoneAssumption DEF Matches

\* rollback preserves the invariant.
LEMMA RollbackInvariant ==
    ASSUME IInv, NEW s \in SequenceIds, NEW t \in tokens, Rollback(s, t)
    PROVE  IInv'
<1> DEFINE after == SlotsWithoutTail(s, seqs[s].pending.previous)
<1>1. /\ TypeOK /\ SharedHaveReferences /\ PrivateBlocksExclusive
      /\ seqs[s] \in SequenceState
      /\ tokens' \subseteq Token /\ holds' \subseteq Handle
  BY DEF IInv, TypeOK, Rollback
<1>2. seqs[s].pending # None
  BY MatchedIsPending DEF Rollback
<1>3. seqs[s].pending.previous \in Nat /\ TableRolledBack(seqs[s]) \in SequenceState
  BY <1>1, <1>2, TableRolledBackType
<1>4. after \in [Blocks -> Slot]
  BY <1>2, RolledBackSlotsType
<1>5. Settle(after)
  BY DEF Rollback, RollbackPending
<1> DEFINE poisoned == TableRolledBack(seqs[s]).poisoned
<1>6. poisoned \in BOOLEAN
  BY <1>3 DEF SequenceState
<1>7. [TableRolledBack(seqs[s]) EXCEPT !.poisoned = poisoned] = TableRolledBack(seqs[s])
  BY <1>3 DEF SequenceState
<1>8. seqs' = [seqs EXCEPT ![s] = [TableRolledBack(@) EXCEPT !.poisoned = poisoned]]
  BY <1>1, <1>7 DEF Rollback
<1> HIDE DEF poisoned, after
<1>9. \A b \in Blocks :
        LET released == SlotsWithoutTail(s, seqs[s].pending.previous)[b]
        IN  /\ after[b].owner = released.owner
            /\ after[b].generation = released.generation
            /\ after[b].references = released.references
  BY DEF after
<1> QED BY <1>1, <1>2, <1>4, <1>5, <1>6, <1>8, <1>9, ReservationRolledBack

\* So does rollback_abandoned_reservation, without a token.
LEMMA RollbackAbandonedInvariant ==
    ASSUME IInv, NEW s \in SequenceIds, RollbackAbandonedReservation(s)
    PROVE  IInv'
<1> DEFINE after == SlotsWithoutTail(s, seqs[s].pending.previous)
<1>1. /\ TypeOK /\ SharedHaveReferences /\ PrivateBlocksExclusive
      /\ seqs[s] \in SequenceState
      /\ tokens' \subseteq Token /\ holds' \subseteq Handle
      /\ seqs[s].pending # None
  BY DEF IInv, TypeOK, RollbackAbandonedReservation
<1>2. seqs[s].pending.previous \in Nat
  BY <1>1, TableRolledBackType
<1>3. after \in [Blocks -> Slot]
  BY <1>1, RolledBackSlotsType
<1>4. /\ Settle(after)
      /\ seqs' = [seqs EXCEPT ![s] = [TableRolledBack(@) EXCEPT !.poisoned = TRUE]]
  BY DEF RollbackAbandonedReservation, RollbackPending
<1> HIDE DEF after
<1>5. \A b \in Blocks :
        LET released == SlotsWithoutTail(s, seqs[s].pending.previous)[b]
        IN  /\ after[b].owner = released.owner
            /\ after[b].generation = released.generation
            /\ after[b].references = released.references
  BY DEF after
<1> QED BY <1>1, <1>3, <1>4, <1>5, ReservationRolledBack

\* So does poison, which also drops the sidecars of the private blocks.
LEMMA PoisonInvariant ==
    ASSUME IInv, NEW s \in SequenceIds, NEW t \in tokens, Poison(s, t)
    PROVE  IInv'
<1> DEFINE released == SlotsWithoutTail(s, seqs[s].pending.previous)
           after == PoisonedSlots(s)
<1>1. /\ TypeOK /\ SharedHaveReferences /\ PrivateBlocksExclusive
      /\ seqs[s] \in SequenceState
      /\ tokens' \subseteq Token /\ holds' \subseteq Handle
  BY DEF IInv, TypeOK, Poison
<1>2. seqs[s].pending # None
  BY MatchedIsPending DEF Poison
<1>3. seqs[s].pending.previous \in Nat
  BY <1>1, <1>2, TableRolledBackType
<1>4. released \in [Blocks -> Slot]
  BY <1>2, RolledBackSlotsType
<1>5. /\ Settle(after)
      /\ seqs' = [seqs EXCEPT ![s] = [TableRolledBack(@) EXCEPT !.poisoned = TRUE]]
  BY DEF Poison
<1>6. \A b \in Blocks : \/ after[b] = released[b]
                        \/ after[b] = [released[b] EXCEPT !.sidecar = None]
  BY DEF PoisonedSlots
<1>7. DOMAIN after = Blocks /\ after = [b \in Blocks |-> after[b]]
  BY DEF PoisonedSlots
<1> HIDE DEF after, released
<1>8. \A b \in Blocks : /\ after[b] \in Slot
                        /\ after[b].owner = released[b].owner
                        /\ after[b].generation = released[b].generation
                        /\ after[b].references = released[b].references
  BY <1>4, <1>6, SidecarDropped, ZenonT(60)
<1>9. after \in [Blocks -> Slot]
  BY <1>7, <1>8
<1>10. \A b \in Blocks :
        LET freed == SlotsWithoutTail(s, seqs[s].pending.previous)[b]
        IN  /\ after[b].owner = freed.owner
            /\ after[b].generation = freed.generation
            /\ after[b].references = freed.references
  BY <1>8 DEF released
<1> QED BY <1>1, <1>2, <1>5, <1>9, <1>10, ReservationRolledBack

\* reset and close preserve the invariant.
LEMMA ResetInvariant ==
    ASSUME IInv, NEW s \in SequenceIds, Reset(s)
    PROVE  IInv'
<1> DEFINE t == TableWithoutTail(seqs[s], 0)
           q == TableReset(seqs[s])
           after == SlotsWithoutTail(s, 0)
<1>1. /\ TypeOK /\ SharedHaveReferences /\ PrivateBlocksExclusive
      /\ seqs[s] \in SequenceState
      /\ tokens' \subseteq Token /\ holds' \subseteq Handle
  BY DEF IInv, TypeOK, Reset
<1>2. \A b \in Blocks : Cardinality(SharedTail(s, 0, b)) <= slots[b].references
  BY DEF Reset
<1>3. after \in [Blocks -> Slot]
  BY <1>1, <1>2, SlotsWithoutTailFacts
<1>4. Settle(after) /\ seqs' = [seqs EXCEPT ![s] = q]
  BY DEF Reset
<1>5. /\ t \in SequenceState
      /\ t.count = SmallerOf(seqs[s].count, 0)
      /\ t.shared = SmallerOf(seqs[s].shared, 0)
      /\ \A i \in Index : t.ids[i] =
            IF i >= 0 /\ i < seqs[s].count THEN None ELSE seqs[s].ids[i]
  BY <1>1, TableWithoutTailType
<1>6. q = [t EXCEPT !.length = 0, !.pending = None, !.poisoned = FALSE]
  BY DEF TableReset
<1> HIDE DEF t, q
<1>7. /\ q \in SequenceState
      /\ q.count = SmallerOf(seqs[s].count, 0)
      /\ q.shared = SmallerOf(seqs[s].shared, 0)
      /\ q.pending = None
      /\ \A i \in Index : q.ids[i] =
            IF i >= 0 /\ i < seqs[s].count THEN None ELSE seqs[s].ids[i]
  BY <1>5, <1>6 DEF SequenceState
<1>8. \A b \in Blocks : /\ after[b].owner = SlotsWithoutTail(s, 0)[b].owner
                        /\ after[b].generation = SlotsWithoutTail(s, 0)[b].generation
                        /\ after[b].references = SlotsWithoutTail(s, 0)[b].references
  OBVIOUS
<1> HIDE DEF after
<1> QED BY <1>1, <1>2, <1>3, <1>4, <1>7, <1>8, TailReleased, ZenonT(90)

\* truncate_to preserves the invariant: it cannot reach into the shared prefix.
LEMMA TruncateToInvariant ==
    ASSUME IInv, NEW s \in SequenceIds, NEW target \in 0 .. MaxLength, TruncateTo(s, target)
    PROVE  IInv'
<1> DEFINE blocks == BlocksForLength(target)
           t == TableWithoutTail(seqs[s], blocks)
           v == FillValidTokens(t.valid, target, blocks, t.count)
           q == [t EXCEPT !.length = target, !.valid = v]
           released == SlotsWithoutTail(s, blocks)
           tail == blocks > seqs[s].shared /\ target # seqs[s].length
           after == [b \in Blocks |-> IF tail /\ seqs[s].ids[blocks - 1].index = b
                                      THEN [released[b] EXCEPT !.sidecar = None]
                                      ELSE released[b]]
<1>1. /\ TypeOK /\ SharedHaveReferences /\ PrivateBlocksExclusive
      /\ seqs[s] \in SequenceState
      /\ tokens' \subseteq Token /\ holds' \subseteq Handle
  BY DEF IInv, TypeOK, TruncateTo
<1>2. /\ target \in Nat /\ blocks \in Nat
      /\ seqs[s].pending = None
      /\ target >= seqs[s].shared * BlockSize
      /\ seqs[s].shared \in Nat
  BY <1>1, ConstantsAssumption, BlocksForLengthNat
  DEF TruncateTo, TruncatePreflight, Mutable, SequenceState
<1>3. seqs[s].shared <= blocks
  BY <1>2, FullBlocksAreNeeded
<1>4. Settle(after) /\ seqs' = [seqs EXCEPT ![s] = q]
  BY DEF TruncateTo
<1> HIDE DEF blocks
<1>5. \A b \in Blocks : Cardinality(SharedTail(s, blocks, b)) <= slots[b].references
  BY <1>1, <1>2, <1>3, KeepsSharedPrefix
<1>6. released \in [Blocks -> Slot]
  BY <1>1, <1>2, <1>5, SlotsWithoutTailFacts
<1>7. /\ t \in SequenceState
      /\ t.count = SmallerOf(seqs[s].count, blocks)
      /\ t.shared = SmallerOf(seqs[s].shared, blocks)
      /\ t.pending = seqs[s].pending
      /\ \A i \in Index : t.ids[i] =
            IF i >= blocks /\ i < seqs[s].count THEN None ELSE seqs[s].ids[i]
  BY <1>1, <1>2, TableWithoutTailType
<1> HIDE DEF t
<1>8. v \in [Index -> 0 .. BlockSize]
  <2>1. t.valid \in [Index -> 0 .. BlockSize] /\ t.count \in Nat
    BY <1>7 DEF SequenceState
  <2> QED BY <1>2, <2>1, FillValidTokensType
<1> HIDE DEF v
<1>9. /\ q \in SequenceState
      /\ q.count = SmallerOf(seqs[s].count, blocks)
      /\ q.shared = SmallerOf(seqs[s].shared, blocks)
      /\ q.pending = None
      /\ \A i \in Index : q.ids[i] =
            IF i >= blocks /\ i < seqs[s].count THEN None ELSE seqs[s].ids[i]
  BY <1>2, <1>7, <1>8 DEF SequenceState
<1> HIDE DEF q, released, tail
<1>10. \A b \in Blocks : \/ after[b] = released[b]
                         \/ after[b] = [released[b] EXCEPT !.sidecar = None]
  OBVIOUS
<1>11. \A b \in Blocks : /\ after[b] \in Slot
                         /\ after[b].owner = released[b].owner
                         /\ after[b].generation = released[b].generation
                         /\ after[b].references = released[b].references
  BY <1>6, <1>10 DEF Slot
<1>12. after \in [Blocks -> Slot]
  BY <1>11
<1>13. \A b \in Blocks : /\ after[b].owner = SlotsWithoutTail(s, blocks)[b].owner
                         /\ after[b].generation = SlotsWithoutTail(s, blocks)[b].generation
                         /\ after[b].references = SlotsWithoutTail(s, blocks)[b].references
  BY <1>11 DEF released
<1> HIDE DEF after
<1> QED BY <1>1, <1>2, <1>4, <1>5, <1>9, <1>12, <1>13, TailReleased, ZenonT(90)

-----------------------------------------------------------------------------
(* Steps that move no block. *)

\* Exclusive ownership survives a step that leaves private blocks alone.
LEMMA PrivateUnchanged ==
    ASSUME TypeOK, PrivateBlocksExclusive,
           \A b \in Blocks : \A r \in SequenceIds :
                /\ slots'[b].owner = r <=> slots[b].owner = r
                /\ slots[b].owner = r => slots'[b].generation = slots[b].generation,
           \A r \in SequenceIds :
                /\ Private(r)' = Private(r)
                /\ \A i \in Private(r) : seqs'[r].ids[i] = seqs[r].ids[i]
    PROVE  PrivateBlocksExclusive'
<1>1. ASSUME NEW r \in SequenceIds, NEW i \in Private(r)
      PROVE  ValidBlock(seqs[r].ids[i], r)'
  <2> DEFINE h == seqs[r].ids[i]
  <2>1. ValidBlock(h, r) /\ i \in Index
    BY <1>1 DEF PrivateBlocksExclusive, Private, Held
  <2>2. h \in Handle
    BY <2>1 DEF TypeOK, SequenceState, ValidBlock
  <2>3. h.index \in Blocks /\ seqs'[r].ids[i] = h
    BY <1>1, <2>2 DEF Handle
  <2>4. slots[h.index].owner = r /\ slots[h.index].generation = h.generation /\ h # None
    BY <2>1 DEF ValidBlock
  <2> HIDE DEF h
  <2>5. slots'[h.index].owner = r /\ slots'[h.index].generation = h.generation
    BY <2>3, <2>4
  <2> QED BY <2>3, <2>4, <2>5 DEF ValidBlock
<1>2. \A r \in SequenceIds : \A i \in Private(r)' :
            /\ ValidBlock(seqs[r].ids[i], r)'
            /\ \A j \in Private(r)' : seqs'[r].ids[i].index = seqs'[r].ids[j].index => i = j
  BY <1>1 DEF PrivateBlocksExclusive
<1>3. \A b \in Blocks : \A r \in SequenceIds :
            slots'[b].owner = r => \E i \in Private(r)' : seqs'[r].ids[i].index = b
  BY DEF PrivateBlocksExclusive
<1> QED BY <1>2, <1>3 DEF PrivateBlocksExclusive

\* A step that keeps owners, leases and tables keeps the invariant.
LEMMA OwnershipUnchanged ==
    ASSUME IInv, free' = free, allocated' = allocated,
           slots' \in [Blocks -> Slot],
           \A b \in Blocks : /\ slots'[b].owner = slots[b].owner
                             /\ slots'[b].references = slots[b].references
                             /\ slots[b].owner # None =>
                                    slots'[b].generation = slots[b].generation,
           seqs' \in [SequenceIds -> SequenceState],
           \A r \in SequenceIds : /\ seqs'[r].ids = seqs[r].ids
                                  /\ seqs'[r].count = seqs[r].count
                                  /\ seqs'[r].shared = seqs[r].shared
                                  /\ seqs'[r].pending \in {None, seqs[r].pending},
           tokens' \subseteq Token, holds' \subseteq Handle
    PROVE  IInv'
<1> USE DEF IInv
<1>1. TypeOK'
  BY DEF TypeOK
<1>2. FreeListExact' /\ AccountingExact'
  BY DEF FreeListExact, AccountingExact
<1>3. SharedHaveReferences'
  BY DEF SharedHaveReferences
<1>4. TablesBounded'
  BY DEF TablesBounded
<1>5. \A r \in SequenceIds : Private(r)' = Private(r)
  BY DEF Private, Held
<1>6. PrivateBlocksExclusive'
  BY <1>5, ConstantsAssumption, PrivateUnchanged
<1> QED BY <1>1, <1>2, <1>3, <1>4, <1>6

\* create_sequence starts from an empty table.
LEMMA CreateSequenceInvariant ==
    ASSUME IInv, NEW s \in SequenceIds, NEW maximum \in MaximumLengths, CreateSequence(s, maximum)
    PROVE  IInv'
<1>1. /\ slots \in [Blocks -> Slot] /\ seqs \in [SequenceIds -> SequenceState]
      /\ tokens \subseteq Token /\ holds \subseteq Handle
      /\ maximum \in 0 .. MaxLength
  BY ConstantsAssumption DEF IInv, TypeOK
<1>2. seqs' = [seqs EXCEPT ![s] = [seqs[s] EXCEPT !.phase = "live", !.maximum = maximum]]
  BY <1>1 DEF CreateSequence, SequenceState
<1>3. [seqs[s] EXCEPT !.phase = "live", !.maximum = maximum] \in SequenceState
  BY <1>1, ZenonT(60) DEF SequenceState
<1>4. seqs' \in [SequenceIds -> SequenceState]
  BY <1>1, <1>2, <1>3
<1>5. \A r \in SequenceIds : /\ seqs'[r].ids = seqs[r].ids
                             /\ seqs'[r].count = seqs[r].count
                             /\ seqs'[r].shared = seqs[r].shared
                             /\ seqs'[r].pending = seqs[r].pending
  BY <1>1, <1>2 DEF SequenceState
<1> QED BY <1>1, <1>4, <1>5, OwnershipUnchanged DEF CreateSequence

\* abandon_for_reclaim keeps the table as the reclaim token.
LEMMA AbandonForReclaimInvariant ==
    ASSUME IInv, NEW s \in SequenceIds, AbandonForReclaim(s)
    PROVE  IInv'
<1>1. /\ slots \in [Blocks -> Slot] /\ seqs \in [SequenceIds -> SequenceState]
      /\ tokens \subseteq Token /\ holds \subseteq Handle
  BY DEF IInv, TypeOK
<1>2. seqs' = [seqs EXCEPT ![s] = [seqs[s] EXCEPT !.phase = "orphan"]]
  BY <1>1 DEF AbandonForReclaim, SequenceState
<1>3. [seqs[s] EXCEPT !.phase = "orphan"] \in SequenceState
  BY <1>1, ZenonT(60) DEF SequenceState
<1>4. seqs' \in [SequenceIds -> SequenceState]
  BY <1>1, <1>2, <1>3
<1>5. \A r \in SequenceIds : /\ seqs'[r].ids = seqs[r].ids
                             /\ seqs'[r].count = seqs[r].count
                             /\ seqs'[r].shared = seqs[r].shared
                             /\ seqs'[r].pending = seqs[r].pending
  BY <1>1, <1>2 DEF SequenceState
<1> QED BY <1>1, <1>4, <1>5, OwnershipUnchanged DEF AbandonForReclaim

\* commit keeps the blocks and ends the reservation.
LEMMA CommitInvariant ==
    ASSUME IInv, NEW s \in SequenceIds, NEW t \in tokens, Commit(s, t)
    PROVE  IInv'
<1>1. /\ slots \in [Blocks -> Slot] /\ seqs \in [SequenceIds -> SequenceState]
      /\ tokens' \subseteq Token /\ holds' \subseteq Handle
      /\ free' = free /\ allocated' = allocated
  BY DEF IInv, TypeOK, Commit
<1>2. t.target \in Nat
  BY DEF IInv, TypeOK, Token
<1>3. slots' = WithoutSidecars(s, Written(s))
  BY DEF Commit
<1>4. \A b \in Blocks : \/ slots'[b] = slots[b]
                        \/ slots'[b] = [slots[b] EXCEPT !.sidecar = None]
  BY <1>3 DEF WithoutSidecars
<1>5. slots' = [b \in Blocks |-> slots'[b]]
  BY <1>3 DEF WithoutSidecars
<1>6. \A b \in Blocks : /\ slots'[b] \in Slot
                        /\ slots'[b].owner = slots[b].owner
                        /\ slots'[b].references = slots[b].references
                        /\ slots'[b].generation = slots[b].generation
  BY <1>1, <1>4, SidecarDropped, ZenonT(60)
<1>7. slots' \in [Blocks -> Slot]
  BY <1>5, <1>6
<1>8. seqs' = [seqs EXCEPT ![s] = [seqs[s] EXCEPT !.pending = None, !.length = t.target]]
  BY <1>1 DEF Commit, SequenceState
<1>9. [seqs[s] EXCEPT !.pending = None, !.length = t.target] \in SequenceState
  BY <1>1, <1>2, ZenonT(60) DEF SequenceState
<1>10. seqs' \in [SequenceIds -> SequenceState]
  BY <1>1, <1>8, <1>9
<1>11. \A r \in SequenceIds : /\ seqs'[r].ids = seqs[r].ids
                              /\ seqs'[r].count = seqs[r].count
                              /\ seqs'[r].shared = seqs[r].shared
                              /\ seqs'[r].pending \in {None, seqs[r].pending}
  BY SMTT(30), <1>1, <1>8 DEF SequenceState
<1> QED BY <1>1, <1>6, <1>7, <1>10, <1>11, OwnershipUnchanged

\* attach_sidecar changes metadata only.
LEMMA AttachSidecarInvariant ==
    ASSUME IInv, NEW s \in SequenceIds, NEW i \in Index, AttachSidecar(s, i)
    PROVE  IInv'
<1> DEFINE h == seqs[s].ids[i]
<1>1. /\ slots \in [Blocks -> Slot] /\ seqs \in [SequenceIds -> SequenceState]
      /\ tokens \subseteq Token /\ holds \subseteq Handle
  BY DEF IInv, TypeOK
<1>2. h \in Handle /\ seqs[s].valid[i] \in 0 .. BlockSize
  BY <1>1 DEF SequenceState, AttachSidecar, ValidBlock
<1>3. slots' = [slots EXCEPT ![h.index].sidecar = seqs[s].valid[i]] /\ h.index \in Blocks
  BY <1>2 DEF AttachSidecar, Handle
<1> HIDE DEF h
<1>4. \A b \in Blocks : /\ slots'[b] \in Slot
                        /\ slots'[b].owner = slots[b].owner
                        /\ slots'[b].references = slots[b].references
                        /\ slots'[b].generation = slots[b].generation
  BY <1>1, <1>2, <1>3 DEF Slot
<1>5. slots' \in [Blocks -> Slot]
  BY <1>1, <1>3, <1>4
<1> QED BY <1>1, <1>4, <1>5, OwnershipUnchanged DEF AttachSidecar

\* A failed reserve_to advances the generation of free blocks only.
LEMMA ReserveExhaustedInvariant ==
    ASSUME IInv, NEW s \in SequenceIds, NEW target \in 0 .. MaxLength, ReserveExhausted(s, target)
    PROVE  IInv'
<1>1. /\ slots \in [Blocks -> Slot] /\ seqs \in [SequenceIds -> SequenceState]
      /\ tokens \subseteq Token /\ holds \subseteq Handle
      /\ free \subseteq Blocks
  BY DEF IInv, TypeOK
<1>2. PICK new \in FreshBlocks(seqs[s].count, BlocksForLength(target)), last \in Index :
        /\ last \in DOMAIN new
        /\ \A i \in DOMAIN new : i < last => slots[new[i]].generation < MaxGeneration
        /\ slots' = [b \in Blocks |->
                        IF \E i \in DOMAIN new : i < last /\ new[i] = b
                        THEN [slots[b] EXCEPT !.generation = @ + 1]
                        ELSE slots[b]]
  BY DEF ReserveExhausted
<1>3. \A i \in DOMAIN new : new[i] \in free
  BY DEF FreshBlocks
<1>4. ASSUME NEW b \in Blocks
      PROVE  /\ slots'[b] \in Slot
             /\ slots'[b].owner = slots[b].owner
             /\ slots'[b].references = slots[b].references
             /\ slots[b].owner # None => slots'[b].generation = slots[b].generation
  <2>1. CASE \E i \in DOMAIN new : i < last /\ new[i] = b
    <3>1. slots'[b] = [slots[b] EXCEPT !.generation = @ + 1]
      BY <1>2, <2>1
    <3>2. b \in free /\ slots[b].generation < MaxGeneration
      BY <1>2, <1>3, <2>1
    <3>3. slots[b].owner = None
      BY <3>2 DEF IInv, FreeListExact
    <3> QED BY <1>1, <3>1, <3>2, <3>3, ConstantsAssumption DEF Slot
  <2>2. CASE ~\E i \in DOMAIN new : i < last /\ new[i] = b
    BY <1>1, <1>2, <2>2
  <2> QED BY <2>1, <2>2
<1>5. slots' \in [Blocks -> Slot]
  BY <1>2, <1>4
<1> QED BY <1>1, <1>4, <1>5, OwnershipUnchanged DEF ReserveExhausted

-----------------------------------------------------------------------------
(* Shared blocks. *)

\* The record of a sequence id before create_sequence and after reclaim_sequence.
LEMMA UnbornType ==
    /\ Unborn \in SequenceState
    /\ [Unborn EXCEPT !.phase = "gone"] \in SequenceState
    /\ LET q == [Unborn EXCEPT !.phase = "gone"]
       IN  /\ q.count = 0 /\ q.shared = 0 /\ q.pending = None
           /\ \A i \in Index : q.ids[i] = None
<1> DEFINE ids == [i \in Index |-> None]
           valid == [i \in Index |-> 0]
<1>1. ids \in [Index -> Handle \cup {None}] /\ valid \in [Index -> 0 .. BlockSize]
  BY ConstantsAssumption
<1>2. 0 \in 0 .. MaxLength /\ 1 \in 1 .. MaxNonce + 1 /\ 0 \in Nat /\ FALSE \in BOOLEAN
  BY ConstantsAssumption
<1>3. \A i \in Index : ids[i] = None
  OBVIOUS
<1>4. Unborn = [phase |-> "unborn", maximum |-> 0, ids |-> ids, valid |-> valid,
                count |-> 0, shared |-> 0, length |-> 0, nonce |-> 1,
                pending |-> None, poisoned |-> FALSE]
  BY DEF Unborn
<1> HIDE DEF ids, valid
<1> QED BY <1>1, <1>2, <1>3, <1>4 DEF SequenceState

\* What a sequence owns is the private part of its table: a scan for the owner
\* finds the blocks that giving back the whole table would release.
LEMMA OwnedIsPrivateTail ==
    ASSUME TypeOK, PrivateBlocksExclusive, NEW s \in SequenceIds
    PROVE  \A b \in Blocks : b \in PrivateTail(s, 0) <=> slots[b].owner = s
<1>1. ASSUME NEW b \in Blocks, b \in PrivateTail(s, 0) PROVE slots[b].owner = s
  <2>1. PICK i \in Index : /\ i >= seqs[s].shared /\ i < seqs[s].count
                           /\ seqs[s].ids[i].index = b
    BY <1>1 DEF PrivateTail
  <2>2. i \in Private(s)
    BY <2>1 DEF Private, Held
  <2> QED BY <2>1, <2>2 DEF PrivateBlocksExclusive, ValidBlock
<1>2. ASSUME NEW b \in Blocks, slots[b].owner = s PROVE b \in PrivateTail(s, 0)
  <2>1. PICK i \in Private(s) : seqs[s].ids[i].index = b
    BY <1>2 DEF PrivateBlocksExclusive
  <2>2. i \in Index /\ i >= seqs[s].shared /\ i < seqs[s].count
    BY DEF Private, Held
  <2>3. i >= 0
    BY <2>2, IndexFinite
  <2> QED BY <2>1, <2>2, <2>3 DEF PrivateTail
<1> QED BY <1>1, <1>2

\* reclaim_sequence frees what the scan for the owner finds: the private blocks.
LEMMA ReclaimSequenceInvariant ==
    ASSUME IInv, NEW s \in SequenceIds, ReclaimSequence(s)
    PROVE  IInv'
<1> DEFINE after == [b \in Blocks |->
                        IF slots[b].owner = s
                        THEN Released(slots[b])
                        ELSE DropReferences(slots[b], Cardinality(SharedTail(s, 0, b)))]
           q == [Unborn EXCEPT !.phase = "gone"]
<1>1. /\ TypeOK /\ SharedHaveReferences /\ PrivateBlocksExclusive /\ TablesBounded
      /\ seqs[s] \in SequenceState
      /\ tokens' \subseteq Token /\ holds' \subseteq Handle
  BY DEF IInv, TypeOK, ReclaimSequence
<1>2. \A b \in Blocks : Cardinality(SharedTail(s, 0, b)) <= slots[b].references
  BY DEF ReclaimSequence
<1>3. Settle(after) /\ seqs' = [seqs EXCEPT ![s] = q]
  BY DEF ReclaimSequence
<1>4. \A b \in Blocks : b \in PrivateTail(s, 0) <=> slots[b].owner = s
  BY <1>1, OwnedIsPrivateTail
<1>5. after = SlotsWithoutTail(s, 0)
  BY <1>4 DEF SlotsWithoutTail
<1>6. SlotsWithoutTail(s, 0) \in [Blocks -> Slot]
  BY <1>1, <1>2, SlotsWithoutTailFacts
<1> HIDE DEF after
<1>7. seqs[s].count \in Nat /\ seqs[s].shared \in Nat
  BY <1>1 DEF SequenceState
<1>8. /\ q \in SequenceState /\ q.count = 0 /\ q.shared = 0 /\ q.pending = None
      /\ \A i \in Index : q.ids[i] = None
  BY UnbornType
<1>9. /\ q.count = SmallerOf(seqs[s].count, 0)
      /\ q.shared = SmallerOf(seqs[s].shared, 0)
  BY <1>7, <1>8 DEF SmallerOf
<1>10. \A i \in Index : q.ids[i] =
            IF i >= 0 /\ i < seqs[s].count THEN None ELSE seqs[s].ids[i]
  <2> TAKE i \in Index
  <2>1. i \in Nat /\ (i >= seqs[s].count => seqs[s].ids[i] = None)
    BY <1>1, IndexFinite DEF TablesBounded
  <2> QED BY <1>7, <1>8, <2>1
<1> HIDE DEF q
<1>11. \A b \in Blocks : /\ after[b].owner = SlotsWithoutTail(s, 0)[b].owner
                         /\ after[b].generation = SlotsWithoutTail(s, 0)[b].generation
                         /\ after[b].references = SlotsWithoutTail(s, 0)[b].references
  BY <1>5
<1>12. after \in [Blocks -> Slot]
  BY <1>5, <1>6
<1> QED BY <1>1, <1>2, <1>3, <1>8, <1>9, <1>10, <1>11, <1>12, TailReleased, ZenonT(90)

\* release_shared_block frees the block exactly with its last reference.
LEMMA ReleaseSharedBlockInvariant ==
    ASSUME IInv, NEW h \in holds, ReleaseSharedBlock(h)
    PROVE  IInv'
<1> DEFINE c == h.index
           after == [slots EXCEPT ![c] = DropReferences(@, 1)]
<1> USE DEF IInv
<1>1. /\ slots \in [Blocks -> Slot] /\ tokens' \subseteq Token /\ holds' \subseteq Handle
      /\ seqs' = seqs /\ Settle(after) /\ c \in Blocks
  BY DEF TypeOK, ReleaseSharedBlock, Handle
<1>2. slots[c] \in Slot /\ slots[c].references > 0 /\ slots[c].owner = SharedOwner
  BY <1>1 DEF ReleaseSharedBlock, ValidShared, SharedHaveReferences
<1>3. DOMAIN after = Blocks /\ after[c] = DropReferences(slots[c], 1)
      /\ \A b \in Blocks : b # c => after[b] = slots[b]
  BY <1>1
<1> HIDE DEF after, c
<1>4. /\ after[c] \in Slot
      /\ after[c].owner \in {None, SharedOwner}
      /\ after[c].owner = SharedOwner <=> after[c].references > 0
  <2> DEFINE less == [slots[c] EXCEPT !.references = slots[c].references - 1]
  <2>1. /\ less \in Slot /\ less.owner = SharedOwner
        /\ less.references = slots[c].references - 1
    BY <1>2 DEF Slot
  <2>2. CASE slots[c].references = 1
    <3>1. after[c] = Released(less)
      <4> DEFINE k == 1
      <4>1. /\ after[c] = DropReferences(slots[c], k) /\ k > 0 /\ slots[c].references = k
            /\ less = [slots[c] EXCEPT !.references = slots[c].references - k]
        BY <1>3, <2>2
      <4> HIDE DEF k, less
      <4> QED BY <4>1 DEF DropReferences
    <3> HIDE DEF less
    <3>2. less.references = 0
      BY <2>1, <2>2
    <3>3. after[c] = [less EXCEPT !.owner = None, !.sidecar = None]
      BY <3>1 DEF Released
    <3>4. after[c] \in Slot /\ after[c].owner = None /\ after[c].references = 0
      BY <2>1, <3>2, <3>3 DEF Slot
    <3> QED BY <3>4, ConstantsAssumption
  <2>3. CASE slots[c].references # 1
    <3>1. after[c] = less
      BY <1>3, <2>3 DEF DropReferences
    <3>2. slots[c].references \in Nat
      BY <1>2 DEF Slot
    <3> HIDE DEF less
    <3> QED BY <1>2, <2>1, <2>3, <3>1, <3>2
  <2> QED BY <2>2, <2>3
<1>5. \A b \in Blocks : after[b] \in Slot
  BY <1>1, <1>3, <1>4
<1>6. after \in [Blocks -> Slot]
  <2>1. after = [b \in Blocks |-> after[b]]
    BY <1>1, <1>3 DEF after
  <2> QED BY <1>5, <2>1
<1>7. \A b \in Blocks : after[b].owner # None => after[b].owner = slots[b].owner
  BY <1>2, <1>3, <1>4
<1>8. free' \subseteq Blocks /\ allocated' \in Nat /\ FreeListExact' /\ AccountingExact'
  BY <1>1, <1>6, <1>7, SettleExact
<1>9. slots' = after
  BY <1>1 DEF Settle
<1>10. TypeOK'
  BY <1>1, <1>6, <1>8, <1>9 DEF TypeOK
<1>11. SharedHaveReferences'
  BY <1>3, <1>4, <1>9 DEF SharedHaveReferences
<1>12. TablesBounded'
  BY <1>1 DEF TablesBounded
<1>13. \A r \in SequenceIds : Private(r)' = Private(r)
  BY <1>1 DEF Private, Held
<1>14. \A b \in Blocks : \A r \in SequenceIds :
            /\ slots'[b].owner = r <=> slots[b].owner = r
            /\ slots[b].owner = r => slots'[b].generation = slots[b].generation
  BY <1>2, <1>3, <1>4, <1>9, ConstantsAssumption
<1>15. PrivateBlocksExclusive'
  BY <1>1, <1>13, <1>14, PrivateUnchanged
<1> QED BY <1>8, <1>10, <1>11, <1>12, <1>15

\* adopt_shared_block takes one more reference; no private block is involved.
LEMMA AdoptSharedBlockInvariant ==
    ASSUME IInv, NEW s \in SequenceIds, NEW h \in Handle, AdoptSharedBlock(s, h)
    PROVE  IInv'
<1> DEFINE i == seqs[s].count
           q == [seqs[s] EXCEPT !.ids[i] = h, !.valid[i] = BlockSize,
                                !.count = i + 1, !.shared = i + 1,
                                !.length = (i + 1) * BlockSize]
           c == h.index
<1> USE DEF IInv
<1>1. /\ slots \in [Blocks -> Slot] /\ seqs \in [SequenceIds -> SequenceState]
      /\ tokens' \subseteq Token /\ holds' \subseteq Handle
      /\ free' = free /\ allocated' = allocated
      /\ seqs[s] \in SequenceState
  BY DEF TypeOK, AdoptSharedBlock
<1>2. /\ slots' = [slots EXCEPT ![c].references = @ + 1]
      /\ seqs' = [seqs EXCEPT ![s] = q]
  BY DEF AdoptSharedBlock
<1>3. c \in Blocks /\ slots[c] \in Slot /\ slots[c].references > 0
  BY <1>1 DEF AdoptSharedBlock, AdoptPreflight, ValidShared, Handle
<1>4. /\ i \in Nat /\ seqs[s].shared = i /\ seqs[s].pending = None
      /\ i < BlocksForLength(seqs[s].maximum) /\ seqs[s].maximum \in 0 .. MaxLength
  BY <1>1 DEF AdoptSharedBlock, AdoptPreflight, Mutable, SequenceState
<1>5. i < BlocksForLength(MaxLength) /\ i \in Index
  <2>1. seqs[s].maximum \in Nat /\ seqs[s].maximum <= MaxLength /\ MaxLength \in Nat
    BY <1>4, ConstantsAssumption
  <2>2. /\ BlocksForLength(seqs[s].maximum) <= BlocksForLength(MaxLength)
        /\ BlocksForLength(seqs[s].maximum) \in Nat /\ BlocksForLength(MaxLength) \in Nat
    BY <2>1, BlocksForLengthMonotone, BlocksForLengthNat
  <2> QED BY <1>4, <2>2 DEF Index
<1> HIDE DEF c
<1>6. \A b \in Blocks : /\ slots'[b] \in Slot
                        /\ slots'[b].owner = slots[b].owner
                        /\ slots'[b].generation = slots[b].generation
                        /\ b # c => slots'[b] = slots[b]
  BY <1>1, <1>2, <1>3 DEF Slot
<1>7. slots'[c].references = slots[c].references + 1 /\ slots[c].references \in Nat
  BY <1>1, <1>2, <1>3 DEF Slot
<1>8. slots' \in [Blocks -> Slot]
  BY <1>1, <1>2, <1>6
<1>9. /\ q \in SequenceState
      /\ q.count = i + 1 /\ q.shared = i + 1 /\ q.pending = None
      /\ \A j \in Index : j # i => q.ids[j] = seqs[s].ids[j]
  <2>1. (i + 1) * BlockSize \in Nat /\ i + 1 \in Nat /\ BlockSize \in 0 .. BlockSize
    BY <1>4, ConstantsAssumption
  <2>2. /\ [seqs[s].ids EXCEPT ![i] = h] \in [Index -> Handle \cup {None}]
        /\ [seqs[s].valid EXCEPT ![i] = BlockSize] \in [Index -> 0 .. BlockSize]
        /\ \A j \in Index : j # i => [seqs[s].ids EXCEPT ![i] = h][j] = seqs[s].ids[j]
    BY <1>1, <2>1 DEF SequenceState
  <2> DEFINE ids == [seqs[s].ids EXCEPT ![i] = h]
             valid == [seqs[s].valid EXCEPT ![i] = BlockSize]
             length == (i + 1) * BlockSize
             next == i + 1
  <2>3. q = [seqs[s] EXCEPT !.ids = ids, !.valid = valid, !.count = next,
                            !.shared = next, !.length = length]
    BY <1>1 DEF SequenceState
  <2>4. /\ length \in Nat /\ next \in Nat
        /\ ids \in [Index -> Handle \cup {None}] /\ valid \in [Index -> 0 .. BlockSize]
        /\ \A j \in Index : j # i => ids[j] = seqs[s].ids[j]
    BY <2>1, <2>2
  <2> HIDE DEF ids, valid, length, q
  <2>5. /\ q \in SequenceState /\ q.count = next /\ q.shared = next
        /\ q.ids = ids /\ q.pending = seqs[s].pending
    BY <1>1, <2>3, <2>4 DEF SequenceState
  <2> QED BY <1>4, <2>4, <2>5
<1> HIDE DEF q
<1>10. seqs'[s] = q /\ \A r \in SequenceIds : r # s => seqs'[r] = seqs[r]
  BY <1>1, <1>2
<1>11. seqs' \in [SequenceIds -> SequenceState]
  BY <1>1, <1>2, <1>9
<1> HIDE DEF i
<1>12. TypeOK'
  <2>1. seqs'[s].shared <= seqs'[s].count /\ seqs'[s].count <= BlocksForLength(MaxLength)
    BY <1>4, <1>5, <1>9, <1>10, ConstantsAssumption, BlocksForLengthNat
  <2>2. \A r \in SequenceIds : /\ seqs'[r].shared <= seqs'[r].count
                               /\ seqs'[r].count <= BlocksForLength(MaxLength)
    BY <1>10, <2>1 DEF TypeOK
  <2>3. free' \subseteq Blocks /\ allocated' \in Nat
    BY <1>1 DEF TypeOK
  <2> QED BY <1>1, <1>8, <1>11, <2>2, <2>3 DEF TypeOK
<1>13. FreeListExact' /\ AccountingExact'
  BY <1>1, <1>6 DEF FreeListExact, AccountingExact
<1>14. SharedHaveReferences'
  <2>1. slots[c].owner = SharedOwner /\ slots'[c].owner = SharedOwner
    BY <1>3, <1>6 DEF SharedHaveReferences
  <2>2. slots'[c].references > 0
    BY <1>7
  <2> QED BY <1>6, <2>1, <2>2 DEF SharedHaveReferences
<1>15. TablesBounded'
  <2>1. \A j \in Index : j >= i + 1 => q.ids[j] = None
    <3> TAKE j \in Index
    <3> HAVE j >= i + 1
    <3>1. j >= i /\ j # i
      BY <1>4, IndexFinite
    <3> QED BY <1>9, <3>1 DEF TablesBounded, i
  <2> QED BY <1>9, <1>10, <2>1 DEF TablesBounded
<1>16. ASSUME NEW r \in SequenceIds
       PROVE  /\ Private(r)' = Private(r)
              /\ \A j \in Private(r) : seqs'[r].ids[j] = seqs[r].ids[j]
  <2>1. CASE r # s
    BY <1>10, <2>1 DEF Private, Held
  <2>2. CASE r = s
    <3>1. Private(s) = {}
      <4> SUFFICES ASSUME NEW j \in Private(s) PROVE FALSE
        OBVIOUS
      <4>1. j \in Nat /\ j < i /\ j >= i
        BY <1>4, IndexFinite DEF Private, Held, i
      <4> QED BY <1>4, <4>1
    <3>2. Private(s)' = {}
      <4> SUFFICES ASSUME NEW j \in Private(s)' PROVE FALSE
        OBVIOUS
      <4>1. j \in Nat /\ j < i + 1 /\ j >= i + 1
        BY <1>9, <1>10, IndexFinite DEF Private, Held
      <4> QED BY <1>4, <4>1
    <3> QED BY <2>2, <3>1, <3>2
  <2> QED BY <2>1, <2>2
<1>17. PrivateBlocksExclusive'
  BY <1>6, <1>16, PrivateUnchanged
<1> QED BY <1>12, <1>13, <1>14, <1>15, <1>17

\* share_next_block gives up the ownership of one private block, and of no other.
LEMMA ShareNextBlockInvariant ==
    ASSUME IInv, NEW s \in SequenceIds, ShareNextBlock(s)
    PROVE  IInv'
<1> DEFINE i == seqs[s].shared
           h == seqs[s].ids[i]
           c == h.index
           q == [seqs[s] EXCEPT !.shared = i + 1]
<1> USE DEF IInv
<1>1. /\ slots \in [Blocks -> Slot] /\ seqs \in [SequenceIds -> SequenceState]
      /\ tokens' \subseteq Token
      /\ free' = free /\ allocated' = allocated
      /\ seqs[s] \in SequenceState
  BY DEF TypeOK, ShareNextBlock
<1>2. /\ slots' = [slots EXCEPT ![c] = SharedSlot(@)]
      /\ seqs' = [seqs EXCEPT ![s] = q]
      /\ holds' = holds \cup {h}
  BY <1>1 DEF ShareNextBlock, SequenceState
<1>3. i \in Index /\ ValidBlock(h, s) /\ seqs[s].pending = None
  BY DEF ShareNextBlock, Mutable
<1>4. h \in Handle /\ c \in Blocks /\ slots[c] \in Slot /\ slots[c].owner = s
  <2>1. h # None /\ slots[c].owner = s
    BY <1>3 DEF ValidBlock
  <2>2. h \in Handle
    BY <1>1, <1>3, <2>1 DEF SequenceState
  <2> QED BY <1>1, <2>1, <2>2 DEF Handle
<1>5. /\ i \in Nat /\ seqs[s].count \in Nat /\ i < seqs[s].count
      /\ i \in Private(s)
  <2>1. i \in Nat /\ seqs[s].count \in Nat
    BY <1>1 DEF SequenceState
  <2>2. ~(i >= seqs[s].count)
    BY <1>3 DEF TablesBounded, ValidBlock
  <2>3. i < seqs[s].count /\ i >= i
    BY <2>1, <2>2
  <2> QED BY <1>3, <2>1, <2>3 DEF Private, Held
<1>6. \A j \in Private(s) : seqs[s].ids[j].index = c => j = i
  BY <1>5 DEF PrivateBlocksExclusive
<1>7. q \in SequenceState /\ q.shared = i + 1 /\ q.count = seqs[s].count
      /\ q.pending = None /\ q.ids = seqs[s].ids
  <2> DEFINE next == i + 1
  <2>1. next \in Nat /\ q = [seqs[s] EXCEPT !.shared = next]
    BY <1>5
  <2>2. seqs[s].pending = None
    BY <1>3
  <2> HIDE DEF next
  <2>3. /\ q \in SequenceState /\ q.shared = next /\ q.count = seqs[s].count
        /\ q.pending = seqs[s].pending /\ q.ids = seqs[s].ids
    BY <1>1, <2>1, SMTT(60) DEF SequenceState
  <2> QED BY <2>2, <2>3 DEF next
<1> HIDE DEF q
<1>8. seqs'[s] = q /\ \A r \in SequenceIds : r # s => seqs'[r] = seqs[r]
  BY <1>1, <1>2
<1>9. seqs' \in [SequenceIds -> SequenceState]
  BY <1>1, <1>2, <1>7
<1>10. holds' \subseteq Handle
  BY <1>2, <1>4 DEF TypeOK
<1> HIDE DEF c
<1>11. /\ slots'[c] \in Slot /\ slots'[c].owner = SharedOwner
       /\ slots'[c].references = 2
       /\ \A b \in Blocks : b # c => slots'[b] = slots[b]
  <2>1. slots'[c] = [slots[c] EXCEPT !.owner = SharedOwner, !.references = 2, !.sidecar = None]
    BY <1>1, <1>2, <1>4 DEF SharedSlot
  <2>2. \A b \in Blocks : b # c => slots'[b] = slots[b]
    BY <1>1, <1>2, <1>4
  <2>3. SharedOwner \in SequenceIds \cup {None, SharedOwner} /\ 2 \in Nat
    OBVIOUS
  <2>4. slots'[c] \in Slot
    BY <1>4, <2>1, <2>3 DEF Slot
  <2>5. slots'[c].owner = SharedOwner /\ slots'[c].references = 2
    BY <1>4, <2>1 DEF Slot
  <2> QED BY <2>2, <2>4, <2>5
<1>12. slots' \in [Blocks -> Slot]
  BY <1>1, <1>2, <1>11
<1>13. TypeOK'
  <2>1. seqs'[s].shared <= seqs'[s].count /\ seqs'[s].count <= BlocksForLength(MaxLength)
    BY <1>5, <1>7, <1>8 DEF TypeOK
  <2>2. \A r \in SequenceIds : /\ seqs'[r].shared <= seqs'[r].count
                               /\ seqs'[r].count <= BlocksForLength(MaxLength)
    BY <1>8, <2>1 DEF TypeOK
  <2>3. free' \subseteq Blocks /\ allocated' \in Nat
    BY <1>1 DEF TypeOK
  <2> QED BY <1>1, <1>9, <1>10, <1>12, <2>2, <2>3 DEF TypeOK
<1>14. FreeListExact'
  <2>1. c \notin free /\ slots'[c].owner # None
    BY <1>4, <1>11, ConstantsAssumption DEF FreeListExact
  <2> QED BY <1>1, <1>11, <2>1 DEF FreeListExact
<1>15. AccountingExact'
  BY <1>1 DEF AccountingExact
<1>16. SharedHaveReferences'
  <2>1. slots'[c].references > 0
    BY <1>11
  <2> QED BY <1>11, <2>1 DEF SharedHaveReferences
<1>17. TablesBounded'
  BY <1>7, <1>8 DEF TablesBounded
<1>18. ASSUME NEW r \in SequenceIds, NEW j \in Private(r)'
       PROVE  /\ j \in Private(r) /\ seqs'[r].ids[j] = seqs[r].ids[j]
              /\ r = s => j # i
  <2>1. CASE r # s
    BY <1>8, <1>18, <2>1 DEF Private, Held
  <2>2. CASE r = s
    <3>1. j \in Index /\ j < seqs[s].count /\ j >= i + 1
      BY <1>7, <1>8, <1>18, <2>2 DEF Private, Held
    <3>2. j \in Nat /\ j >= i /\ j # i
      BY <1>5, <3>1, IndexFinite
    <3> QED BY <1>7, <1>8, <2>2, <3>1, <3>2 DEF Private, Held
  <2> QED BY <2>1, <2>2
<1>19. ASSUME NEW r \in SequenceIds, NEW j \in Private(r)'
       PROVE  ValidBlock(seqs[r].ids[j], r)'
  <2> DEFINE g == seqs[r].ids[j]
  <2>1. j \in Private(r) /\ seqs'[r].ids[j] = g /\ (r = s => j # i)
    BY <1>18, <1>19
  <2>2. j \in Index /\ ValidBlock(g, r)
    BY <2>1 DEF PrivateBlocksExclusive, Private, Held
  <2>3. g \in Handle /\ g.index \in Blocks
    BY <1>1, <2>2 DEF SequenceState, ValidBlock, Handle
  <2>4. g.index # c
    <3>1. CASE r # s
      BY <1>4, <2>2, <3>1 DEF ValidBlock
    <3>2. CASE r = s
      BY <1>6, <2>1, <3>2
    <3> QED BY <3>1, <3>2
  <2> HIDE DEF g
  <2>5. slots'[g.index] = slots[g.index]
    BY <1>11, <2>3, <2>4
  <2> QED BY <2>1, <2>2, <2>5 DEF ValidBlock
<1>20. \A r \in SequenceIds : \A j, k \in Private(r)' :
            seqs'[r].ids[j].index = seqs'[r].ids[k].index => j = k
  BY <1>18 DEF PrivateBlocksExclusive
<1>21. ASSUME NEW b \in Blocks, NEW r \in SequenceIds, slots'[b].owner = r
       PROVE  \E j \in Private(r)' : seqs'[r].ids[j].index = b
  <2>1. b # c /\ slots[b].owner = r
    BY <1>11, <1>21, ConstantsAssumption
  <2>2. PICK j \in Private(r) : seqs[r].ids[j].index = b
    BY <2>1 DEF PrivateBlocksExclusive
  <2>3. CASE r # s
    BY <1>8, <2>2, <2>3 DEF Private, Held
  <2>4. CASE r = s
    <3>1. j # i /\ j \in Index /\ j >= i /\ j < seqs[s].count
      BY <2>1, <2>2, <2>4 DEF Private, Held, c
    <3>2. j >= i + 1
      BY <1>5, <3>1, IndexFinite
    <3>3. j \in Private(r)' /\ seqs'[r].ids[j].index = b
      BY <1>7, <1>8, <2>2, <2>4, <3>1, <3>2 DEF Private, Held
    <3> QED BY <3>3
  <2> QED BY <2>3, <2>4
<1>22. PrivateBlocksExclusive'
  BY <1>19, <1>20, <1>21 DEF PrivateBlocksExclusive
<1> QED BY <1>13, <1>14, <1>15, <1>16, <1>17, <1>22

-----------------------------------------------------------------------------
(* Leasing blocks. *)

\* reserve_to leases free blocks only, each for one position of one table.
LEMMA ReserveToInvariant ==
    ASSUME IInv, NEW s \in SequenceIds, NEW target \in 0 .. MaxLength, ReserveTo(s, target)
    PROVE  IInv'
<1> DEFINE p == seqs[s]
           blocks == BlocksForLength(target)
           count == LargerOf(blocks, p.count)
           D == {i \in Index : i >= p.count /\ i < blocks}
           valid == FillValidTokens(p.valid, target, blocks, count)
           pending == [nonce |-> p.nonce, previous |-> p.count, target |-> target]
<1> USE DEF IInv
<1>1. /\ slots \in [Blocks -> Slot] /\ seqs \in [SequenceIds -> SequenceState]
      /\ p \in SequenceState /\ free \subseteq Blocks
      /\ holds' \subseteq Handle
  BY DEF TypeOK, ReserveTo
<1>2. /\ p.count \in Nat /\ p.shared \in Nat /\ p.shared <= p.count
      /\ p.count <= BlocksForLength(MaxLength) /\ p.nonce \in 1 .. MaxNonce + 1
      /\ p.valid \in [Index -> 0 .. BlockSize] /\ p.ids \in [Index -> Handle \cup {None}]
  BY <1>1 DEF TypeOK, SequenceState
<1>3. p.nonce <= MaxNonce /\ p.nonce \in 1 .. MaxNonce /\ p.nonce + 1 \in 1 .. MaxNonce + 1
  <2>1. p.nonce <= MaxNonce
    BY DEF ReserveTo, ReservePreflight
  <2> QED BY <1>2, <2>1, ConstantsAssumption
<1>4. /\ target \in Nat /\ blocks \in Nat /\ blocks <= BlocksForLength(MaxLength)
      /\ BlocksForLength(MaxLength) \in Nat
  BY ConstantsAssumption, BlocksForLengthNat, BlocksForLengthMonotone, SMTT(60)
<1>5. PICK new \in FreshBlocks(p.count, blocks) :
        /\ \A b \in Leased(new) : slots[b].generation < MaxGeneration
        /\ slots' = [b \in Blocks |->
                        IF b \in Leased(new)
                        THEN [slots[b] EXCEPT !.generation = @ + 1, !.owner = s]
                        ELSE slots[b]]
        /\ free' = free \ Leased(new)
        /\ allocated' = allocated + Cardinality(Leased(new))
        /\ seqs' = [seqs EXCEPT ![s] = [p EXCEPT
                !.ids = [i \in Index |->
                            IF i \in DOMAIN new
                            THEN [index |-> new[i],
                                  generation |-> slots[new[i]].generation + 1]
                            ELSE p.ids[i]],
                !.valid = valid,
                !.count = count,
                !.pending = pending,
                !.nonce = p.nonce + 1]]
  BY ZenonT(60) DEF ReserveTo
<1>6. /\ DOMAIN new = D
      /\ \A i \in D : new[i] \in free
      /\ \A i, j \in D : new[i] = new[j] => i = j
  BY DEF FreshBlocks
<1> DEFINE L == Leased(new)
           ids == [i \in Index |-> IF i \in D
                                   THEN [index |-> new[i],
                                         generation |-> slots[new[i]].generation + 1]
                                   ELSE p.ids[i]]
           nonce == p.nonce + 1
           q == [p EXCEPT !.ids = ids, !.valid = valid, !.count = count,
                          !.pending = pending, !.nonce = nonce]
<1>7. seqs' = [seqs EXCEPT ![s] = q]
  BY <1>5, <1>6
<1>8. /\ L \subseteq free
      /\ \A b \in L : \E i \in D : new[i] = b
      /\ \A i \in D : new[i] \in L
  BY <1>6 DEF Leased
<1> HIDE DEF blocks, L
<1>9. /\ count \in Nat /\ count <= BlocksForLength(MaxLength)
      /\ count >= p.count /\ count >= blocks /\ (count = p.count \/ count = blocks)
  BY <1>2, <1>4 DEF LargerOf
<1> HIDE DEF count
<1>10. valid \in [Index -> 0 .. BlockSize]
  BY <1>2, <1>4, <1>9, FillValidTokensType
<1>11. pending \in Pending /\ pending.previous = p.count
  BY <1>2, <1>3, <1>4 DEF Pending
<1>12. \A b \in L : /\ b \in Blocks /\ slots[b].owner = None
                    /\ slots[b].generation \in Nat
                    /\ slots[b].generation + 1 \in 1 .. MaxGeneration
  <2> TAKE b \in L
  <2>1. b \in free /\ b \in Blocks
    BY <1>1, <1>8
  <2>2. slots[b].generation \in 0 .. MaxGeneration /\ slots[b].generation < MaxGeneration
    BY <1>1, <1>5, <2>1 DEF Slot, L
  <2> QED BY <2>1, <2>2, ConstantsAssumption DEF FreeListExact
<1>13. ids \in [Index -> Handle \cup {None}]
  <2> SUFFICES ASSUME NEW i \in Index
               PROVE  ids[i] \in Handle \cup {None}
    OBVIOUS
  <2>1. CASE i \in D
    <3>1. new[i] \in L /\ new[i] \in Blocks
      BY <1>8, <1>12, <2>1
    <3> QED BY <1>12, <2>1, <3>1 DEF Handle
  <2>2. CASE i \notin D
    BY <1>2, <2>2
  <2> QED BY <2>1, <2>2
<1>14. \A i \in D : /\ ids[i].index = new[i]
                    /\ ids[i].generation = slots[new[i]].generation + 1
                    /\ ids[i] # None
  <2> TAKE i \in D
  <2>1. i \in Index /\ new[i] \in L /\ new[i] \in Blocks
    BY <1>8, <1>12
  <2>2. ids[i] = [index |-> new[i], generation |-> slots[new[i]].generation + 1]
    BY <2>1
  <2>3. ids[i] \in Handle
    BY <1>12, <2>1, <2>2 DEF Handle
  <2> QED BY <2>2, <2>3, NoneAssumption
<1>15. \A i \in Index : i \notin D => ids[i] = p.ids[i]
  OBVIOUS
<1>16. \A i \in Index : i \in D <=> i >= p.count /\ i < blocks
  OBVIOUS
<1>17. D \subseteq Index
  OBVIOUS
<1> HIDE DEF ids, valid, pending, D
<1>18. nonce \in 1 .. MaxNonce + 1
  BY <1>3
<1> HIDE DEF nonce
<1>19. /\ q \in SequenceState /\ q.ids = ids /\ q.count = count
       /\ q.shared = p.shared /\ q.pending = pending
  BY <1>1, <1>9, <1>10, <1>11, <1>13, <1>18 DEF SequenceState
<1> HIDE DEF q
<1>20. seqs'[s] = q /\ \A r \in SequenceIds : r # s => seqs'[r] = seqs[r]
  BY <1>1, <1>7
<1>21. seqs' \in [SequenceIds -> SequenceState]
  BY SMTT(30), <1>1, <1>7, <1>19
<1>22. /\ \A b \in L : /\ slots'[b] = [slots[b] EXCEPT !.generation = slots[b].generation + 1,
                                                       !.owner = s]
       /\ \A b \in Blocks : b \notin L => slots'[b] = slots[b]
       /\ slots' = [b \in Blocks |-> slots'[b]]
  BY <1>5, <1>12 DEF L
<1>23. \A b \in L : /\ slots'[b] \in Slot /\ slots'[b].owner = s
                    /\ slots'[b].generation = slots[b].generation + 1
                    /\ slots'[b].references = slots[b].references
  <2> TAKE b \in L
  <2>1. slots[b] \in Slot /\ slots[b].generation + 1 \in 0 .. MaxGeneration
    BY <1>1, <1>12
  <2> QED BY <1>22, <2>1 DEF Slot
<1>24. slots' \in [Blocks -> Slot]
  BY <1>1, <1>22, <1>23
<1>25. tokens' \subseteq Token
  <2>1. [sequence |-> s, nonce |-> p.nonce, previous |-> p.count, target |-> target] \in Token
    BY <1>2, <1>3, <1>4 DEF Token
  <2> QED BY <2>1 DEF ReserveTo, TypeOK
<1>26. free' = free \ L /\ allocated' = allocated + Cardinality(L)
  BY <1>5 DEF L
<1>27. AccountingExact' /\ allocated' \in Nat
  BY <1>1, <1>8, <1>26, LeasedBlocksCount DEF AccountingExact
<1>28. FreeListExact'
  <2>1. \A b \in L : b \notin free' /\ slots'[b].owner # None
    BY <1>23, <1>26, ConstantsAssumption
  <2> QED BY <1>12, <1>22, <1>26, <2>1 DEF FreeListExact
<1>29. TypeOK'
  <2>1. /\ seqs'[s].shared <= seqs'[s].count
        /\ seqs'[s].count <= BlocksForLength(MaxLength)
    BY <1>2, <1>9, <1>19, <1>20
  <2>2. \A r \in SequenceIds : /\ seqs'[r].shared <= seqs'[r].count
                               /\ seqs'[r].count <= BlocksForLength(MaxLength)
    BY <1>20, <2>1 DEF TypeOK
  <2>3. free' \subseteq Blocks
    BY <1>1, <1>26
  <2> QED BY <1>1, <1>21, <1>24, <1>25, <1>27, <2>2, <2>3 DEF TypeOK
<1>30. SharedHaveReferences'
  <2> SUFFICES ASSUME NEW b \in Blocks
               PROVE  slots'[b].owner = SharedOwner <=> slots'[b].references > 0
    BY DEF SharedHaveReferences
  <2>1. CASE b \in L
    <3>1. ~(slots[b].references > 0)
      BY <1>12, <2>1, ConstantsAssumption DEF SharedHaveReferences
    <3> QED BY <1>23, <2>1, <3>1, ConstantsAssumption
  <2>2. CASE b \notin L
    BY <1>22, <2>2 DEF SharedHaveReferences
  <2> QED BY <2>1, <2>2
<1>31. TablesBounded'
  <2>1. \A i \in Index : i >= count => q.ids[i] = None
    <3> TAKE i \in Index
    <3> HAVE i >= count
    <3>1. i \in Nat /\ i >= p.count /\ ~(i < blocks)
      BY <1>2, <1>4, <1>9, IndexFinite
    <3>2. i \notin D /\ p.ids[i] = None
      BY <1>16, <3>1 DEF TablesBounded
    <3> QED BY <1>15, <1>19, <3>2
  <2>2. q.shared <= q.pending.previous
    BY <1>2, <1>11, <1>19
  <2> QED BY <1>19, <1>20, <2>1, <2>2 DEF TablesBounded
<1>32. ASSUME NEW i \in Private(s)'
       PROVE  i \in Index /\ (i \in D \/ (i \in Private(s) /\ i \notin D /\ seqs'[s].ids[i] = p.ids[i]))
  <2>1. i \in Index /\ i < count /\ i >= p.shared /\ i \in Nat
    BY <1>19, <1>20, <1>32, IndexFinite DEF Private, Held
  <2>2. CASE i \in D
    BY <2>1, <2>2
  <2>3. CASE i \notin D
    <3>1. i < p.count
      BY <1>2, <1>4, <1>9, <1>16, <2>1, <2>3
    <3> QED BY <1>15, <1>19, <1>20, <2>1, <2>3, <3>1 DEF Private, Held
  <2> QED BY <2>2, <2>3
<1>33. \A i \in D : i \in Private(s)'
  <2> TAKE i \in D
  <2>1. i \in Index /\ i \in Nat /\ i >= p.count /\ i < blocks
    BY <1>16, <1>17, IndexFinite
  <2>2. i < count /\ i >= p.shared
    BY <1>2, <1>4, <1>9, <2>1
  <2> QED BY <1>19, <1>20, <2>1, <2>2 DEF Private, Held
<1>34. ASSUME NEW r \in SequenceIds, NEW i \in Private(r)
       PROVE  /\ i \in Index /\ seqs[r].ids[i] \in Handle
              /\ seqs[r].ids[i].index \in Blocks \ L
              /\ ValidBlock(seqs[r].ids[i], r)
  <2>1. i \in Index /\ ValidBlock(seqs[r].ids[i], r)
    BY <1>34 DEF PrivateBlocksExclusive, Private, Held
  <2>2. seqs[r].ids[i] \in Handle
    BY <1>1, <2>1 DEF SequenceState, ValidBlock
  <2>3. seqs[r].ids[i].index \in Blocks
    BY <2>2 DEF Handle
  <2>4. seqs[r].ids[i].index \notin L
    BY <1>12, <2>1, ConstantsAssumption DEF ValidBlock
  <2> QED BY <2>1, <2>2, <2>3, <2>4
<1>35. ASSUME NEW r \in SequenceIds, NEW i \in Private(r), seqs'[r].ids[i] = seqs[r].ids[i]
       PROVE  ValidBlock(seqs[r].ids[i], r)'
  <2> DEFINE g == seqs[r].ids[i]
  <2>1. g.index \in Blocks \ L /\ ValidBlock(g, r) /\ seqs'[r].ids[i] = g
    BY <1>34, <1>35
  <2> HIDE DEF g
  <2>2. slots'[g.index] = slots[g.index]
    BY <1>22, <2>1
  <2> QED BY <2>1, <2>2 DEF ValidBlock
<1>36. ASSUME NEW r \in SequenceIds, NEW i \in Private(r)'
       PROVE  ValidBlock(seqs[r].ids[i], r)'
  <2>1. CASE r # s
    <3>1. i \in Private(r) /\ seqs'[r].ids[i] = seqs[r].ids[i]
      BY <1>20, <1>36, <2>1 DEF Private, Held
    <3> QED BY <1>35, <3>1
  <2>2. CASE r = s /\ i \in D
    <3>1. new[i] \in L /\ seqs'[r].ids[i] = ids[i]
      BY <1>8, <1>19, <1>20, <2>2
    <3>2. slots'[new[i]].owner = s /\ slots'[new[i]].generation = slots[new[i]].generation + 1
      BY <1>23, <3>1
    <3> QED BY <1>14, <2>2, <3>1, <3>2 DEF ValidBlock
  <2>3. CASE r = s /\ i \notin D
    <3>1. i \in Private(s) /\ seqs'[s].ids[i] = p.ids[i]
      BY <1>32, <1>36, <2>3
    <3> QED BY <1>35, <2>3, <3>1
  <2> QED BY <2>1, <2>2, <2>3
<1>37. ASSUME NEW r \in SequenceIds, NEW i \in Private(r)', NEW j \in Private(r)',
              seqs'[r].ids[i].index = seqs'[r].ids[j].index
       PROVE  i = j
  <2>1. CASE r # s
    <3>1. /\ i \in Private(r) /\ seqs'[r].ids[i] = seqs[r].ids[i]
          /\ j \in Private(r) /\ seqs'[r].ids[j] = seqs[r].ids[j]
      BY <1>20, <1>37, <2>1 DEF Private, Held
    <3> QED BY <1>37, <3>1 DEF PrivateBlocksExclusive
  <2>2. CASE r = s
    <3>1. \A k \in D : seqs'[s].ids[k].index = new[k] /\ new[k] \in L
      BY <1>8, <1>14, <1>19, <1>20
    <3>2. \A k \in Private(s)' : k \notin D =>
            /\ k \in Private(s) /\ seqs'[s].ids[k] = p.ids[k]
            /\ seqs'[s].ids[k].index \notin L
      BY <1>32, <1>34
    <3>3. CASE i \in D /\ j \in D
      BY <1>6, <1>37, <2>2, <3>1, <3>3
    <3>4. CASE i \notin D /\ j \notin D
      BY <1>37, <2>2, <3>2, <3>4 DEF PrivateBlocksExclusive
    <3>5. CASE (i \in D) # (j \in D)
      BY <1>37, <2>2, <3>1, <3>2, <3>5
    <3> QED BY <3>3, <3>4, <3>5
  <2> QED BY <2>1, <2>2
<1>38. ASSUME NEW b \in Blocks, NEW r \in SequenceIds, slots'[b].owner = r
       PROVE  \E i \in Private(r)' : seqs'[r].ids[i].index = b
  <2>1. CASE b \in L
    <3>1. r = s
      BY <1>23, <1>38, <2>1
    <3>2. PICK i \in D : new[i] = b
      BY <1>8, <2>1
    <3>3. i \in Private(s)' /\ seqs'[s].ids[i].index = b
      BY <1>14, <1>19, <1>20, <1>33, <3>2
    <3> QED BY <3>1, <3>3
  <2>2. CASE b \notin L
    <3>1. slots[b].owner = r
      BY <1>22, <1>38, <2>2
    <3>2. PICK i \in Private(r) : seqs[r].ids[i].index = b
      BY <3>1 DEF PrivateBlocksExclusive
    <3>3. CASE r # s
      BY <1>20, <3>2, <3>3 DEF Private, Held
    <3>4. CASE r = s
      <4>1. i \in Index /\ i \in Nat /\ i < p.count /\ i >= p.shared
        BY <3>2, <3>4, IndexFinite DEF Private, Held
      <4>2. i \notin D /\ i < count
        BY <1>2, <1>9, <1>16, <4>1
      <4>3. i \in Private(s)' /\ seqs'[s].ids[i] = p.ids[i]
        BY <1>15, <1>19, <1>20, <4>1, <4>2 DEF Private, Held
      <4> QED BY <3>2, <3>4, <4>3
    <3> QED BY <3>3, <3>4
  <2> QED BY <2>1, <2>2
<1>39. PrivateBlocksExclusive'
  BY <1>36, <1>37, <1>38 DEF PrivateBlocksExclusive
<1> QED BY <1>27, <1>28, <1>29, <1>30, <1>31, <1>39

-----------------------------------------------------------------------------
(* The theorems. *)

\* A new pool satisfies the invariant: all blocks are free, no table has one.
LEMMA InitInvariant ==
    ASSUME Init
    PROVE  IInv
<1>1. Unborn \in SequenceState
  BY UnbornType
<1>2. FreeSlot \in Slot /\ FreeSlot.owner = None /\ FreeSlot.references = 0
  BY ConstantsAssumption DEF FreeSlot, Slot
<1>3. /\ Unborn.count = 0 /\ Unborn.shared = 0 /\ Unborn.pending = None
      /\ \A i \in Index : Unborn.ids[i] = None
  BY DEF Unborn
<1>4. /\ \A b \in Blocks : slots[b] = FreeSlot
      /\ \A s \in SequenceIds : seqs[s] = Unborn
      /\ slots \in [Blocks -> Slot] /\ seqs \in [SequenceIds -> SequenceState]
      /\ free = Blocks /\ allocated = 0 /\ tokens = {} /\ holds = {}
  BY <1>1, <1>2 DEF Init
<1>5. BlocksForLength(MaxLength) \in Nat
  BY ConstantsAssumption, BlocksForLengthNat
<1>6. TypeOK
  BY <1>3, <1>4, <1>5 DEF TypeOK
<1>7. FreeListExact
  BY <1>2, <1>4 DEF FreeListExact
<1>8. AccountingExact
  <2>1. Blocks \ free = {}
    BY <1>4
  <2> QED BY <1>4, <2>1, FS_EmptySet DEF AccountingExact
<1>9. SharedHaveReferences
  BY <1>2, <1>4, ConstantsAssumption DEF SharedHaveReferences
<1>10. \A s \in SequenceIds : Private(s) = {}
  <2> SUFFICES ASSUME NEW s \in SequenceIds, NEW i \in Private(s) PROVE FALSE
    OBVIOUS
  <2> QED BY <1>3, <1>4, IndexFinite DEF Private, Held
<1>11. PrivateBlocksExclusive
  BY <1>2, <1>4, <1>10, ConstantsAssumption DEF PrivateBlocksExclusive
<1>12. TablesBounded
  BY <1>3, <1>4 DEF TablesBounded
<1> QED BY <1>6, <1>7, <1>8, <1>9, <1>11, <1>12 DEF IInv

\* Losing a token, or no step at all, preserves the invariant.
LEMMA TokensOnlyInvariant ==
    ASSUME IInv, UNCHANGED <<slots, free, allocated, seqs, holds>>, tokens' \subseteq tokens
    PROVE  IInv'
<1>1. /\ slots' \in [Blocks -> Slot] /\ seqs' \in [SequenceIds -> SequenceState]
      /\ tokens' \subseteq Token /\ holds' \subseteq Handle
  BY DEF IInv, TypeOK
<1> QED BY <1>1, OwnershipUnchanged

\* Every call preserves the invariant.
LEMMA NextInvariant ==
    ASSUME IInv, [Next]_vars
    PROVE  IInv'
<1>1. ASSUME NEW s \in SequenceIds, NEW maximum \in MaximumLengths, CreateSequence(s, maximum)
      PROVE  IInv'
  BY <1>1, CreateSequenceInvariant
<1>2. ASSUME NEW s \in SequenceIds, NEW target \in 0 .. MaxLength,
             ReserveTo(s, target) \/ ReserveExhausted(s, target) \/ TruncateTo(s, target)
      PROVE  IInv'
  BY <1>2, ReserveToInvariant, ReserveExhaustedInvariant, TruncateToInvariant
<1>3. ASSUME NEW s \in SequenceIds, NEW t \in tokens,
             Commit(s, t) \/ Rollback(s, t) \/ Poison(s, t)
      PROVE  IInv'
  BY <1>3, CommitInvariant, RollbackInvariant, PoisonInvariant
<1>4. ASSUME NEW s \in SequenceIds,
             \/ RollbackAbandonedReservation(s) \/ Reset(s)
             \/ AbandonForReclaim(s) \/ ReclaimSequence(s) \/ ShareNextBlock(s)
      PROVE  IInv'
  BY <1>4, RollbackAbandonedInvariant, ResetInvariant, AbandonForReclaimInvariant,
     ReclaimSequenceInvariant, ShareNextBlockInvariant
<1>5. ASSUME NEW s \in SequenceIds, NEW h \in Handle, AdoptSharedBlock(s, h)
      PROVE  IInv'
  BY <1>5, AdoptSharedBlockInvariant
<1>6. ASSUME NEW s \in SequenceIds, NEW i \in Index, AttachSidecar(s, i)
      PROVE  IInv'
  BY <1>6, AttachSidecarInvariant
<1>7. ASSUME NEW t \in tokens, DropToken(t)
      PROVE  IInv'
  BY <1>7, TokensOnlyInvariant DEF DropToken
<1>8. ASSUME NEW h \in holds, ReleaseSharedBlock(h)
      PROVE  IInv'
  BY <1>8, ReleaseSharedBlockInvariant
<1>9. CASE UNCHANGED vars
  BY <1>9, TokensOnlyInvariant DEF vars
<1> QED BY <1>1, <1>2, <1>3, <1>4, <1>5, <1>6, <1>7, <1>8, <1>9 DEF Next

\* The invariant holds in every reachable state, for all values of the constants.
THEOREM Invariance == Spec => []IInv
<1>1. Init => IInv
  BY InitInvariant
<1>2. IInv /\ [Next]_vars => IInv'
  BY NextInvariant
<1> QED BY <1>1, <1>2, PTL DEF Spec

\* The pool and every SequenceState keep their types, and no count leaves its table.
THEOREM TypeCorrect == Spec => []TypeOK
<1>1. IInv => TypeOK
  BY DEF IInv
<1> QED BY <1>1, Invariance, PTL

\* The free list is exact: no leased block is handed out again (validate_block
\* and release_block of paged_kv.rs) and no released block is lost.
THEOREM FreeListCorrect == Spec => []FreeListExact
<1>1. IInv => FreeListExact
  BY DEF IInv
<1> QED BY <1>1, Invariance, PTL

\* allocated_block_count never drifts from the number of leased blocks.
THEOREM AccountingCorrect == Spec => []AccountingExact
<1>1. IInv => AccountingExact
  BY DEF IInv
<1> QED BY <1>1, Invariance, PTL

\* A block that a sequence owns is at exactly one private position of exactly
\* that sequence, under the current lease.
THEOREM OwnershipCorrect == Spec => []PrivateBlocksExclusive
<1>1. IInv => PrivateBlocksExclusive
  BY DEF IInv
<1> QED BY <1>1, Invariance, PTL

-----------------------------------------------------------------------------
(* Lease fencing. *)

\* A step that keeps every generation and at most ends leases or shares blocks.
LEMMA LeasesKept ==
    ASSUME slots \in [Blocks -> Slot],
           \A b \in Blocks : /\ slots'[b].generation = slots[b].generation
                             /\ slots'[b].owner \in {None, SharedOwner, slots[b].owner}
    PROVE  LeaseStep
<1>1. \A b \in Blocks : slots[b].generation \in Nat
  BY ConstantsAssumption DEF Slot
<1> QED BY <1>1, ConstantsAssumption DEF LeaseStep

\* Dropping references and releasing a slot end leases at most.
LEMMA ReleasedLease ==
    ASSUME NEW slot \in Slot, NEW k
    PROVE  /\ Released(slot).generation = slot.generation
           /\ Released(slot).owner \in {None, slot.owner}
           /\ DropReferences(slot, k).generation = slot.generation
           /\ DropReferences(slot, k).owner \in {None, slot.owner}
<1> DEFINE less == [slot EXCEPT !.references = slot.references - k]
<1>1. /\ less.generation = slot.generation /\ less.owner = slot.owner
      /\ Released(less).generation = slot.generation /\ Released(less).owner = None
  BY DEF Slot, Released
<1>2. DropReferences(slot, k) \in {less, Released(less)}
  BY DEF DropReferences
<1> HIDE DEF less
<1>3. Released(slot).generation = slot.generation /\ Released(slot).owner = None
  BY DEF Slot, Released
<1> QED BY <1>1, <1>2, <1>3

\* So does release_tail.
LEMMA TailLeases ==
    ASSUME slots \in [Blocks -> Slot], NEW s, NEW kept, NEW b \in Blocks
    PROVE  /\ SlotsWithoutTail(s, kept)[b].generation = slots[b].generation
           /\ SlotsWithoutTail(s, kept)[b].owner \in {None, slots[b].owner}
           /\ DOMAIN SlotsWithoutTail(s, kept)[b] = {"owner", "generation", "references", "sidecar"}
<1> DEFINE k == Cardinality(SharedTail(s, kept, b))
           after == SlotsWithoutTail(s, kept)[b]
<1>1. after \in {Released(slots[b]), DropReferences(slots[b], k)}
  BY DEF SlotsWithoutTail
<1> HIDE DEF k, after
<1>2. slots[b] \in Slot
  OBVIOUS
<1>3. after.generation = slots[b].generation /\ after.owner \in {None, slots[b].owner}
  BY <1>1, <1>2, ReleasedLease
<1>4. DOMAIN after = {"owner", "generation", "references", "sidecar"}
  BY <1>1, <1>2 DEF Released, DropReferences, Slot
<1> QED BY <1>3, <1>4 DEF after

\* Every call is a lease step.
LEMMA NextLeaseStep ==
    ASSUME IInv, Next
    PROVE  LeaseStep
<1>1. /\ slots \in [Blocks -> Slot] /\ seqs \in [SequenceIds -> SequenceState]
      /\ free \subseteq Blocks /\ holds \subseteq Handle
  BY DEF IInv, TypeOK
<1>2. ASSUME UNCHANGED slots PROVE LeaseStep
  BY <1>1, <1>2, LeasesKept
<1>3. ASSUME NEW s, NEW kept, Settle(SlotsWithoutTail(s, kept)) PROVE LeaseStep
  <2>1. slots' = SlotsWithoutTail(s, kept)
    BY <1>3 DEF Settle
  <2> QED BY <1>1, <2>1, TailLeases, LeasesKept
<1>4. ASSUME NEW s, NEW kept,
             \A b \in Blocks :
                \/ slots'[b] = SlotsWithoutTail(s, kept)[b]
                \/ slots'[b] = [SlotsWithoutTail(s, kept)[b] EXCEPT !.sidecar = None]
      PROVE  LeaseStep
  <2>1. ASSUME NEW b \in Blocks
        PROVE  /\ slots'[b].generation = slots[b].generation
               /\ slots'[b].owner \in {None, slots[b].owner}
    <3> DEFINE after == SlotsWithoutTail(s, kept)[b]
    <3>1. /\ after.generation = slots[b].generation
          /\ after.owner \in {None, slots[b].owner}
          /\ DOMAIN after = {"owner", "generation", "references", "sidecar"}
      BY <1>1, TailLeases
    <3>2. slots'[b] = after \/ slots'[b] = [after EXCEPT !.sidecar = None]
      BY <1>4
    <3> HIDE DEF after
    <3> QED BY <3>1, <3>2
  <2> QED BY <1>1, <2>1, LeasesKept
<1>5. ASSUME NEW s \in SequenceIds, NEW target \in 0 .. MaxLength, ReserveTo(s, target)
      PROVE  LeaseStep
  <2>1. PICK new \in FreshBlocks(seqs[s].count, BlocksForLength(target)) :
            slots' = [b \in Blocks |->
                        IF b \in Leased(new)
                        THEN [slots[b] EXCEPT !.generation = @ + 1, !.owner = s]
                        ELSE slots[b]]
    BY <1>5 DEF ReserveTo
  <2>2. Leased(new) \subseteq free
    BY DEF FreshBlocks, Leased
  <2> SUFFICES ASSUME NEW b \in Blocks
               PROVE  /\ slots'[b].generation >= slots[b].generation
                      /\ slots'[b].owner # slots[b].owner =>
                            b \in free /\ slots'[b].generation = slots[b].generation + 1
    BY DEF LeaseStep
  <2>3. slots[b] \in Slot /\ slots[b].generation \in Nat
    BY <1>1, ConstantsAssumption DEF Slot
  <2>4. CASE b \in Leased(new)
    <3>1. slots'[b] = [slots[b] EXCEPT !.generation = slots[b].generation + 1, !.owner = s]
      BY <2>1, <2>4
    <3>2. slots'[b].generation = slots[b].generation + 1
      BY <2>3, <3>1 DEF Slot
    <3> QED BY <2>2, <2>3, <2>4, <3>2
  <2>5. CASE b \notin Leased(new)
    <3>1. slots'[b] = slots[b]
      BY <2>1, <2>5
    <3> QED BY <2>3, <3>1
  <2> QED BY <2>4, <2>5
<1>6. ASSUME NEW s \in SequenceIds, NEW target \in 0 .. MaxLength, ReserveExhausted(s, target)
      PROVE  LeaseStep
  <2>1. \A b \in Blocks : \/ slots'[b] = slots[b]
                          \/ slots'[b] = [slots[b] EXCEPT !.generation = slots[b].generation + 1]
    BY <1>6 DEF ReserveExhausted
  <2>2. \A b \in Blocks : slots[b] \in Slot /\ slots[b].generation \in Nat
    BY <1>1, ConstantsAssumption DEF Slot
  <2>3. \A b \in Blocks : /\ slots'[b].owner = slots[b].owner
                          /\ \/ slots'[b].generation = slots[b].generation
                             \/ slots'[b].generation = slots[b].generation + 1
    BY <2>1, <2>2 DEF Slot
  <2> QED BY <2>2, <2>3 DEF LeaseStep
<1>7. ASSUME NEW s \in SequenceIds, NEW target \in 0 .. MaxLength, TruncateTo(s, target)
      PROVE  LeaseStep
  <2>1. \A b \in Blocks :
            \/ slots'[b] = SlotsWithoutTail(s, BlocksForLength(target))[b]
            \/ slots'[b] = [SlotsWithoutTail(s, BlocksForLength(target))[b] EXCEPT !.sidecar = None]
    BY <1>7 DEF TruncateTo, Settle
  <2> QED BY <1>4, <2>1
<1>8. ASSUME NEW s \in SequenceIds, NEW t \in tokens, Commit(s, t)
      PROVE  LeaseStep
  <2>1. \A b \in Blocks : \/ slots'[b] = slots[b]
                          \/ slots'[b] = [slots[b] EXCEPT !.sidecar = None]
    BY <1>8 DEF Commit, WithoutSidecars
  <2>2. \A b \in Blocks : /\ slots'[b].generation = slots[b].generation
                          /\ slots'[b].owner = slots[b].owner
    BY <1>1, <2>1, SidecarDropped, ZenonT(60)
  <2> QED BY <1>1, <2>2, LeasesKept
<1>9. ASSUME NEW s \in SequenceIds, NEW t \in tokens, Rollback(s, t)
      PROVE  LeaseStep
  BY <1>3, <1>9 DEF Rollback, RollbackPending
<1>10. ASSUME NEW s \in SequenceIds, NEW t \in tokens, Poison(s, t)
       PROVE  LeaseStep
  <2>1. \A b \in Blocks :
            \/ slots'[b] = SlotsWithoutTail(s, seqs[s].pending.previous)[b]
            \/ slots'[b] = [SlotsWithoutTail(s, seqs[s].pending.previous)[b] EXCEPT !.sidecar = None]
    BY <1>10 DEF Poison, PoisonedSlots, Settle
  <2> QED BY <1>4, <2>1
<1>11. ASSUME NEW s \in SequenceIds, RollbackAbandonedReservation(s) \/ Reset(s)
       PROVE  LeaseStep
  BY <1>3, <1>11 DEF RollbackAbandonedReservation, Reset, RollbackPending
<1>12. ASSUME NEW s \in SequenceIds, ReclaimSequence(s)
       PROVE  LeaseStep
  <2>1. ASSUME NEW b \in Blocks
        PROVE  /\ slots'[b].generation = slots[b].generation
               /\ slots'[b].owner \in {None, slots[b].owner}
    <3> DEFINE k == Cardinality(SharedTail(s, 0, b))
    <3>1. slots'[b] \in {Released(slots[b]), DropReferences(slots[b], k)}
      BY <1>12 DEF ReclaimSequence, Settle
    <3> HIDE DEF k
    <3> QED BY <1>1, <3>1, ReleasedLease
  <2> QED BY <1>1, <2>1, LeasesKept
<1>13. ASSUME NEW s \in SequenceIds, NEW h \in Handle, AdoptSharedBlock(s, h)
       PROVE  LeaseStep
  <2>1. slots' = [slots EXCEPT ![h.index].references = @ + 1]
    BY <1>13 DEF AdoptSharedBlock
  <2>2. \A b \in Blocks : /\ slots'[b].generation = slots[b].generation
                          /\ slots'[b].owner = slots[b].owner
    BY <1>1, <2>1 DEF Slot
  <2> QED BY <1>1, <2>2, LeasesKept
<1>14. ASSUME NEW s \in SequenceIds, ShareNextBlock(s)
       PROVE  LeaseStep
  <2>1. PICK c : slots' = [slots EXCEPT ![c] = SharedSlot(@)]
    BY <1>14 DEF ShareNextBlock
  <2>2. \A b \in Blocks :
            \/ slots'[b] = slots[b]
            \/ slots'[b] = [slots[b] EXCEPT !.owner = SharedOwner, !.references = 2, !.sidecar = None]
    BY <1>1, <2>1 DEF SharedSlot
  <2>3. \A b \in Blocks : /\ slots'[b].generation = slots[b].generation
                          /\ slots'[b].owner \in {SharedOwner, slots[b].owner}
    BY <1>1, <2>2, ZenonT(60) DEF Slot
  <2> QED BY <1>1, <2>3, LeasesKept
<1>15. ASSUME NEW s \in SequenceIds, NEW i \in Index, AttachSidecar(s, i)
       PROVE  LeaseStep
  <2>1. slots' = [slots EXCEPT ![seqs[s].ids[i].index].sidecar = seqs[s].valid[i]]
    BY <1>15 DEF AttachSidecar
  <2>2. \A b \in Blocks : /\ slots'[b].generation = slots[b].generation
                          /\ slots'[b].owner = slots[b].owner
    BY <1>1, <2>1 DEF Slot
  <2> QED BY <1>1, <2>2, LeasesKept
<1>16. ASSUME NEW h \in holds, ReleaseSharedBlock(h)
       PROVE  LeaseStep
  <2>1. slots' = [slots EXCEPT ![h.index] = DropReferences(@, 1)]
    BY <1>16 DEF ReleaseSharedBlock, Settle
  <2>2. \A b \in Blocks : slots'[b] \in {slots[b], DropReferences(slots[b], 1)}
    BY <1>1, <2>1
  <2>3. \A b \in Blocks : /\ slots'[b].generation = slots[b].generation
                          /\ slots'[b].owner \in {None, slots[b].owner}
    BY <1>1, <2>2, ReleasedLease
  <2> QED BY <1>1, <2>3, LeasesKept
<1>17. ASSUME NEW s \in SequenceIds, NEW maximum, CreateSequence(s, maximum)
       PROVE  LeaseStep
  BY <1>2, <1>17 DEF CreateSequence
<1>18. ASSUME NEW s \in SequenceIds, AbandonForReclaim(s)
       PROVE  LeaseStep
  BY <1>2, <1>18 DEF AbandonForReclaim
<1>19. ASSUME NEW t \in tokens, DropToken(t)
       PROVE  LeaseStep
  BY <1>2, <1>19 DEF DropToken
<1> QED BY <1>5, <1>6, <1>7, <1>8, <1>9, <1>10, <1>11, <1>12, <1>13, <1>14,
           <1>15, <1>16, <1>17, <1>18, <1>19 DEF Next

\* A handle of an ended lease can never come to name the block's next content:
\* a lease always starts from the free list and with a new generation.
THEOREM LeaseFencingCorrect == Spec => LeaseFencing
<1>1. IInv /\ [Next]_vars => [LeaseStep]_vars
  BY NextLeaseStep
<1> QED BY <1>1, Invariance, PTL DEF Spec, LeaseFencing

-----------------------------------------------------------------------------
(* What the allocator promises of shared blocks, block tables, sidecars    *)
(* and reservation tokens: the inductive invariant, on top of IInv.        *)

\* Tokens of block i of a table that describes `length` tokens.
Content(length, i) == SmallerOf(LargerOf(length - i * BlockSize, 0), BlockSize)

\* The length a table describes.
Described(q) == IF q.pending = None THEN q.length ELSE q.pending.target

\* The table of a live sequence covers the length it describes, remembers what a
\* reservation started from, and shares full blocks only.
LiveTableFits(q) ==
    /\ q.shared * BlockSize <= q.length
    /\ q.pending # None => /\ q.pending.previous = BlocksForLength(q.length)
                           /\ q.pending.target >= q.length
    /\ q.count = BlocksForLength(Described(q))
    /\ \A i \in Index : i < q.count => q.valid[i] = Content(Described(q), i)

\* A sequence without a table holds nothing.
TableFits(q) ==
    /\ q.phase \in {"unborn", "gone"} =>
            q.count = 0 /\ q.shared = 0 /\ q.length = 0 /\ q.pending = None
    /\ q.phase = "live" => LiveTableFits(q)

TablesFit == \A s \in SequenceIds : TableFits(seqs[s])

\* The lease of every handle that holds a reference is current.
SharedCurrent ==
    /\ \A s \in SequenceIds : \A i \in Index :
            i < seqs[s].shared =>
                /\ seqs[s].ids[i] # None
                /\ slots[seqs[s].ids[i].index].generation = seqs[s].ids[i].generation
    /\ \A h \in holds : slots[h.index].generation = h.generation

\* Callers that owe a release of block b.
Holders(b) == {h \in holds : h.index = b}

CountsExact ==
    \A b \in Blocks : slots[b].references = Cardinality(Readers(b)) + Cardinality(Holders(b))

\* Tokens are older than the next nonce of their sequence, as long as that can
\* reserve again.
TokensSpent ==
    \A t \in tokens : /\ seqs[t.sequence].phase # "unborn"
                      /\ seqs[t.sequence].phase # "gone" => t.nonce < seqs[t.sequence].nonce

TInv == TablesFit /\ SharedCurrent /\ CountsExact /\ SidecarsDescribeContent /\ TokensSpent

-----------------------------------------------------------------------------
(* Arithmetic of lengths and blocks. *)

\* A block that the length covers is full.
LEMMA FullContent ==
    ASSUME NEW n \in Nat, NEW i \in Nat, (i + 1) * BlockSize <= n
    PROVE  Content(n, i) = BlockSize
<1>1. BlockSize \in Nat /\ BlockSize > 0
  BY ConstantsAssumption
<1>2. (i + 1) * BlockSize = i * BlockSize + BlockSize /\ i * BlockSize \in Nat
  BY <1>1
<1> DEFINE m == i * BlockSize
<1>3. m \in Nat /\ m + BlockSize <= n /\ Content(n, i) = SmallerOf(LargerOf(n - m, 0), BlockSize)
  BY <1>2 DEF Content
<1> HIDE DEF m
<1> QED BY <1>1, <1>3 DEF SmallerOf, LargerOf

\* fill_valid_tokens writes the content of every block of the length.
LEMMA FilledTokens ==
    ASSUME NEW valid, NEW length, NEW blocks, NEW count, NEW i \in Index, i < blocks
    PROVE  FillValidTokens(valid, length, blocks, count)[i] = Content(length, i)
BY DEF FillValidTokens, Content

\* The blocks of a length: all but the last are full.
LEMMA BlocksCover ==
    ASSUME NEW n \in Nat
    PROVE  /\ BlocksForLength(n) \in Nat
           /\ n <= BlocksForLength(n) * BlockSize
           /\ \A i \in Nat : i + 1 < BlocksForLength(n) => (i + 1) * BlockSize <= n
<1> DEFINE p == BlocksForLength(n)
<1>1. /\ p \in Nat /\ BlockSize \in Nat /\ BlockSize > 0
      /\ BlockSize * p <= n + BlockSize - 1
      /\ n + BlockSize - 1 < BlockSize * p + BlockSize
  BY ConstantsAssumption, DivisionBounds DEF BlocksForLength
<1> HIDE DEF p
<1>2. BlockSize * p = p * BlockSize /\ p * BlockSize \in Nat
  BY <1>1
<1>3. n <= p * BlockSize
  BY <1>1, <1>2
<1>4. ASSUME NEW i \in Nat, i + 1 < p PROVE (i + 1) * BlockSize <= n
  <2>1. p >= i + 2
    BY <1>1, <1>4
  <2>2. BlockSize * p >= BlockSize * (i + 2)
    BY <1>1, <2>1
  <2>3. BlockSize * (i + 2) = (i + 1) * BlockSize + BlockSize /\ (i + 1) * BlockSize \in Nat
    BY <1>1
  <2> QED BY <1>1, <1>2, <2>2, <2>3
<1> QED BY <1>1, <1>3, <1>4 DEF p

\* k full blocks are k blocks.
LEMMA ExactBlocks ==
    ASSUME NEW k \in Nat
    PROVE  k * BlockSize \in Nat /\ BlocksForLength(k * BlockSize) = k
<1> DEFINE n == k * BlockSize
           p == BlocksForLength(n)
<1>1. BlockSize \in Nat /\ BlockSize > 0 /\ n \in Nat
  BY ConstantsAssumption
<1> HIDE DEF n
<1>2. /\ p \in Nat /\ BlockSize * p <= n + BlockSize - 1
      /\ n + BlockSize - 1 < BlockSize * p + BlockSize
  BY <1>1, ConstantsAssumption, DivisionBounds DEF BlocksForLength
<1> HIDE DEF p
<1>3. ~(p >= k + 1)
  <2> SUFFICES ASSUME p >= k + 1 PROVE FALSE
    OBVIOUS
  <2>1. BlockSize * p >= BlockSize * (k + 1)
    BY <1>1, <1>2
  <2>2. BlockSize * (k + 1) = n + BlockSize
    BY <1>1 DEF n
  <2> QED BY <1>1, <1>2, <2>1, <2>2
<1>4. ~(k >= p + 1)
  <2> SUFFICES ASSUME k >= p + 1 PROVE FALSE
    OBVIOUS
  <2>1. BlockSize * k >= BlockSize * (p + 1)
    BY <1>1, <1>2
  <2>2. BlockSize * (p + 1) = BlockSize * p + BlockSize /\ BlockSize * k = n /\ BlockSize * p \in Nat
    BY <1>1, <1>2 DEF n
  <2> QED BY <1>1, <1>2, <2>1, <2>2
<1>5. p = k
  BY <1>2, <1>3, <1>4
<1> QED BY <1>1, <1>5 DEF n, p

\* The empty sequence needs no block.
LEMMA NoBlocks == BlocksForLength(0) = 0
<1>1. 0 * BlockSize = 0
  BY ConstantsAssumption
<1> QED BY <1>1, ExactBlocks

-----------------------------------------------------------------------------
(* Readers and holders of shared blocks. *)

\* The readers of a block can be counted.
LEMMA ReadersFinite ==
    ASSUME NEW b
    PROVE  IsFiniteSet(Readers(b)) /\ Cardinality(Readers(b)) \in Nat
<1>1. IsFiniteSet(SequenceIds \X Index)
  BY IndexFinite, ConstantsAssumption, FS_Product
<1>2. Readers(b) \subseteq SequenceIds \X Index
  BY DEF Readers
<1> QED BY <1>1, <1>2, FS_Subset, FS_CardinalityType

\* A block has at most one holder: its handle is the current one.
LEMMA HoldersFinite ==
    ASSUME TypeOK, SharedCurrent, NEW b
    PROVE  /\ IsFiniteSet(Holders(b)) /\ Cardinality(Holders(b)) \in Nat
           /\ \A g, h \in Holders(b) : g = h
<1>1. \A g, h \in Holders(b) : g = h
  <2> TAKE g, h \in Holders(b)
  <2>1. g \in Handle /\ h \in Handle /\ g.index = h.index
    BY DEF Holders, TypeOK
  <2>2. g.generation = h.generation
    BY <2>1 DEF Holders, SharedCurrent
  <2> QED BY <2>1, <2>2 DEF Handle
<1>2. IsFiniteSet(Holders(b))
  <2>1. CASE Holders(b) = {}
    BY <2>1, FS_EmptySet
  <2>2. CASE Holders(b) # {}
    <3>1. PICK h : h \in Holders(b)
      BY <2>2
    <3>2. Holders(b) = {h}
      BY <1>1, <3>1
    <3> QED BY <3>2, FS_Singleton
  <2> QED BY <2>1, <2>2
<1> QED BY <1>1, <1>2, FS_CardinalityType

\* Whoever holds a block through a reference is counted.
LEMMA ReferencesPositive ==
    ASSUME TypeOK, SharedCurrent, CountsExact, NEW b \in Blocks,
           Readers(b) # {} \/ Holders(b) # {}
    PROVE  slots[b].references > 0
<1>1. /\ IsFiniteSet(Readers(b)) /\ Cardinality(Readers(b)) \in Nat
      /\ IsFiniteSet(Holders(b)) /\ Cardinality(Holders(b)) \in Nat
  BY ReadersFinite, HoldersFinite
<1>2. Cardinality(Readers(b)) # 0 \/ Cardinality(Holders(b)) # 0
  BY <1>1, FS_EmptySet
<1> QED BY <1>1, <1>2 DEF CountsExact

\* A shared position of a table holds a handle and is a reader of its block.
LEMMA SharedPosition ==
    ASSUME TypeOK, SharedCurrent, NEW s \in SequenceIds, NEW i \in Index, i < seqs[s].shared
    PROVE  /\ seqs[s].ids[i] \in Handle /\ seqs[s].ids[i].index \in Blocks
           /\ <<s, i>> \in Readers(seqs[s].ids[i].index)
<1>1. seqs[s] \in SequenceState /\ seqs[s].ids[i] # None
  BY DEF TypeOK, SharedCurrent
<1>2. seqs[s].ids[i] \in Handle
  BY <1>1 DEF SequenceState
<1> QED BY <1>2 DEF Handle, Readers

\* So its block is shared, under the lease of the handle.
LEMMA SharedPositionValid ==
    ASSUME IInv, TInv, NEW s \in SequenceIds, NEW i \in Index, i < seqs[s].shared
    PROVE  /\ ValidShared(seqs[s].ids[i])
           /\ slots[seqs[s].ids[i].index].owner = SharedOwner
<1> DEFINE h == seqs[s].ids[i]
<1>1. TypeOK /\ SharedCurrent /\ CountsExact /\ SharedHaveReferences
  BY DEF IInv, TInv
<1>2. h \in Handle /\ h.index \in Blocks /\ <<s, i>> \in Readers(h.index)
  BY <1>1, SharedPosition
<1>3. h # None /\ slots[h.index].generation = h.generation
  BY <1>1 DEF SharedCurrent
<1> HIDE DEF h
<1>4. slots[h.index].references > 0
  BY <1>1, <1>2, ReferencesPositive
<1>5. slots[h.index].owner = SharedOwner
  BY <1>1, <1>2, <1>4 DEF SharedHaveReferences
<1>6. SharedOwner # None
  BY ConstantsAssumption
<1> QED BY <1>3, <1>4, <1>5, <1>6 DEF ValidShared, h

\* The same of a handle that a caller holds.
LEMMA HolderValid ==
    ASSUME IInv, TInv, NEW h \in holds
    PROVE  /\ h \in Handle /\ h.index \in Blocks /\ ValidShared(h)
           /\ slots[h.index].owner = SharedOwner
<1>1. TypeOK /\ SharedCurrent /\ CountsExact /\ SharedHaveReferences
  BY DEF IInv, TInv
<1>2. h \in Handle /\ h.index \in Blocks
  BY <1>1 DEF TypeOK, Handle
<1>3. h \in Holders(h.index)
  BY DEF Holders
<1>4. slots[h.index].references > 0
  BY <1>1, <1>2, <1>3, ReferencesPositive
<1>5. slots[h.index].owner = SharedOwner
  BY <1>1, <1>2, <1>4 DEF SharedHaveReferences
<1>6. SharedOwner # None /\ h # None
  BY <1>2, ConstantsAssumption, NoneAssumption
<1>7. slots[h.index].generation = h.generation
  BY <1>1 DEF SharedCurrent
<1> QED BY <1>2, <1>4, <1>5, <1>6, <1>7 DEF ValidShared

\* A step that keeps readers, holders, references and the leases of shared blocks
\* keeps their accounts.
LEMMA ReadersKept ==
    ASSUME IInv, TInv, holds' = holds,
           \A s \in SequenceIds :
                /\ seqs'[s].shared = seqs[s].shared
                /\ \A i \in Index : i < seqs[s].shared => seqs'[s].ids[i] = seqs[s].ids[i],
           \A b \in Blocks : /\ slots'[b].references = slots[b].references
                             /\ slots[b].references > 0 =>
                                    slots'[b].generation = slots[b].generation
    PROVE  SharedCurrent' /\ CountsExact'
<1>1. \A b : Readers(b)' = Readers(b)
  BY DEF Readers
<1>2. \A b : Holders(b)' = Holders(b)
  BY DEF Holders
<1>3. CountsExact'
  BY <1>1, <1>2 DEF CountsExact, TInv
<1>4. ASSUME NEW s \in SequenceIds, NEW i \in Index, i < seqs[s].shared
      PROVE  /\ seqs'[s].ids[i] # None
             /\ slots'[seqs'[s].ids[i].index].generation = seqs'[s].ids[i].generation
  <2> DEFINE h == seqs[s].ids[i]
  <2>1. seqs'[s].ids[i] = h
    BY <1>4
  <2>2. ValidShared(h)
    BY <1>4, SharedPositionValid
  <2>3. h.index \in Blocks
    BY <1>4, SharedPosition DEF IInv, TInv
  <2> HIDE DEF h
  <2> QED BY <2>1, <2>2, <2>3 DEF ValidShared
<1>5. ASSUME NEW h \in holds PROVE slots'[h.index].generation = h.generation
  BY HolderValid DEF ValidShared
<1> QED BY <1>3, <1>4, <1>5 DEF SharedCurrent

\* A step that keeps the sidecars that stay true keeps the account of sidecars.
LEMMA SidecarsKept ==
    ASSUME SidecarsDescribeContent,
           \A b \in Blocks : slots'[b].sidecar # None =>
                /\ slots'[b].sidecar = slots[b].sidecar
                /\ slots'[b].owner = slots[b].owner
                /\ slots'[b].generation = slots[b].generation
                /\ \A s \in SequenceIds : \A i \in Private(s) :
                        s = slots[b].owner /\ seqs[s].ids[i].index = b =>
                            /\ i \in Private(s)'
                            /\ seqs'[s].ids[i] = seqs[s].ids[i]
                            /\ Content(seqs'[s].length, i) = Content(seqs[s].length, i)
    PROVE  SidecarsDescribeContent'
<1> SUFFICES ASSUME NEW b \in Blocks, slots'[b].sidecar # None
             PROVE  \E s \in SequenceIds : \E i \in Private(s)' :
                        /\ seqs'[s].ids[i] = [index |-> b, generation |-> slots'[b].generation]
                        /\ slots'[b].owner = s
                        /\ slots'[b].sidecar =
                              SmallerOf(LargerOf(seqs'[s].length - i * BlockSize, 0), BlockSize)
  BY DEF SidecarsDescribeContent
<1>1. PICK s \in SequenceIds : \E i \in Private(s) :
            /\ seqs[s].ids[i] = [index |-> b, generation |-> slots[b].generation]
            /\ slots[b].owner = s
            /\ slots[b].sidecar = SmallerOf(LargerOf(seqs[s].length - i * BlockSize, 0), BlockSize)
  BY DEF SidecarsDescribeContent
<1>2. PICK i \in Private(s) :
            /\ seqs[s].ids[i] = [index |-> b, generation |-> slots[b].generation]
            /\ slots[b].owner = s
            /\ slots[b].sidecar = SmallerOf(LargerOf(seqs[s].length - i * BlockSize, 0), BlockSize)
  BY <1>1
<1>3. seqs[s].ids[i].index = b
  BY <1>2
<1>4. /\ i \in Private(s)' /\ seqs'[s].ids[i] = seqs[s].ids[i]
      /\ Content(seqs'[s].length, i) = Content(seqs[s].length, i)
  BY <1>2, <1>3
<1>5. slots'[b].sidecar = Content(seqs'[s].length, i)
  BY <1>2, <1>4 DEF Content
<1> QED BY <1>2, <1>4, <1>5 DEF Content

-----------------------------------------------------------------------------
(* Steps that move no block. *)

\* Tokens stay spent if no sequence goes back.
LEMMA TokensKept ==
    ASSUME TypeOK, TokensSpent, tokens' \subseteq tokens,
           \A s \in SequenceIds : seqs[s].phase # "unborn" =>
                /\ seqs'[s].phase # "unborn"
                /\ seqs'[s].phase # "gone" =>
                        seqs[s].phase # "gone" /\ seqs'[s].nonce = seqs[s].nonce
    PROVE  TokensSpent'
<1> SUFFICES ASSUME NEW t \in tokens'
             PROVE  /\ seqs'[t.sequence].phase # "unborn"
                    /\ seqs'[t.sequence].phase # "gone" => t.nonce < seqs'[t.sequence].nonce
  BY DEF TokensSpent
<1>1. t \in tokens /\ t.sequence \in SequenceIds
  BY DEF TypeOK, Token
<1> QED BY <1>1 DEF TokensSpent

\* Tables fit if the one that changed does.
LEMMA TableChanged ==
    ASSUME TablesFit, seqs \in [SequenceIds -> SequenceState], NEW s \in SequenceIds,
           NEW q, TableFits(q), seqs' = [seqs EXCEPT ![s] = q]
    PROVE  TablesFit'
<1>1. seqs'[s] = q /\ \A r \in SequenceIds : r # s => seqs'[r] = seqs[r]
  OBVIOUS
<1>2. TableFits(seqs'[s])
  BY <1>1
<1>3. \A r \in SequenceIds : TableFits(seqs[r])
  BY DEF TablesFit
<1>4. \A r \in SequenceIds : TableFits(seqs'[r])
  BY <1>1, <1>2, <1>3
<1> QED BY <1>4 DEF TablesFit

\* create_sequence.
LEMMA CreateSequenceTables ==
    ASSUME IInv, TInv, NEW s \in SequenceIds, NEW maximum \in MaximumLengths,
           CreateSequence(s, maximum)
    PROVE  TInv'
<1>1. /\ TypeOK /\ seqs \in [SequenceIds -> SequenceState] /\ seqs[s] \in SequenceState
      /\ slots' = slots /\ tokens' = tokens /\ holds' = holds
      /\ seqs[s].phase = "unborn"
  BY DEF IInv, TypeOK, CreateSequence
<1> DEFINE q == [seqs[s] EXCEPT !.phase = "live", !.maximum = maximum]
<1>2. seqs' = [seqs EXCEPT ![s] = q]
  BY <1>1 DEF CreateSequence, SequenceState
<1>3. /\ q.phase = "live" /\ q.ids = seqs[s].ids /\ q.count = seqs[s].count
      /\ q.shared = seqs[s].shared /\ q.length = seqs[s].length /\ q.pending = seqs[s].pending
      /\ q.nonce = seqs[s].nonce
  BY <1>1 DEF SequenceState
<1>4. TableFits(seqs[s])
  BY DEF TInv, TablesFit
<1>5. seqs[s].count = 0 /\ seqs[s].shared = 0 /\ seqs[s].length = 0 /\ seqs[s].pending = None
  BY <1>1, <1>4 DEF TableFits
<1> HIDE DEF q
<1>6. TableFits(q)
  <2>1. 0 * BlockSize = 0
    BY ConstantsAssumption
  <2>2. Described(q) = 0
    BY <1>3, <1>5 DEF Described
  <2>3. \A i \in Index : ~(i < 0)
    BY IndexFinite
  <2> QED BY <1>3, <1>5, <2>1, <2>2, <2>3, NoBlocks DEF TableFits, LiveTableFits
<1>7. TablesFit'
  BY <1>1, <1>2, <1>6, TableChanged DEF TInv
<1>8. seqs'[s] = q /\ \A r \in SequenceIds : r # s => seqs'[r] = seqs[r]
  BY <1>1, <1>2
<1>9. SharedCurrent' /\ CountsExact'
  BY <1>1, <1>3, <1>8, ReadersKept
<1>10. \A r \in SequenceIds : Private(r)' = Private(r) /\ seqs'[r].ids = seqs[r].ids
                              /\ seqs'[r].length = seqs[r].length
  BY <1>3, <1>8 DEF Private, Held
<1>11. SidecarsDescribeContent'
  BY <1>1, <1>10, SidecarsKept DEF TInv
<1>12. TokensSpent'
  BY <1>1, <1>3, <1>8, TokensKept DEF TInv
<1> QED BY <1>7, <1>9, <1>11, <1>12 DEF TInv

\* abandon_for_reclaim.
LEMMA AbandonForReclaimTables ==
    ASSUME IInv, TInv, NEW s \in SequenceIds, AbandonForReclaim(s)
    PROVE  TInv'
<1>1. /\ TypeOK /\ seqs \in [SequenceIds -> SequenceState] /\ seqs[s] \in SequenceState
      /\ slots' = slots /\ tokens' = tokens /\ holds' = holds
      /\ seqs[s].phase = "live"
  BY DEF IInv, TypeOK, AbandonForReclaim
<1> DEFINE q == [seqs[s] EXCEPT !.phase = "orphan"]
<1>2. seqs' = [seqs EXCEPT ![s] = q]
  BY <1>1 DEF AbandonForReclaim, SequenceState
<1>3. /\ q.phase = "orphan" /\ q.ids = seqs[s].ids /\ q.count = seqs[s].count
      /\ q.shared = seqs[s].shared /\ q.length = seqs[s].length
      /\ q.nonce = seqs[s].nonce
  BY <1>1 DEF SequenceState
<1> HIDE DEF q
<1>4. TableFits(q)
  BY <1>3 DEF TableFits
<1>5. TablesFit'
  BY <1>1, <1>2, <1>4, TableChanged DEF TInv
<1>6. seqs'[s] = q /\ \A r \in SequenceIds : r # s => seqs'[r] = seqs[r]
  BY <1>1, <1>2
<1>7. SharedCurrent' /\ CountsExact'
  BY <1>1, <1>3, <1>6, ReadersKept
<1>8. \A r \in SequenceIds : Private(r)' = Private(r) /\ seqs'[r].ids = seqs[r].ids
                             /\ seqs'[r].length = seqs[r].length
  BY <1>3, <1>6 DEF Private, Held
<1>9. SidecarsDescribeContent'
  BY <1>1, <1>8, SidecarsKept DEF TInv
<1>10. TokensSpent'
  BY <1>1, <1>3, <1>6, TokensKept DEF TInv
<1> QED BY <1>5, <1>7, <1>9, <1>10 DEF TInv

\* A step that only loses a token, or none.
LEMMA TokensOnlyTables ==
    ASSUME IInv, TInv, UNCHANGED <<slots, seqs, holds>>, tokens' \subseteq tokens
    PROVE  TInv'
<1>1. TablesFit'
  BY DEF TInv, TablesFit
<1>2. SharedCurrent' /\ CountsExact'
  BY ReadersKept
<1>3. \A r \in SequenceIds : Private(r)' = Private(r)
  BY DEF Private, Held
<1>4. SidecarsDescribeContent'
  BY <1>3, SidecarsKept DEF TInv
<1>5. TokensSpent'
  BY TokensKept DEF IInv, TInv
<1> QED BY <1>1, <1>2, <1>4, <1>5 DEF TInv

\* attach_sidecar describes what is committed, not what a reservation will write.
LEMMA AttachSidecarTables ==
    ASSUME IInv, TInv, NEW s \in SequenceIds, NEW i \in Index, AttachSidecar(s, i)
    PROVE  TInv'
<1> DEFINE h == seqs[s].ids[i]
<1>1. /\ TypeOK /\ slots \in [Blocks -> Slot] /\ seqs \in [SequenceIds -> SequenceState]
      /\ seqs[s] \in SequenceState
      /\ seqs' = seqs /\ tokens' = tokens /\ holds' = holds
  BY DEF IInv, TypeOK, AttachSidecar
<1>2. /\ ValidBlock(h, s) /\ seqs[s].phase = "live" /\ seqs[s].pending = None
      /\ i < BlocksForLength(seqs[s].length)
  BY DEF AttachSidecar, Mutable
<1>3. h \in Handle /\ h.index \in Blocks
  BY <1>1, <1>2 DEF SequenceState, ValidBlock, Handle
<1>4. slots' = [slots EXCEPT ![h.index].sidecar = seqs[s].valid[i]]
  BY DEF AttachSidecar
<1>5. /\ seqs[s].count = BlocksForLength(seqs[s].length)
      /\ \A j \in Index : j < seqs[s].count => seqs[s].valid[j] = Content(seqs[s].length, j)
  BY <1>2 DEF TInv, TablesFit, TableFits, LiveTableFits, Described
<1>6. i \in Private(s)
  <2>1. ~(i < seqs[s].shared)
    <3> SUFFICES ASSUME i < seqs[s].shared PROVE FALSE
      OBVIOUS
    <3>1. slots[h.index].owner = SharedOwner
      BY SharedPositionValid
    <3> QED BY <1>2, <3>1, ConstantsAssumption DEF ValidBlock
  <2>2. i \in Nat /\ seqs[s].shared \in Nat
    BY <1>1, IndexFinite DEF SequenceState
  <2> QED BY <1>2, <1>5, <2>1, <2>2 DEF Private, Held
<1>7. seqs[s].valid[i] = Content(seqs[s].length, i)
  BY <1>2, <1>5
<1>8. h # None /\ slots[h.index].generation = h.generation /\ slots[h.index].owner = s
  BY <1>2 DEF ValidBlock
<1>9. h = [index |-> h.index, generation |-> h.generation]
  BY <1>3 DEF Handle
<1> DEFINE c == h.index
<1>10. c \in Blocks /\ slots[c] \in Slot
  BY <1>1, <1>3
<1>11. /\ slots'[c] = [slots[c] EXCEPT !.sidecar = seqs[s].valid[i]]
       /\ \A b \in Blocks : b # c => slots'[b] = slots[b]
  BY <1>1, <1>4, <1>10
<1>12. h = [index |-> c, generation |-> slots[c].generation]
  BY <1>8, <1>9
<1>13. slots[c].owner = s
  BY <1>8
<1> HIDE DEF c
<1>14. /\ slots'[c].owner = slots[c].owner /\ slots'[c].generation = slots[c].generation
       /\ slots'[c].references = slots[c].references /\ slots'[c].sidecar = seqs[s].valid[i]
  BY <1>10, <1>11 DEF Slot
<1>15. \A b \in Blocks : /\ slots'[b].references = slots[b].references
                         /\ slots'[b].generation = slots[b].generation
  BY <1>11, <1>14
<1>16. SharedCurrent' /\ CountsExact'
  BY <1>1, <1>15, ReadersKept
<1>17. \A r \in SequenceIds : Private(r)' = Private(r)
  BY <1>1 DEF Private, Held
<1>18. SidecarsDescribeContent'
  <2> SUFFICES ASSUME NEW b \in Blocks, slots'[b].sidecar # None
               PROVE  \E r \in SequenceIds : \E j \in Private(r)' :
                        /\ seqs'[r].ids[j] = [index |-> b, generation |-> slots'[b].generation]
                        /\ slots'[b].owner = r
                        /\ slots'[b].sidecar =
                              SmallerOf(LargerOf(seqs'[r].length - j * BlockSize, 0), BlockSize)
    BY DEF SidecarsDescribeContent
  <2>1. CASE b = c
    <3>1. i \in Private(s)' /\ seqs'[s].ids[i] = [index |-> b, generation |-> slots'[b].generation]
      BY <1>1, <1>6, <1>12, <1>14, <1>17, <2>1
    <3>2. slots'[b].owner = s
      BY <1>13, <1>14, <2>1
    <3>3. slots'[b].sidecar = SmallerOf(LargerOf(seqs'[s].length - i * BlockSize, 0), BlockSize)
      BY <1>1, <1>7, <1>14, <2>1 DEF Content
    <3> QED BY <3>1, <3>2, <3>3
  <2>2. CASE b # c
    <3>1. slots'[b] = slots[b]
      BY <1>11, <2>2
    <3>2. SidecarsDescribeContent
      BY DEF TInv
    <3> QED BY <1>1, <1>17, <3>1, <3>2 DEF SidecarsDescribeContent
  <2> QED BY <2>1, <2>2
<1>19. TablesFit'
  BY <1>1 DEF TInv, TablesFit
<1>20. TokensSpent'
  BY <1>1, TokensKept DEF TInv
<1> QED BY <1>16, <1>18, <1>19, <1>20 DEF TInv

\* A reserve_to that fails advances generations of free blocks, which nobody holds.
LEMMA ReserveExhaustedTables ==
    ASSUME IInv, TInv, NEW s \in SequenceIds, NEW target \in 0 .. MaxLength,
           ReserveExhausted(s, target)
    PROVE  TInv'
<1>1. /\ TypeOK /\ slots \in [Blocks -> Slot] /\ seqs' = seqs /\ tokens' = tokens /\ holds' = holds
  BY DEF IInv, TypeOK, ReserveExhausted
<1>2. PICK new \in FreshBlocks(seqs[s].count, BlocksForLength(target)), last \in Index :
        slots' = [b \in Blocks |->
                        IF \E i \in DOMAIN new : i < last /\ new[i] = b
                        THEN [slots[b] EXCEPT !.generation = @ + 1]
                        ELSE slots[b]]
  BY DEF ReserveExhausted
<1>3. \A i \in DOMAIN new : new[i] \in free
  BY DEF FreshBlocks
<1>4. ASSUME NEW b \in Blocks
      PROVE  /\ slots'[b].references = slots[b].references
             /\ slots'[b].owner = slots[b].owner
             /\ slots'[b].sidecar = slots[b].sidecar
             /\ slots[b].owner # None => slots'[b].generation = slots[b].generation
  <2>1. CASE \E i \in DOMAIN new : i < last /\ new[i] = b
    <3>1. slots'[b] = [slots[b] EXCEPT !.generation = @ + 1] /\ slots[b] \in Slot
      BY <1>1, <1>2, <2>1
    <3>2. slots[b].owner = None
      BY <1>3, <2>1 DEF IInv, FreeListExact
    <3> QED BY <3>1, <3>2 DEF Slot
  <2>2. CASE ~\E i \in DOMAIN new : i < last /\ new[i] = b
    BY <1>2, <2>2
  <2> QED BY <2>1, <2>2
<1>5. \A b \in Blocks : slots[b].references > 0 => slots[b].owner # None
  BY ConstantsAssumption DEF IInv, SharedHaveReferences
<1>6. SharedCurrent' /\ CountsExact'
  BY <1>1, <1>4, <1>5, ReadersKept
<1>7. \A r \in SequenceIds : Private(r)' = Private(r)
  BY <1>1 DEF Private, Held
<1>8. \A b \in Blocks : slots[b].sidecar # None => slots[b].owner # None
  BY ConstantsAssumption DEF TInv, SidecarsDescribeContent
<1>9. SidecarsDescribeContent'
  BY <1>1, <1>4, <1>7, <1>8, SidecarsKept DEF TInv
<1>10. TablesFit'
  BY <1>1 DEF TInv, TablesFit
<1>11. TokensSpent'
  BY <1>1, TokensKept DEF TInv
<1> QED BY <1>6, <1>9, <1>10, <1>11 DEF TInv

\* commit keeps only the sidecars of blocks that were full before.
LEMMA CommitTables ==
    ASSUME IInv, TInv, NEW s \in SequenceIds, NEW t \in tokens, Commit(s, t)
    PROVE  TInv'
<1>1. /\ TypeOK /\ slots \in [Blocks -> Slot] /\ seqs \in [SequenceIds -> SequenceState]
      /\ seqs[s] \in SequenceState /\ tokens' \subseteq tokens /\ holds' = holds
      /\ seqs[s].phase = "live"
  BY DEF IInv, TypeOK, Commit, Matches
<1>2. seqs[s].pending # None /\ seqs[s].pending.target = t.target /\ t.target \in Nat
  BY MatchedIsPending DEF Commit, Token
<1> DEFINE p == seqs[s]
           target == t.target
           q == [p EXCEPT !.pending = None, !.length = target]
<1>3. seqs' = [seqs EXCEPT ![s] = q]
  BY <1>1 DEF Commit, SequenceState
<1>4. /\ q.phase = "live" /\ q.ids = p.ids /\ q.count = p.count /\ q.shared = p.shared
      /\ q.length = target /\ q.pending = None /\ q.nonce = p.nonce /\ q.valid = p.valid
  BY <1>1 DEF SequenceState
<1>5. /\ p.shared * BlockSize <= p.length /\ target >= p.length
      /\ p.count = BlocksForLength(target)
      /\ \A i \in Index : i < p.count => p.valid[i] = Content(target, i)
      /\ p.shared \in Nat /\ p.length \in Nat /\ p.count \in Nat
  BY <1>1, <1>2 DEF TInv, TablesFit, TableFits, LiveTableFits, Described, SequenceState
<1> HIDE DEF q, target
<1>6. TableFits(q)
  <2>1. Described(q) = target
    BY <1>4 DEF Described
  <2>2. p.shared * BlockSize <= target
    <3> p.shared * BlockSize \in Nat /\ target \in Nat
      BY <1>2, <1>5, ConstantsAssumption DEF target
    <3> QED BY <1>5
  <2> QED BY <1>4, <1>5, <2>1, <2>2 DEF TableFits, LiveTableFits
<1>7. TablesFit'
  BY <1>1, <1>3, <1>6, TableChanged DEF TInv
<1>8. seqs'[s] = q /\ \A r \in SequenceIds : r # s => seqs'[r] = seqs[r]
  BY <1>1, <1>3
<1>9. \A b \in Blocks :
        slots'[b] = IF \E i \in Written(s) : p.ids[i].index = b
                    THEN [slots[b] EXCEPT !.sidecar = None] ELSE slots[b]
  BY DEF Commit, WithoutSidecars
<1>10. \A b \in Blocks : /\ slots'[b].owner = slots[b].owner
                         /\ slots'[b].references = slots[b].references
                         /\ slots'[b].generation = slots[b].generation
                         /\ slots'[b].sidecar # None => slots'[b].sidecar = slots[b].sidecar
                         /\ (\E i \in Written(s) : p.ids[i].index = b) => slots'[b].sidecar = None
  <2> TAKE b \in Blocks
  <2>1. slots[b] \in Slot
    BY <1>1
  <2>2. CASE \E i \in Written(s) : p.ids[i].index = b
    <3>1. slots'[b] = [slots[b] EXCEPT !.sidecar = None]
      BY <1>9, <2>2
    <3> QED BY <2>1, <3>1 DEF Slot
  <2>3. CASE ~\E i \in Written(s) : p.ids[i].index = b
    BY <1>9, <2>3
  <2> QED BY <2>2, <2>3
<1>11. SharedCurrent' /\ CountsExact'
  BY <1>1, <1>4, <1>8, <1>10, ReadersKept
<1>12. \A r \in SequenceIds : Private(r)' = Private(r) /\ seqs'[r].ids = seqs[r].ids
  BY <1>4, <1>8 DEF Private, Held
<1>13. ASSUME NEW i \in Private(s), i \notin Written(s)
       PROVE  Content(target, i) = Content(p.length, i)
  <2>1. i \in Index /\ i \in Nat /\ i < p.count
    BY IndexFinite DEF Private, Held
  <2>2. CASE target = p.length
    BY <2>2
  <2>3. CASE target # p.length
    <3>1. target > p.length /\ seqs[s].pending.target > seqs[s].length
      BY <1>2, <1>5, <2>3 DEF target
    <3>2. ~(i >= p.length \div BlockSize)
      BY <1>13, <2>1, <3>1 DEF Written
    <3> DEFINE d == p.length \div BlockSize
    <3>3. d \in Nat /\ BlockSize * d <= p.length /\ BlockSize \in Nat /\ BlockSize > 0
      BY <1>5, ConstantsAssumption, DivisionBounds
    <3>4. d >= i + 1
      BY <2>1, <3>2, <3>3
    <3> HIDE DEF d
    <3>5. BlockSize * d >= BlockSize * (i + 1) /\ BlockSize * (i + 1) = (i + 1) * BlockSize
      BY <2>1, <3>3, <3>4
    <3>6. (i + 1) * BlockSize <= p.length /\ (i + 1) * BlockSize <= target
      <4> (i + 1) * BlockSize \in Nat /\ BlockSize * d \in Nat /\ target \in Nat
        BY <1>2, <2>1, <3>3 DEF target
      <4> QED BY <1>5, <3>1, <3>3, <3>5
    <3>7. Content(p.length, i) = BlockSize
      BY <1>5, <2>1, <3>6, FullContent
    <3>8. Content(target, i) = BlockSize
      BY <1>2, <2>1, <3>6, FullContent DEF target
    <3> QED BY <3>7, <3>8
  <2> QED BY <2>2, <2>3
<1>14. ASSUME NEW b \in Blocks, slots'[b].sidecar # None, NEW r \in SequenceIds, NEW i \in Private(r),
              seqs[r].ids[i].index = b
       PROVE  Content(seqs'[r].length, i) = Content(seqs[r].length, i)
  <2>1. CASE r # s
    BY <1>8, <2>1
  <2>2. CASE r = s
    <3>1. i \notin Written(s)
      BY <1>10, <1>14, <2>2
    <3> QED BY <1>4, <1>8, <1>13, <2>2, <3>1
  <2> QED BY <2>1, <2>2
<1>15. SidecarsDescribeContent
  BY DEF TInv
<1>16. SidecarsDescribeContent'
  BY <1>10, <1>12, <1>14, <1>15, SidecarsKept
<1>17. TokensSpent'
  BY <1>1, <1>4, <1>8, TokensKept DEF TInv
<1> QED BY <1>7, <1>11, <1>16, <1>17 DEF TInv

-----------------------------------------------------------------------------
(* One sequence gives back the tail of its table. *)

\* What release_tail does to references and sidecars.
LEMMA TailSlots ==
    ASSUME TypeOK, SharedHaveReferences, PrivateBlocksExclusive,
           NEW s \in SequenceIds, NEW kept \in Nat, NEW b \in Blocks,
           Cardinality(SharedTail(s, kept, b)) <= slots[b].references
    PROVE  LET after == SlotsWithoutTail(s, kept)[b]
           IN  /\ after.references = slots[b].references - Cardinality(SharedTail(s, kept, b))
               /\ after.generation = slots[b].generation
               /\ after.sidecar # None => /\ after.sidecar = slots[b].sidecar
                                          /\ after.owner = slots[b].owner
                                          /\ b \notin PrivateTail(s, kept)
<1> DEFINE after == SlotsWithoutTail(s, kept)[b]
           k == Cardinality(SharedTail(s, kept, b))
<1>1. slots[b] \in Slot /\ slots[b].references \in Nat
  BY DEF TypeOK, Slot
<1>2. k \in Nat /\ k <= slots[b].references
  BY SharedTailCount
<1>3. CASE b \in PrivateTail(s, kept)
  <2>1. after = Released(slots[b])
    BY <1>3 DEF SlotsWithoutTail
  <2>2. slots[b].owner = s
    <3>1. PICK i \in Index : /\ i >= kept /\ i >= seqs[s].shared /\ i < seqs[s].count
                             /\ seqs[s].ids[i].index = b
      BY <1>3 DEF PrivateTail
    <3>2. i \in Private(s)
      BY <3>1 DEF Private, Held
    <3> QED BY <3>1, <3>2 DEF PrivateBlocksExclusive, ValidBlock
  <2>3. slots[b].references = 0
    BY <1>1, <2>2, ConstantsAssumption DEF SharedHaveReferences
  <2>4. after = [slots[b] EXCEPT !.owner = None, !.sidecar = None]
    BY <2>1 DEF Released
  <2> HIDE DEF after, k
  <2>5. after.references = slots[b].references /\ after.generation = slots[b].generation
        /\ after.sidecar = None
    BY <1>1, <2>4 DEF Slot
  <2> QED BY <1>1, <1>2, <2>3, <2>5 DEF after, k
<1>4. CASE b \notin PrivateTail(s, kept)
  <2>1. after = DropReferences(slots[b], k)
    BY <1>4 DEF SlotsWithoutTail
  <2> DEFINE less == [slots[b] EXCEPT !.references = slots[b].references - k]
  <2> HIDE DEF after, k
  <2>2. after = less \/ after = Released(less)
    BY <2>1 DEF DropReferences
  <2>3. /\ less.references = slots[b].references - k /\ less.generation = slots[b].generation
        /\ less.sidecar = slots[b].sidecar /\ less.owner = slots[b].owner
        /\ DOMAIN less = {"owner", "generation", "references", "sidecar"}
    BY <1>1 DEF Slot
  <2> HIDE DEF less
  <2>4. /\ Released(less).references = less.references
        /\ Released(less).generation = less.generation
        /\ Released(less).sidecar = None
    BY <2>3 DEF Released
  <2> QED BY <1>4, <2>2, <2>3, <2>4 DEF after, k
<1> QED BY <1>3, <1>4

\* Nothing shared is in a tail behind the shared prefix.
LEMMA NoSharedTail ==
    ASSUME TypeOK, NEW s \in SequenceIds, NEW kept \in Nat, seqs[s].shared <= kept, NEW b
    PROVE  Cardinality(SharedTail(s, kept, b)) = 0
<1>1. SharedTail(s, kept, b) = {}
  <2>1. seqs[s].shared \in Nat
    BY DEF TypeOK, SequenceState
  <2>2. SUFFICES ASSUME NEW i \in SharedTail(s, kept, b) PROVE FALSE
    OBVIOUS
  <2>3. i \in Nat /\ i >= kept /\ i < seqs[s].shared
    BY IndexFinite DEF SharedTail
  <2> QED BY <2>1, <2>3
<1> QED BY <1>1, FS_EmptySet

\* What else release_tail leaves alone in a table.
LEMMA TableWithoutTailFields ==
    ASSUME NEW q \in SequenceState, NEW kept \in Nat
    PROVE  LET t == TableWithoutTail(q, kept)
           IN  /\ t.phase = q.phase /\ t.length = q.length /\ t.nonce = q.nonce
               /\ t.poisoned = q.poisoned /\ t.maximum = q.maximum
               /\ \A i \in Index : i < kept => t.valid[i] = q.valid[i]
<1> DEFINE ids == [i \in Index |-> IF i >= kept /\ i < q.count THEN None ELSE q.ids[i]]
           valid == [i \in Index |-> IF i >= kept /\ i < q.count THEN 0 ELSE q.valid[i]]
           t == TableWithoutTail(q, kept)
<1>1. \A i \in Index : i < kept => valid[i] = q.valid[i]
  <2> TAKE i \in Index
  <2> HAVE i < kept
  <2>1. ~(i >= kept)
    BY IndexFinite
  <2> QED BY <2>1
<1>2. t = [q EXCEPT !.ids = ids, !.valid = valid, !.count = SmallerOf(q.count, kept),
                    !.shared = SmallerOf(q.shared, kept)]
  BY DEF TableWithoutTail
<1> HIDE DEF ids, valid, t
<1>3. /\ t.phase = q.phase /\ t.length = q.length /\ t.nonce = q.nonce
      /\ t.poisoned = q.poisoned /\ t.maximum = q.maximum /\ t.valid = valid
  BY <1>2 DEF SequenceState
<1> QED BY <1>1, <1>3 DEF t

\* The slots after s kept the first `kept` entries of its table, up to sidecars lost.
TailGone(s, kept) ==
    \A b \in Blocks :
        /\ slots'[b].owner = SlotsWithoutTail(s, kept)[b].owner
        /\ slots'[b].generation = SlotsWithoutTail(s, kept)[b].generation
        /\ slots'[b].references = SlotsWithoutTail(s, kept)[b].references
        /\ slots'[b].sidecar \in {None, SlotsWithoutTail(s, kept)[b].sidecar}

\* The table q that it keeps.
TableCut(q, s, kept) ==
    /\ q.count = SmallerOf(seqs[s].count, kept)
    /\ q.shared = SmallerOf(seqs[s].shared, kept)
    /\ \A i \in Index : q.ids[i] =
            IF i >= kept /\ i < seqs[s].count THEN None ELSE seqs[s].ids[i]

\* The blocks that keep a sidecar keep their content.
ContentKept(q, s, kept) ==
    \A i \in Private(s) :
        i < kept /\ slots'[seqs[s].ids[i].index].sidecar # None =>
            Content(q.length, i) = Content(seqs[s].length, i)

\* A sequence that gives back a tail behind its shared prefix keeps readers and
\* holders, and the sidecars of what it keeps if their content stays the same.
LEMMA TailKeeps ==
    ASSUME IInv, TInv, NEW s \in SequenceIds, NEW kept \in Nat, seqs[s].shared <= kept,
           TailGone(s, kept), NEW q, TableCut(q, s, kept), ContentKept(q, s, kept),
           seqs' = [seqs EXCEPT ![s] = q], holds' = holds
    PROVE  SharedCurrent' /\ CountsExact' /\ SidecarsDescribeContent'
<1>1. /\ TypeOK /\ SharedHaveReferences /\ PrivateBlocksExclusive
      /\ seqs \in [SequenceIds -> SequenceState] /\ slots \in [Blocks -> Slot]
  BY DEF IInv, TypeOK
<1>2. seqs'[s] = q /\ \A r \in SequenceIds : r # s => seqs'[r] = seqs[r]
  BY <1>1
<1>3. /\ seqs[s].count \in Nat /\ seqs[s].shared \in Nat /\ seqs[s].shared <= seqs[s].count
  BY <1>1 DEF TypeOK, SequenceState
<1>4. ASSUME NEW b \in Blocks
      PROVE  /\ slots'[b].references = slots[b].references
             /\ slots'[b].generation = slots[b].generation
             /\ slots'[b].sidecar # None =>
                    /\ slots'[b].sidecar = slots[b].sidecar
                    /\ slots'[b].owner = slots[b].owner
                    /\ b \notin PrivateTail(s, kept)
  <2>1. Cardinality(SharedTail(s, kept, b)) = 0 /\ slots[b].references \in Nat
    BY <1>1, NoSharedTail DEF Slot
  <2> DEFINE after == SlotsWithoutTail(s, kept)[b]
  <2>2. Cardinality(SharedTail(s, kept, b)) <= slots[b].references
    BY <2>1
  <2>3. /\ after.references = slots[b].references - Cardinality(SharedTail(s, kept, b))
        /\ after.generation = slots[b].generation
        /\ after.sidecar # None => /\ after.sidecar = slots[b].sidecar
                                   /\ after.owner = slots[b].owner
                                   /\ b \notin PrivateTail(s, kept)
    BY <1>1, <2>2, TailSlots
  <2>4. /\ slots'[b].owner = after.owner /\ slots'[b].generation = after.generation
        /\ slots'[b].references = after.references /\ slots'[b].sidecar \in {None, after.sidecar}
    BY DEF TailGone
  <2> HIDE DEF after
  <2> QED BY <2>1, <2>3, <2>4
<1>5. q.shared = seqs[s].shared
  BY <1>3 DEF TableCut, SmallerOf
<1>6. \A i \in Index : i < seqs[s].shared => q.ids[i] = seqs[s].ids[i]
  <2> TAKE i \in Index
  <2> HAVE i < seqs[s].shared
  <2>1. i \in Nat /\ ~(i >= kept)
    BY <1>3, IndexFinite
  <2> QED BY <2>1 DEF TableCut
<1>7. \A r \in SequenceIds :
        /\ seqs'[r].shared = seqs[r].shared
        /\ \A i \in Index : i < seqs[r].shared => seqs'[r].ids[i] = seqs[r].ids[i]
  BY <1>2, <1>5, <1>6
<1>8. SharedCurrent' /\ CountsExact'
  BY <1>4, <1>7, ReadersKept
<1>9. ASSUME NEW b \in Blocks, slots'[b].sidecar # None, NEW r \in SequenceIds, NEW i \in Private(r),
             seqs[r].ids[i].index = b
      PROVE  /\ i \in Private(r)'
             /\ seqs'[r].ids[i] = seqs[r].ids[i]
             /\ Content(seqs'[r].length, i) = Content(seqs[r].length, i)
  <2>1. CASE r # s
    <3>1. seqs'[r] = seqs[r]
      BY <1>2, <2>1
    <3> QED BY <3>1 DEF Private, Held
  <2>2. CASE r = s
    <3>1. i \in Index /\ i \in Nat /\ i < seqs[s].count /\ i >= seqs[s].shared
      BY <2>2, IndexFinite DEF Private, Held
    <3>2. i < kept
      <4> SUFFICES ASSUME i >= kept PROVE FALSE
        BY <3>1
      <4>1. b \in PrivateTail(s, kept)
        BY <1>9, <2>2, <3>1 DEF PrivateTail
      <4> QED BY <1>4, <1>9, <4>1
    <3>3. i < q.count /\ i >= q.shared
      BY <1>3, <1>5, <3>1, <3>2 DEF TableCut, SmallerOf
    <3>4. q.ids[i] = seqs[s].ids[i]
      BY <3>1, <3>2 DEF TableCut
    <3>5. Content(q.length, i) = Content(seqs[s].length, i)
      BY <1>9, <2>2, <3>2 DEF ContentKept
    <3> QED BY <1>2, <2>2, <3>1, <3>3, <3>4, <3>5 DEF Private, Held
  <2> QED BY <2>1, <2>2
<1>10. SidecarsDescribeContent'
  <2>1. SidecarsDescribeContent
    BY DEF TInv
  <2> QED BY <1>4, <1>9, <2>1, SidecarsKept
<1> QED BY <1>8, <1>10

\* The table a rollback returns to covers the committed length again.
LEMMA RolledBackFits ==
    ASSUME NEW p \in SequenceState, p.phase = "live", p.pending # None, LiveTableFits(p)
    PROVE  LET t == TableRolledBack(p)
           IN  /\ TableFits(t) /\ TableFits([t EXCEPT !.poisoned = TRUE])
               /\ t.phase = "live" /\ t.length = p.length /\ t.nonce = p.nonce
<1> DEFINE kept == p.pending.previous
           u == TableWithoutTail(p, kept)
           blocks == BlocksForLength(p.length)
           v == FillValidTokens(u.valid, p.length, blocks, u.count)
           t == TableRolledBack(p)
<1>1. /\ p.length \in Nat /\ p.count \in Nat /\ p.shared \in Nat
      /\ kept \in Nat /\ p.pending.target \in Nat
  BY DEF SequenceState, Pending
<1>2. /\ kept = blocks /\ p.pending.target >= p.length
      /\ p.count = BlocksForLength(p.pending.target)
      /\ p.shared * BlockSize <= p.length
  BY DEF LiveTableFits, Described
<1>3. blocks \in Nat /\ blocks <= p.count
  BY <1>1, <1>2, BlocksForLengthNat, BlocksForLengthMonotone
<1>4. p.shared <= blocks
  BY <1>1, <1>2, FullBlocksAreNeeded
<1>5. u \in SequenceState /\ u.count = SmallerOf(p.count, kept) /\ u.shared = SmallerOf(p.shared, kept)
  BY <1>1, TableWithoutTailType
<1>6. u.phase = p.phase /\ u.length = p.length /\ u.nonce = p.nonce
  BY <1>1, TableWithoutTailFields
<1>7. u.count = blocks /\ u.shared = p.shared
  BY <1>1, <1>2, <1>3, <1>4, <1>5 DEF SmallerOf
<1>8. t = [u EXCEPT !.valid = v, !.pending = None]
  BY DEF TableRolledBack
<1>9. \A i \in Index : i < blocks => v[i] = Content(p.length, i)
  BY FilledTokens
<1> DEFINE w == [t EXCEPT !.poisoned = TRUE]
<1> HIDE DEF u, v, t, kept, blocks
<1>10. /\ t.phase = u.phase /\ t.length = u.length /\ t.nonce = u.nonce /\ t.count = u.count
       /\ t.shared = u.shared /\ t.pending = None /\ t.valid = v
       /\ DOMAIN t = {"phase", "maximum", "ids", "valid", "count", "shared", "length", "nonce",
                      "pending", "poisoned"}
  BY <1>5, <1>8 DEF SequenceState
<1>11. /\ w.phase = t.phase /\ w.length = t.length /\ w.count = t.count
       /\ w.shared = t.shared /\ w.pending = t.pending /\ w.valid = t.valid
  BY <1>10
<1> HIDE DEF w
<1>12. Described(t) = p.length /\ Described(w) = p.length
  BY <1>6, <1>10, <1>11 DEF Described
<1>13. LiveTableFits(t)
  BY <1>2, <1>6, <1>7, <1>9, <1>10, <1>12 DEF LiveTableFits, blocks
<1>14. LiveTableFits(w)
  BY <1>2, <1>6, <1>7, <1>9, <1>10, <1>11, <1>12 DEF LiveTableFits, blocks
<1>15. t.phase = "live" /\ w.phase = "live" /\ t.length = p.length /\ t.nonce = p.nonce
  BY <1>6, <1>10, <1>11
<1>16. TableFits(t) /\ TableFits(w)
  BY <1>13, <1>14, <1>15 DEF TableFits
<1> QED BY <1>15, <1>16 DEF t, w

\* rollback, poison and rollback_abandoned_reservation return to the table the
\* reservation started from; poisoning or not, and losing sidecars or not.
LEMMA RolledBackTables ==
    ASSUME IInv, TInv, NEW s \in SequenceIds, seqs[s].phase = "live", seqs[s].pending # None,
           \A b \in Blocks :
                LET released == SlotsWithoutTail(s, seqs[s].pending.previous)[b]
                IN  slots'[b] = released \/ slots'[b] = [released EXCEPT !.sidecar = None],
           NEW q, q \in {TableRolledBack(seqs[s]), [TableRolledBack(seqs[s]) EXCEPT !.poisoned = TRUE]},
           seqs' = [seqs EXCEPT ![s] = q], tokens' \subseteq tokens, holds' = holds
    PROVE  TInv'
<1> DEFINE p == seqs[s]
           kept == p.pending.previous
           t == TableRolledBack(p)
<1>1. TypeOK /\ p \in SequenceState /\ seqs \in [SequenceIds -> SequenceState] /\ slots \in [Blocks -> Slot]
  BY DEF IInv, TypeOK
<1>2. /\ kept \in Nat /\ t \in SequenceState
      /\ t.count = SmallerOf(p.count, kept)
      /\ t.shared = SmallerOf(p.shared, kept)
      /\ \A i \in Index : t.ids[i] = IF i >= kept /\ i < p.count THEN None ELSE p.ids[i]
  BY <1>1, TableRolledBackType
<1>3. p.shared <= kept
  BY DEF IInv, TablesBounded
<1>4. LiveTableFits(p)
  BY DEF TInv, TablesFit, TableFits
<1>5. /\ TableFits(t) /\ TableFits([t EXCEPT !.poisoned = TRUE])
      /\ t.phase = "live" /\ t.length = p.length /\ t.nonce = p.nonce
  BY <1>1, <1>4, RolledBackFits
<1>6. q \in {t, [t EXCEPT !.poisoned = TRUE]}
  OBVIOUS
<1>7. \A b \in Blocks : SlotsWithoutTail(s, kept)[b] \in Slot
  BY RolledBackSlotsType
<1>8. \A b \in Blocks : \/ slots'[b] = SlotsWithoutTail(s, kept)[b]
                        \/ slots'[b] = [SlotsWithoutTail(s, kept)[b] EXCEPT !.sidecar = None]
  OBVIOUS
<1> HIDE DEF t, kept
<1>9. ASSUME NEW b \in Blocks
      PROVE  /\ slots'[b].owner = SlotsWithoutTail(s, kept)[b].owner
             /\ slots'[b].generation = SlotsWithoutTail(s, kept)[b].generation
             /\ slots'[b].references = SlotsWithoutTail(s, kept)[b].references
             /\ slots'[b].sidecar \in {None, SlotsWithoutTail(s, kept)[b].sidecar}
  <2> DEFINE x == SlotsWithoutTail(s, kept)[b]
  <2>1. x \in Slot /\ (slots'[b] = x \/ slots'[b] = [x EXCEPT !.sidecar = None])
    BY <1>7, <1>8
  <2> HIDE DEF x
  <2>2. /\ slots'[b].owner = x.owner /\ slots'[b].generation = x.generation
        /\ slots'[b].references = x.references /\ slots'[b].sidecar \in {None, x.sidecar}
    BY <2>1 DEF Slot
  <2> QED BY <2>2 DEF x
<1>10. /\ TableFits(q) /\ q.count = SmallerOf(p.count, kept) /\ q.shared = SmallerOf(p.shared, kept)
       /\ q.ids = t.ids /\ q.phase = "live" /\ q.length = p.length /\ q.nonce = p.nonce
  <2>1. CASE q = t
    BY <1>2, <1>5, <2>1
  <2>2. CASE q = [t EXCEPT !.poisoned = TRUE]
    <3>1. /\ q.count = t.count /\ q.shared = t.shared /\ q.ids = t.ids /\ q.phase = t.phase
          /\ q.length = t.length /\ q.nonce = t.nonce
      BY <1>2, <2>2 DEF SequenceState
    <3> QED BY <1>2, <1>5, <2>2, <3>1
  <2> QED BY <1>6, <2>1, <2>2
<1>11. \A i \in Index : q.ids[i] = IF i >= kept /\ i < p.count THEN None ELSE p.ids[i]
  BY <1>2, <1>10
<1>12. SharedCurrent' /\ CountsExact' /\ SidecarsDescribeContent'
  <2>1. TailGone(s, kept)
    BY <1>9 DEF TailGone
  <2>2. TableCut(q, s, kept)
    BY <1>10, <1>11 DEF TableCut
  <2>3. ContentKept(q, s, kept)
    BY <1>10 DEF ContentKept
  <2>4. seqs[s].shared <= kept /\ kept \in Nat
    BY <1>2, <1>3
  <2> QED BY <2>1, <2>2, <2>3, <2>4, TailKeeps
<1>13. TablesFit'
  BY <1>1, <1>10, TableChanged DEF TInv
<1>14. seqs'[s] = q /\ \A r \in SequenceIds : r # s => seqs'[r] = seqs[r]
  BY <1>1
<1>15. TokensSpent'
  BY <1>1, <1>10, <1>14, TokensKept DEF TInv
<1> QED BY <1>12, <1>13, <1>15 DEF TInv

\* rollback.
LEMMA RollbackTables ==
    ASSUME IInv, TInv, NEW s \in SequenceIds, NEW t \in tokens, Rollback(s, t)
    PROVE  TInv'
<1>1. seqs[s].pending # None /\ seqs[s].phase = "live"
  BY MatchedIsPending DEF Rollback, Matches
<1>2. seqs \in [SequenceIds -> SequenceState]
  BY DEF IInv, TypeOK
<1>3. seqs' = [seqs EXCEPT ![s] = TableRolledBack(seqs[s])] /\ tokens' \subseteq tokens /\ holds' = holds
  BY <1>2 DEF Rollback
<1>4. slots' = SlotsWithoutTail(s, seqs[s].pending.previous)
  BY DEF Rollback, RollbackPending, Settle
<1> QED BY <1>1, <1>3, <1>4, RolledBackTables

\* rollback_abandoned_reservation.
LEMMA RollbackAbandonedTables ==
    ASSUME IInv, TInv, NEW s \in SequenceIds, RollbackAbandonedReservation(s)
    PROVE  TInv'
<1>1. seqs[s].pending # None /\ seqs[s].phase = "live"
  BY DEF RollbackAbandonedReservation
<1>2. seqs \in [SequenceIds -> SequenceState]
  BY DEF IInv, TypeOK
<1>3. /\ seqs' = [seqs EXCEPT ![s] = [TableRolledBack(seqs[s]) EXCEPT !.poisoned = TRUE]]
      /\ tokens' \subseteq tokens /\ holds' = holds
  BY <1>2 DEF RollbackAbandonedReservation
<1>4. slots' = SlotsWithoutTail(s, seqs[s].pending.previous)
  BY DEF RollbackAbandonedReservation, RollbackPending, Settle
<1> QED BY <1>1, <1>3, <1>4, RolledBackTables

\* poison.
LEMMA PoisonTables ==
    ASSUME IInv, TInv, NEW s \in SequenceIds, NEW t \in tokens, Poison(s, t)
    PROVE  TInv'
<1>1. seqs[s].pending # None /\ seqs[s].phase = "live"
  BY MatchedIsPending DEF Poison, Matches
<1>2. seqs \in [SequenceIds -> SequenceState]
  BY DEF IInv, TypeOK
<1>3. /\ seqs' = [seqs EXCEPT ![s] = [TableRolledBack(seqs[s]) EXCEPT !.poisoned = TRUE]]
      /\ tokens' \subseteq tokens /\ holds' = holds
  BY <1>2 DEF Poison
<1>4. slots' = PoisonedSlots(s)
  BY DEF Poison, Settle
<1>5. \A b \in Blocks :
        LET released == SlotsWithoutTail(s, seqs[s].pending.previous)[b]
        IN  slots'[b] = released \/ slots'[b] = [released EXCEPT !.sidecar = None]
  BY <1>4 DEF PoisonedSlots
<1> QED BY <1>1, <1>3, <1>5, RolledBackTables

\* truncate_to drops the sidecar of the block it cuts, and keeps full blocks full.
LEMMA TruncateToTables ==
    ASSUME IInv, TInv, NEW s \in SequenceIds, NEW target \in 0 .. MaxLength, TruncateTo(s, target)
    PROVE  TInv'
<1> DEFINE p == seqs[s]
           blocks == BlocksForLength(target)
           t == TableWithoutTail(p, blocks)
           v == FillValidTokens(t.valid, target, blocks, t.count)
           q == [t EXCEPT !.length = target, !.valid = v]
           tail == blocks > p.shared /\ target # p.length
<1>1. /\ TypeOK /\ SharedHaveReferences /\ PrivateBlocksExclusive /\ p \in SequenceState
      /\ seqs \in [SequenceIds -> SequenceState] /\ slots \in [Blocks -> Slot]
      /\ tokens' \subseteq tokens /\ holds' = holds
  BY DEF IInv, TypeOK, TruncateTo
<1>2. /\ target \in Nat /\ blocks \in Nat /\ p.pending = None /\ p.phase = "live"
      /\ target >= p.shared * BlockSize /\ target <= p.length
      /\ p.shared \in Nat /\ p.length \in Nat /\ p.count \in Nat
  BY <1>1, ConstantsAssumption, BlocksForLengthNat
  DEF TruncateTo, TruncatePreflight, Mutable, SequenceState
<1>3. p.shared <= blocks
  BY <1>2, FullBlocksAreNeeded
<1>4. p.count = BlocksForLength(p.length)
  BY <1>2 DEF TInv, TablesFit, TableFits, LiveTableFits, Described
<1>5. blocks <= p.count
  BY <1>2, <1>4, BlocksForLengthMonotone
<1>6. seqs' = [seqs EXCEPT ![s] = q]
  BY DEF TruncateTo
<1>7. /\ \A b \in Blocks : \/ slots'[b] = SlotsWithoutTail(s, blocks)[b]
                           \/ slots'[b] = [SlotsWithoutTail(s, blocks)[b] EXCEPT !.sidecar = None]
      /\ \A b \in Blocks : tail /\ p.ids[blocks - 1].index = b =>
                                slots'[b] = [SlotsWithoutTail(s, blocks)[b] EXCEPT !.sidecar = None]
  BY DEF TruncateTo, Settle
<1>8. \A i \in Nat : i + 1 < blocks => (i + 1) * BlockSize <= target
  BY <1>2, BlocksCover
<1>9. \A i \in Index : i < blocks => v[i] = Content(target, i)
  BY FilledTokens
<1> HIDE DEF blocks
<1>10. /\ t \in SequenceState
       /\ t.count = SmallerOf(p.count, blocks)
       /\ t.shared = SmallerOf(p.shared, blocks)
       /\ t.pending = p.pending
       /\ \A i \in Index : t.ids[i] = IF i >= blocks /\ i < p.count THEN None ELSE p.ids[i]
  BY <1>1, <1>2, TableWithoutTailType
<1>11. t.phase = p.phase /\ t.nonce = p.nonce
  BY <1>1, <1>2, TableWithoutTailFields
<1> HIDE DEF t, v
<1>12. /\ q.phase = t.phase /\ q.nonce = t.nonce /\ q.count = t.count /\ q.shared = t.shared
       /\ q.ids = t.ids /\ q.pending = t.pending /\ q.length = target /\ q.valid = v
  BY <1>10 DEF SequenceState
<1> HIDE DEF q
<1>13. q.count = blocks /\ q.shared = p.shared
  BY <1>2, <1>3, <1>5, <1>10, <1>12 DEF SmallerOf
<1>14. TableFits(q)
  <2>1. Described(q) = target
    BY <1>2, <1>10, <1>12 DEF Described
  <2>2. q.shared * BlockSize <= target
    <3> p.shared * BlockSize \in Nat
      BY <1>2, ConstantsAssumption
    <3> QED BY <1>2, <1>13
  <2> QED BY <1>2, <1>9, <1>10, <1>11, <1>12, <1>13, <2>1, <2>2 DEF TableFits, LiveTableFits, blocks
<1>15. TablesFit'
  BY <1>1, <1>6, <1>14, TableChanged DEF TInv
<1>16. \A b \in Blocks : SlotsWithoutTail(s, blocks)[b] \in Slot
  <2>1. \A b \in Blocks : Cardinality(SharedTail(s, blocks, b)) <= slots[b].references
    BY <1>1, <1>2, <1>3, KeepsSharedPrefix
  <2> QED BY <1>1, <1>2, <2>1, SlotsWithoutTailFacts
<1> HIDE DEF tail
<1>17. ASSUME NEW b \in Blocks
       PROVE  /\ slots'[b].owner = SlotsWithoutTail(s, blocks)[b].owner
              /\ slots'[b].generation = SlotsWithoutTail(s, blocks)[b].generation
              /\ slots'[b].references = SlotsWithoutTail(s, blocks)[b].references
              /\ slots'[b].sidecar \in {None, SlotsWithoutTail(s, blocks)[b].sidecar}
              /\ tail /\ p.ids[blocks - 1].index = b => slots'[b].sidecar = None
  <2> DEFINE x == SlotsWithoutTail(s, blocks)[b]
  <2>1. /\ x \in Slot /\ (slots'[b] = x \/ slots'[b] = [x EXCEPT !.sidecar = None])
        /\ tail /\ p.ids[blocks - 1].index = b => slots'[b] = [x EXCEPT !.sidecar = None]
    BY <1>7, <1>16
  <2> HIDE DEF x
  <2>2. /\ slots'[b].owner = x.owner /\ slots'[b].generation = x.generation
        /\ slots'[b].references = x.references /\ slots'[b].sidecar \in {None, x.sidecar}
        /\ tail /\ p.ids[blocks - 1].index = b => slots'[b].sidecar = None
    BY <2>1 DEF Slot
  <2> QED BY <2>2 DEF x
<1>18. ASSUME NEW i \in Private(s), i < blocks, slots'[p.ids[i].index].sidecar # None
       PROVE  Content(q.length, i) = Content(p.length, i)
  <2>1. i \in Index /\ i \in Nat /\ i < p.count /\ i >= p.shared
    BY IndexFinite DEF Private, Held
  <2>2. CASE target = p.length
    BY <1>12, <2>2
  <2>3. CASE target # p.length
    <3>1. tail
      BY <1>2, <1>18, <2>1, <2>3 DEF tail
    <3>2. p.ids[i].index \in Blocks
      <4>1. ValidBlock(p.ids[i], s)
        BY <1>1, <1>18 DEF PrivateBlocksExclusive
      <4> QED BY <1>1, <2>1, <4>1 DEF SequenceState, ValidBlock, Handle
    <3>3. i # blocks - 1
      BY <1>17, <1>18, <3>1, <3>2
    <3>4. i + 1 < blocks
      BY <1>2, <1>18, <2>1, <3>3
    <3>5. (i + 1) * BlockSize <= target
      BY <1>8, <2>1, <3>4
    <3>6. (i + 1) * BlockSize <= p.length
      <4> (i + 1) * BlockSize \in Nat
        BY <2>1, ConstantsAssumption
      <4> QED BY <1>2, <3>5
    <3>7. Content(target, i) = BlockSize
      BY <1>2, <2>1, <3>5, FullContent
    <3>8. Content(p.length, i) = BlockSize
      BY <1>2, <2>1, <3>6, FullContent
    <3> QED BY <1>12, <3>7, <3>8
  <2> QED BY <2>2, <2>3
<1>19. \A i \in Index : q.ids[i] = IF i >= blocks /\ i < p.count THEN None ELSE p.ids[i]
  BY <1>10, <1>12
<1>20. q.count = SmallerOf(p.count, blocks) /\ q.shared = SmallerOf(p.shared, blocks)
  BY <1>10, <1>12
<1>21. SharedCurrent' /\ CountsExact' /\ SidecarsDescribeContent'
  <2>1. TailGone(s, blocks)
    BY <1>17 DEF TailGone
  <2>2. TableCut(q, s, blocks)
    BY <1>19, <1>20 DEF TableCut
  <2>3. ContentKept(q, s, blocks)
    BY <1>18 DEF ContentKept
  <2>4. seqs[s].shared <= blocks /\ blocks \in Nat
    BY <1>2, <1>3
  <2> QED BY <1>1, <1>6, <2>1, <2>2, <2>3, <2>4, TailKeeps
<1>22. seqs'[s] = q /\ \A r \in SequenceIds : r # s => seqs'[r] = seqs[r]
  BY <1>1, <1>6
<1>23. TokensSpent'
  BY <1>1, <1>11, <1>12, <1>22, TokensKept DEF TInv
<1> QED BY <1>15, <1>21, <1>23 DEF TInv

-----------------------------------------------------------------------------
(* One sequence gives back its whole table. *)

\* The references of the sequence are the ones its shared prefix holds.
LEMMA ReadersWithout ==
    ASSUME NEW s \in SequenceIds, NEW q, q.shared = 0, NEW b,
           seqs'[s] = q, \A r \in SequenceIds : r # s => seqs'[r] = seqs[r]
    PROVE  Cardinality(Readers(b)') = Cardinality(Readers(b)) - Cardinality(SharedTail(s, 0, b))
<1> DEFINE mine == {s} \X SharedTail(s, 0, b)
<1>1. mine \subseteq Readers(b)
  BY DEF SharedTail, Readers
<1>2. \A i \in Index : ~(i < 0) /\ i >= 0
  BY IndexFinite
<1>3. ASSUME NEW x \in Readers(b)' PROVE x \in Readers(b) \ mine
  <2>1. x \in SequenceIds \X Index /\ x[2] < seqs'[x[1]].shared /\ seqs'[x[1]].ids[x[2]].index = b
    BY <1>3 DEF Readers
  <2>2. x[1] \in SequenceIds /\ x[2] \in Index
    BY <2>1
  <2>3. x[1] # s
    BY <1>2, <2>1, <2>2
  <2>4. seqs'[x[1]] = seqs[x[1]]
    BY <2>2, <2>3
  <2>5. x \in Readers(b)
    BY <2>1, <2>4 DEF Readers
  <2>6. x \notin mine
    BY <2>3
  <2> QED BY <2>5, <2>6
<1>4. ASSUME NEW x \in Readers(b), x \notin mine PROVE x \in Readers(b)'
  <2>1. x \in SequenceIds \X Index /\ x[2] < seqs[x[1]].shared /\ seqs[x[1]].ids[x[2]].index = b
    BY <1>4 DEF Readers
  <2>2. x[1] \in SequenceIds /\ x[2] \in Index /\ x = <<x[1], x[2]>>
    BY <2>1
  <2>3. x[1] # s
    <3> SUFFICES ASSUME x[1] = s PROVE FALSE
      OBVIOUS
    <3>1. x[2] \in SharedTail(s, 0, b)
      BY <1>2, <2>1, <2>2 DEF SharedTail
    <3> QED BY <1>4, <2>2, <3>1
  <2>4. seqs'[x[1]] = seqs[x[1]]
    BY <2>2, <2>3
  <2> QED BY <2>1, <2>4 DEF Readers
<1>5. Readers(b)' = Readers(b) \ mine
  BY <1>3, <1>4
<1>6. IsFiniteSet(Readers(b)) /\ Cardinality(Readers(b)) \in Nat
  BY ReadersFinite
<1>7. Cardinality(Readers(b) \ mine) = Cardinality(Readers(b)) - Cardinality(Readers(b) \cap mine)
  BY <1>6, FS_Difference
<1>8. Readers(b) \cap mine = mine
  BY <1>1
<1>9. Cardinality(mine) = Cardinality(SharedTail(s, 0, b))
  <2>1. SharedTail(s, 0, b) \subseteq Index
    BY DEF SharedTail
  <2>2. IsFiniteSet(SharedTail(s, 0, b)) /\ Cardinality(SharedTail(s, 0, b)) \in Nat
    BY <2>1, IndexFinite, FS_Subset, FS_CardinalityType
  <2>3. IsFiniteSet({s}) /\ Cardinality({s}) = 1
    BY FS_Singleton
  <2>4. Cardinality(mine) = Cardinality({s}) * Cardinality(SharedTail(s, 0, b))
    BY <2>2, <2>3, FS_Product
  <2> QED BY <2>2, <2>3, <2>4
<1> HIDE DEF mine
<1> QED BY <1>5, <1>7, <1>8, <1>9

\* A sequence that gives back its whole table leaves exact accounts.
LEMMA TableDropped ==
    ASSUME IInv, TInv, NEW s \in SequenceIds,
           \A b \in Blocks : Cardinality(SharedTail(s, 0, b)) <= slots[b].references,
           slots' = SlotsWithoutTail(s, 0),
           NEW q, q.shared = 0, seqs' = [seqs EXCEPT ![s] = q], holds' = holds
    PROVE  SharedCurrent' /\ CountsExact' /\ SidecarsDescribeContent'
<1>1. /\ TypeOK /\ SharedHaveReferences /\ PrivateBlocksExclusive
      /\ seqs \in [SequenceIds -> SequenceState] /\ slots \in [Blocks -> Slot]
      /\ SharedCurrent /\ CountsExact /\ SidecarsDescribeContent
  BY DEF IInv, TInv, TypeOK
<1>2. seqs'[s] = q /\ \A r \in SequenceIds : r # s => seqs'[r] = seqs[r]
  BY <1>1
<1>3. ASSUME NEW b \in Blocks
      PROVE  /\ slots'[b].references = slots[b].references - Cardinality(SharedTail(s, 0, b))
             /\ slots'[b].generation = slots[b].generation
             /\ slots'[b].sidecar # None => /\ slots'[b].sidecar = slots[b].sidecar
                                            /\ slots'[b].owner = slots[b].owner
                                            /\ b \notin PrivateTail(s, 0)
  BY <1>1, TailSlots
<1>4. CountsExact'
  <2> SUFFICES ASSUME NEW b \in Blocks
               PROVE  slots'[b].references = Cardinality(Readers(b)') + Cardinality(Holders(b)')
    BY DEF CountsExact
  <2>1. Cardinality(Readers(b)') = Cardinality(Readers(b)) - Cardinality(SharedTail(s, 0, b))
    BY <1>2, ReadersWithout
  <2>2. Holders(b)' = Holders(b)
    BY DEF Holders
  <2>3. slots[b].references = Cardinality(Readers(b)) + Cardinality(Holders(b))
    BY <1>1 DEF CountsExact
  <2>4. /\ Cardinality(Readers(b)) \in Nat /\ Cardinality(Holders(b)) \in Nat
        /\ Cardinality(SharedTail(s, 0, b)) \in Nat
    BY <1>1, ReadersFinite, HoldersFinite, SharedTailCount
  <2>5. slots'[b].references = slots[b].references - Cardinality(SharedTail(s, 0, b))
    BY <1>3
  <2> QED BY <2>1, <2>2, <2>3, <2>4, <2>5
<1>5. SharedCurrent'
  <2>1. ASSUME NEW r \in SequenceIds, NEW i \in Index, i < seqs'[r].shared
        PROVE  /\ seqs'[r].ids[i] # None
               /\ slots'[seqs'[r].ids[i].index].generation = seqs'[r].ids[i].generation
    <3>1. r # s
      BY <1>2, <2>1, IndexFinite
    <3>2. seqs'[r] = seqs[r]
      BY <1>2, <3>1
    <3>3. seqs[r].ids[i].index \in Blocks
      BY <1>1, <2>1, <3>2, SharedPosition
    <3> QED BY <1>1, <1>3, <2>1, <3>2, <3>3 DEF SharedCurrent
  <2>2. ASSUME NEW h \in holds PROVE slots'[h.index].generation = h.generation
    <3>1. h.index \in Blocks
      BY HolderValid
    <3> QED BY <1>1, <1>3, <3>1 DEF SharedCurrent
  <2> QED BY <2>1, <2>2 DEF SharedCurrent
<1>6. ASSUME NEW b \in Blocks, slots'[b].sidecar # None, NEW r \in SequenceIds, NEW i \in Private(r),
             seqs[r].ids[i].index = b
      PROVE  /\ i \in Private(r)'
             /\ seqs'[r].ids[i] = seqs[r].ids[i]
             /\ Content(seqs'[r].length, i) = Content(seqs[r].length, i)
  <2>1. r # s
    <3> SUFFICES ASSUME r = s PROVE FALSE
      OBVIOUS
    <3>1. i \in Index /\ i >= 0 /\ i < seqs[s].count /\ i >= seqs[s].shared
      BY IndexFinite DEF Private, Held
    <3>2. b \in PrivateTail(s, 0)
      BY <1>6, <3>1 DEF PrivateTail
    <3> QED BY <1>3, <1>6, <3>2
  <2>2. seqs'[r] = seqs[r]
    BY <1>2, <2>1
  <2> QED BY <2>2 DEF Private, Held
<1>7. SidecarsDescribeContent'
  BY <1>1, <1>3, <1>6, SidecarsKept
<1> QED BY <1>4, <1>5, <1>7

\* reset and close.
LEMMA ResetTables ==
    ASSUME IInv, TInv, NEW s \in SequenceIds, Reset(s)
    PROVE  TInv'
<1> DEFINE t == TableWithoutTail(seqs[s], 0)
           q == TableReset(seqs[s])
<1>1. /\ TypeOK /\ seqs \in [SequenceIds -> SequenceState] /\ seqs[s] \in SequenceState
      /\ tokens' = tokens /\ holds' = holds /\ seqs[s].phase = "live"
  BY DEF IInv, TypeOK, Reset
<1>2. /\ \A b \in Blocks : Cardinality(SharedTail(s, 0, b)) <= slots[b].references
      /\ slots' = SlotsWithoutTail(s, 0) /\ seqs' = [seqs EXCEPT ![s] = q]
  BY DEF Reset, Settle
<1>3. /\ t \in SequenceState
      /\ t.count = SmallerOf(seqs[s].count, 0)
      /\ t.shared = SmallerOf(seqs[s].shared, 0)
  BY <1>1, TableWithoutTailType
<1>4. t.phase = seqs[s].phase /\ t.nonce = seqs[s].nonce
  BY <1>1, TableWithoutTailFields
<1>5. seqs[s].count \in Nat /\ seqs[s].shared \in Nat
  BY <1>1 DEF SequenceState
<1>6. q = [t EXCEPT !.length = 0, !.pending = None, !.poisoned = FALSE]
  BY DEF TableReset
<1> HIDE DEF t, q
<1>7. /\ q.count = t.count /\ q.shared = t.shared /\ q.pending = None /\ q.length = 0
      /\ q.phase = "live" /\ q.nonce = seqs[s].nonce
  BY <1>1, <1>3, <1>4, <1>6 DEF SequenceState
<1>8. q.count = 0 /\ q.shared = 0
  BY <1>3, <1>5, <1>7 DEF SmallerOf
<1>9. TableFits(q)
  <2>1. 0 * BlockSize = 0
    BY ConstantsAssumption
  <2>2. Described(q) = 0
    BY <1>7 DEF Described
  <2>3. \A i \in Index : ~(i < 0)
    BY IndexFinite
  <2> QED BY <1>7, <1>8, <2>1, <2>2, <2>3, NoBlocks DEF TableFits, LiveTableFits
<1>10. TablesFit'
  BY <1>1, <1>2, <1>9, TableChanged DEF TInv
<1>11. SharedCurrent' /\ CountsExact' /\ SidecarsDescribeContent'
  BY <1>1, <1>2, <1>8, TableDropped
<1>12. seqs'[s] = q /\ \A r \in SequenceIds : r # s => seqs'[r] = seqs[r]
  BY <1>1, <1>2
<1>13. TokensSpent'
  BY <1>1, <1>7, <1>12, TokensKept DEF TInv
<1> QED BY <1>10, <1>11, <1>13 DEF TInv

\* reclaim_sequence.
LEMMA ReclaimSequenceTables ==
    ASSUME IInv, TInv, NEW s \in SequenceIds, ReclaimSequence(s)
    PROVE  TInv'
<1> DEFINE q == [Unborn EXCEPT !.phase = "gone"]
<1>1. /\ TypeOK /\ seqs \in [SequenceIds -> SequenceState] /\ seqs[s] \in SequenceState
      /\ PrivateBlocksExclusive
      /\ tokens' = tokens /\ holds' = holds
  BY DEF IInv, TypeOK, ReclaimSequence
<1>2. /\ \A b \in Blocks : Cardinality(SharedTail(s, 0, b)) <= slots[b].references
      /\ slots' = [b \in Blocks |->
                        IF slots[b].owner = s
                        THEN Released(slots[b])
                        ELSE DropReferences(slots[b], Cardinality(SharedTail(s, 0, b)))]
      /\ seqs' = [seqs EXCEPT ![s] = q]
  BY DEF ReclaimSequence, Settle
<1>3. \A b \in Blocks : b \in PrivateTail(s, 0) <=> slots[b].owner = s
  BY <1>1, OwnedIsPrivateTail
<1>4. slots' = SlotsWithoutTail(s, 0)
  BY <1>2, <1>3 DEF SlotsWithoutTail
<1>5. /\ q.phase = "gone" /\ q.count = 0 /\ q.shared = 0 /\ q.length = 0 /\ q.pending = None
  BY DEF Unborn
<1> HIDE DEF q
<1>6. TableFits(q)
  BY <1>5 DEF TableFits
<1>7. TablesFit'
  BY <1>1, <1>2, <1>6, TableChanged DEF TInv
<1>8. SharedCurrent' /\ CountsExact' /\ SidecarsDescribeContent'
  BY <1>1, <1>2, <1>4, <1>5, TableDropped
<1>9. seqs'[s] = q /\ \A r \in SequenceIds : r # s => seqs'[r] = seqs[r]
  BY <1>1, <1>2
<1>10. TokensSpent'
  BY <1>1, <1>5, <1>9, TokensKept DEF TInv
<1> QED BY <1>7, <1>8, <1>10 DEF TInv

-----------------------------------------------------------------------------
(* Shared blocks change hands. *)

\* The shared prefix of s grows by the handle h.
PrefixGrows(s, h) ==
    /\ seqs[s].shared \in Index
    /\ seqs'[s].shared = seqs[s].shared + 1
    /\ seqs'[s].ids[seqs[s].shared] = h
    /\ \A j \in Index : j < seqs[s].shared => seqs'[s].ids[j] = seqs[s].ids[j]
    /\ \A r \in SequenceIds : r # s => seqs'[r] = seqs[r]

\* That gives its block one more reader, and no other block.
LEMMA ReadersGrow ==
    ASSUME NEW s \in SequenceIds, NEW h, PrefixGrows(s, h)
    PROVE  /\ Cardinality(Readers(h.index)') = Cardinality(Readers(h.index)) + 1
           /\ \A b : b # h.index => Readers(b)' = Readers(b)
<1> DEFINE k == seqs[s].shared
           new == <<s, k>>
<1>1. k \in Index /\ k \in Nat
  BY IndexFinite DEF PrefixGrows
<1>2. \A j \in Index : j < k + 1 <=> j < k \/ j = k
  BY <1>1, IndexFinite
<1>3. ~(k < k)
  BY <1>1
<1>4. \A r \in SequenceIds : \A j \in Index :
        (j < seqs'[r].shared) <=> (j < seqs[r].shared) \/ (r = s /\ j = k)
  BY <1>2 DEF PrefixGrows
<1>5. \A r \in SequenceIds : \A j \in Index :
        j < seqs[r].shared => seqs'[r].ids[j] = seqs[r].ids[j]
  BY DEF PrefixGrows
<1>6. seqs'[s].ids[k] = h
  BY DEF PrefixGrows
<1> HIDE DEF k
<1>7. ASSUME NEW b, NEW r \in SequenceIds, NEW j \in Index
      PROVE  <<r, j>> \in Readers(b)' <=>
                <<r, j>> \in Readers(b) \/ (b = h.index /\ <<r, j>> = new)
  <2>1. <<r, j>> \in Readers(b)' <=> j < seqs'[r].shared /\ seqs'[r].ids[j].index = b
    BY DEF Readers
  <2>2. <<r, j>> \in Readers(b) <=> j < seqs[r].shared /\ seqs[r].ids[j].index = b
    BY DEF Readers
  <2>3. <<r, j>> = new <=> r = s /\ j = k
    OBVIOUS
  <2>4. k < seqs[s].shared <=> FALSE
    BY <1>3 DEF k
  <2>5. CASE r = s /\ j = k
    BY <1>4, <1>6, <2>1, <2>2, <2>3, <2>4, <2>5
  <2>6. CASE ~(r = s /\ j = k)
    BY <1>4, <1>5, <2>1, <2>2, <2>3, <2>6
  <2> QED BY <2>5, <2>6
<1>8. \A b : Readers(b) \subseteq SequenceIds \X Index /\ Readers(b)' \subseteq SequenceIds \X Index
  BY DEF Readers
<1>9. new \in SequenceIds \X Index
  BY <1>1
<1>10. new \notin Readers(h.index)
  BY <1>3 DEF Readers, k
<1> HIDE DEF new
<1>11. ASSUME NEW b, b # h.index PROVE Readers(b)' = Readers(b)
  <2>1. \A x \in SequenceIds \X Index : x \in Readers(b)' <=> x \in Readers(b)
    BY <1>7, <1>11
  <2> QED BY <1>8, <2>1
<1>12. Readers(h.index)' = Readers(h.index) \cup {new}
  <2>1. \A x \in SequenceIds \X Index :
            x \in Readers(h.index)' <=> x \in Readers(h.index) \cup {new}
    BY <1>7
  <2> QED BY <1>8, <1>9, <2>1
<1>13. IsFiniteSet(Readers(h.index))
  BY ReadersFinite
<1>14. Cardinality(Readers(h.index) \cup {new}) = Cardinality(Readers(h.index)) + 1
  BY <1>10, <1>13, FS_AddElement
<1> QED BY <1>11, <1>12, <1>14

\* The handles that hold references stay current if no lease ends.
LEMMA CurrentGrows ==
    ASSUME TypeOK, SharedCurrent, NEW s \in SequenceIds, NEW h, PrefixGrows(s, h), h # None,
           slots[h.index].generation = h.generation, h.index \in Blocks,
           \A b \in Blocks : slots'[b].generation = slots[b].generation,
           holds' \subseteq holds \cup {h}
    PROVE  SharedCurrent'
<1>1. ASSUME NEW r \in SequenceIds, NEW i \in Index, i < seqs'[r].shared
      PROVE  /\ seqs'[r].ids[i] # None
             /\ slots'[seqs'[r].ids[i].index].generation = seqs'[r].ids[i].generation
  <2>1. i < seqs[r].shared \/ (r = s /\ i = seqs[s].shared)
    <3>1. seqs[s].shared \in Nat /\ i \in Nat
      BY IndexFinite DEF PrefixGrows
    <3> QED BY <1>1, <3>1 DEF PrefixGrows
  <2>2. CASE r = s /\ i = seqs[s].shared
    <3>1. seqs'[r].ids[i] = h
      BY <2>2 DEF PrefixGrows
    <3> QED BY <3>1
  <2>3. CASE i < seqs[r].shared
    <3>1. seqs'[r].ids[i] = seqs[r].ids[i]
      BY <2>3 DEF PrefixGrows
    <3>2. seqs[r].ids[i].index \in Blocks
      BY <2>3, SharedPosition
    <3> QED BY <2>3, <3>1, <3>2 DEF SharedCurrent
  <2> QED BY <2>1, <2>2, <2>3
<1>2. ASSUME NEW g \in holds' PROVE slots'[g.index].generation = g.generation
  <2>1. CASE g = h
    BY <2>1
  <2>2. CASE g \in holds
    <3>1. g.index \in Blocks
      BY <2>2 DEF TypeOK, Handle
    <3> QED BY <2>2, <3>1 DEF SharedCurrent
  <2> QED BY <2>1, <2>2
<1> QED BY <1>1, <1>2 DEF SharedCurrent

\* The table of a sequence that only has shared blocks describes full blocks.
LEMMA FullPrefix ==
    ASSUME NEW p \in SequenceState, LiveTableFits(p), p.pending = None, p.count = p.shared
    PROVE  \A j \in Index : j < p.count => p.valid[j] = BlockSize
<1>1. /\ p.shared \in Nat /\ p.length \in Nat /\ p.shared * BlockSize <= p.length
      /\ \A j \in Index : j < p.count => p.valid[j] = Content(p.length, j)
  BY DEF LiveTableFits, Described, SequenceState
<1> SUFFICES ASSUME NEW j \in Index, j < p.count PROVE p.valid[j] = BlockSize
  OBVIOUS
<1>2. j \in Nat /\ j + 1 <= p.shared /\ BlockSize \in Nat
  BY <1>1, IndexFinite, ConstantsAssumption
<1>3. (j + 1) * BlockSize <= p.shared * BlockSize
  BY <1>1, <1>2
<1>4. (j + 1) * BlockSize <= p.length
  <2> (j + 1) * BlockSize \in Nat /\ p.shared * BlockSize \in Nat
    BY <1>1, <1>2
  <2> QED BY <1>1, <1>3
<1> QED BY <1>1, <1>2, <1>4, FullContent

\* adopt_shared_block.
LEMMA AdoptSharedBlockTables ==
    ASSUME IInv, TInv, NEW s \in SequenceIds, NEW h \in Handle, AdoptSharedBlock(s, h)
    PROVE  TInv'
<1> DEFINE p == seqs[s]
           i == p.count
           next == i + 1
           length == (i + 1) * BlockSize
           ids == [p.ids EXCEPT ![i] = h]
           valid == [p.valid EXCEPT ![i] = BlockSize]
           q == [p EXCEPT !.ids = ids, !.valid = valid, !.count = next,
                          !.shared = next, !.length = length]
           c == h.index
<1>1. /\ TypeOK /\ slots \in [Blocks -> Slot] /\ seqs \in [SequenceIds -> SequenceState]
      /\ p \in SequenceState /\ tokens' = tokens /\ holds' = holds
      /\ SharedCurrent /\ CountsExact /\ SidecarsDescribeContent
  BY DEF IInv, TInv, TypeOK, AdoptSharedBlock
<1>2. slots' = [slots EXCEPT ![c].references = @ + 1]
  BY DEF AdoptSharedBlock
<1>3. seqs' = [seqs EXCEPT ![s] = q]
  BY <1>1 DEF AdoptSharedBlock, SequenceState
<1>4. /\ i \in Nat /\ p.shared = i /\ p.pending = None /\ p.phase = "live"
      /\ i < BlocksForLength(p.maximum) /\ p.maximum \in 0 .. MaxLength
      /\ h # None /\ slots[c].generation = h.generation /\ c \in Blocks
  BY <1>1 DEF AdoptSharedBlock, AdoptPreflight, Mutable, SequenceState, ValidShared, Handle
<1>5. i \in Index
  <2>1. p.maximum \in Nat /\ p.maximum <= MaxLength /\ MaxLength \in Nat
    BY <1>4, ConstantsAssumption
  <2>2. /\ BlocksForLength(p.maximum) <= BlocksForLength(MaxLength)
        /\ BlocksForLength(p.maximum) \in Nat /\ BlocksForLength(MaxLength) \in Nat
    BY <2>1, BlocksForLengthMonotone, BlocksForLengthNat
  <2> QED BY <1>4, <2>2 DEF Index
<1>6. /\ ids[i] = h /\ valid[i] = BlockSize
      /\ \A j \in Index : j # i => ids[j] = p.ids[j] /\ valid[j] = p.valid[j]
  BY <1>1, <1>5 DEF SequenceState
<1>7. /\ next \in Nat /\ length = next * BlockSize /\ length \in Nat
      /\ BlocksForLength(length) = next /\ Content(length, i) = BlockSize
  <2>1. next \in Nat /\ length = next * BlockSize
    BY <1>4
  <2>2. next * BlockSize \in Nat /\ BlocksForLength(next * BlockSize) = next
    BY <2>1, ExactBlocks
  <2>3. (i + 1) * BlockSize <= length /\ length \in Nat
    BY <2>1, <2>2
  <2>4. Content(length, i) = BlockSize
    BY <1>4, <2>3, FullContent
  <2> QED BY <2>1, <2>2, <2>3, <2>4
<1>8. \A j \in Index : j < i => p.valid[j] = BlockSize
  <2>1. LiveTableFits(p)
    BY <1>4 DEF TInv, TablesFit, TableFits
  <2> QED BY <1>1, <1>4, <2>1, FullPrefix
<1>9. \A j \in Index : j < next => Content(length, j) = BlockSize
  <2> TAKE j \in Index
  <2> HAVE j < next
  <2>1. j \in Nat /\ j + 1 <= next /\ BlockSize \in Nat
    <3>1. j \in Nat /\ BlockSize \in Nat
      BY IndexFinite, ConstantsAssumption
    <3>2. next \in Nat
      BY <1>7
    <3> HIDE DEF next, length
    <3> QED BY <3>1, <3>2
  <2>2. (j + 1) * BlockSize <= next * BlockSize
    BY <1>7, <2>1
  <2>3. (j + 1) * BlockSize <= length
    BY <1>7, <2>2
  <2> QED BY <1>7, <2>1, <2>3, FullContent
<1> HIDE DEF ids, valid, length
<1>10. /\ q.phase = p.phase /\ q.pending = p.pending /\ q.nonce = p.nonce /\ q.ids = ids
       /\ q.valid = valid /\ q.count = next /\ q.shared = next /\ q.length = length
  BY <1>1 DEF SequenceState
<1> HIDE DEF q
<1>11. TableFits(q)
  <2>1. Described(q) = length
    BY <1>4, <1>10 DEF Described
  <2>2. q.shared * BlockSize <= q.length
    BY <1>7, <1>10
  <2>3. ASSUME NEW j \in Index, j < next PROVE valid[j] = BlockSize
    <3>1. CASE j = i
      BY <1>6, <3>1
    <3>2. CASE j # i
      <4>1. j < i
        BY <1>4, <2>3, <3>2, IndexFinite
      <4> QED BY <1>6, <1>8, <3>2, <4>1
    <3> QED BY <3>1, <3>2
  <2> HIDE DEF next
  <2>4. LiveTableFits(q)
    BY <1>4, <1>7, <1>9, <1>10, <2>1, <2>2, <2>3 DEF LiveTableFits
  <2> QED BY <1>4, <1>10, <2>4 DEF TableFits
<1>12. TablesFit'
  BY <1>1, <1>3, <1>11, TableChanged DEF TInv
<1>13. seqs'[s] = q /\ \A r \in SequenceIds : r # s => seqs'[r] = seqs[r]
  BY <1>1, <1>3
<1>14. PrefixGrows(s, h)
  <2>1. \A j \in Index : j < p.shared => j # i
    BY <1>4, IndexFinite
  <2> QED BY <1>4, <1>5, <1>6, <1>10, <1>13, <2>1 DEF PrefixGrows
<1>15. /\ Cardinality(Readers(c)') = Cardinality(Readers(c)) + 1
       /\ \A b : b # c => Readers(b)' = Readers(b)
  BY <1>14, ReadersGrow
<1>16. \A b : Holders(b)' = Holders(b)
  BY <1>1 DEF Holders
<1> HIDE DEF c, next
<1>17. \A b \in Blocks : /\ slots'[b].owner = slots[b].owner
                         /\ slots'[b].generation = slots[b].generation
                         /\ slots'[b].sidecar = slots[b].sidecar
                         /\ b # c => slots'[b] = slots[b]
  BY <1>1, <1>2, <1>4 DEF Slot
<1>18. slots'[c].references = slots[c].references + 1 /\ slots[c].references \in Nat
  BY <1>1, <1>2, <1>4 DEF Slot
<1>19. CountsExact'
  <2> SUFFICES ASSUME NEW b \in Blocks
               PROVE  slots'[b].references = Cardinality(Readers(b)') + Cardinality(Holders(b)')
    BY DEF CountsExact
  <2>1. slots[b].references = Cardinality(Readers(b)) + Cardinality(Holders(b))
    BY <1>1 DEF CountsExact
  <2>2. CASE b # c
    BY <1>15, <1>16, <1>17, <2>1, <2>2
  <2>3. CASE b = c
    <3>1. Cardinality(Readers(b)) \in Nat /\ Cardinality(Holders(b)) \in Nat
      BY <1>1, ReadersFinite, HoldersFinite
    <3> QED BY <1>15, <1>16, <1>18, <2>1, <2>3, <3>1
  <2> QED BY <2>2, <2>3
<1>20. SharedCurrent'
  <2>1. h.index \in Blocks /\ slots[h.index].generation = h.generation
    BY <1>4 DEF c
  <2> QED BY <1>1, <1>4, <1>14, <1>17, <2>1, CurrentGrows
<1>21. ASSUME NEW r \in SequenceIds, NEW j \in Private(r)
       PROVE  /\ j \in Private(r)' /\ seqs'[r].ids[j] = seqs[r].ids[j]
              /\ Content(seqs'[r].length, j) = Content(seqs[r].length, j)
  <2>1. r # s
    <3> SUFFICES ASSUME r = s PROVE FALSE
      OBVIOUS
    <3>1. j \in Index /\ j < p.count /\ j >= p.shared
      BY DEF Private, Held
    <3> QED BY <1>4, <3>1, IndexFinite
  <2>2. seqs'[r] = seqs[r]
    BY <1>13, <2>1
  <2> QED BY <2>2 DEF Private, Held
<1>22. SidecarsDescribeContent'
  BY <1>1, <1>17, <1>21, SidecarsKept
<1>23. TokensSpent'
  BY <1>1, <1>4, <1>10, <1>13, TokensKept DEF TInv
<1> QED BY <1>12, <1>19, <1>20, <1>22, <1>23 DEF TInv

\* A block that a sequence owns alone has neither readers nor holders.
LEMMA OwnedIsUnshared ==
    ASSUME IInv, TInv, NEW b \in Blocks, slots[b].owner # SharedOwner
    PROVE  slots[b].references = 0 /\ Readers(b) = {} /\ Holders(b) = {}
<1>1. TypeOK /\ SharedCurrent /\ CountsExact /\ SharedHaveReferences /\ slots[b].references \in Nat
  BY DEF IInv, TInv, TypeOK, Slot
<1>2. slots[b].references = 0
  BY <1>1 DEF SharedHaveReferences
<1> QED BY <1>1, <1>2, ReferencesPositive

\* share_next_block gives the block two holders, the sequence and the caller.
LEMMA ShareNextBlockTables ==
    ASSUME IInv, TInv, NEW s \in SequenceIds, ShareNextBlock(s)
    PROVE  TInv'
<1>0. PICK h : h = seqs[s].ids[seqs[s].shared]
  OBVIOUS
<1> DEFINE p == seqs[s]
           i == p.shared
           next == i + 1
           q == [p EXCEPT !.shared = next]
           c == h.index
<1>1. /\ TypeOK /\ slots \in [Blocks -> Slot] /\ seqs \in [SequenceIds -> SequenceState]
      /\ p \in SequenceState /\ tokens' = tokens
      /\ SharedCurrent /\ CountsExact /\ SidecarsDescribeContent
  BY DEF IInv, TInv, TypeOK, ShareNextBlock
<1>2. /\ slots' = [slots EXCEPT ![c] = SharedSlot(@)]
      /\ seqs' = [seqs EXCEPT ![s] = q]
      /\ holds' = holds \cup {h}
  BY SMTT(30), <1>0, <1>1 DEF ShareNextBlock, SequenceState
<1>3. /\ i \in Index /\ i \in Nat /\ p.pending = None /\ p.phase = "live"
      /\ next * BlockSize <= p.length
      /\ h # None /\ slots[c].generation = h.generation /\ slots[c].owner = s
  BY <1>0, IndexFinite DEF ShareNextBlock, Mutable, ValidBlock
<1>4. h \in Handle /\ c \in Blocks /\ slots[c] \in Slot
  <2>1. h \in Handle
    BY <1>0, <1>1, <1>3 DEF SequenceState
  <2> QED BY <1>1, <2>1 DEF Handle
<1>5. s # SharedOwner
  BY ConstantsAssumption
<1>6. Readers(c) = {} /\ Holders(c) = {}
  BY <1>3, <1>4, <1>5, OwnedIsUnshared
<1>7. /\ q.phase = p.phase /\ q.pending = p.pending /\ q.nonce = p.nonce /\ q.ids = p.ids
      /\ q.valid = p.valid /\ q.count = p.count /\ q.shared = next /\ q.length = p.length
  BY <1>1 DEF SequenceState
<1> HIDE DEF q
<1>8. TableFits(q)
  <2>1. LiveTableFits(p)
    BY <1>3 DEF TInv, TablesFit, TableFits
  <2>2. Described(q) = Described(p)
    BY <1>7 DEF Described
  <2> HIDE DEF next
  <2> QED BY <1>3, <1>7, <2>1, <2>2 DEF TableFits, LiveTableFits
<1>9. TablesFit'
  BY <1>1, <1>2, <1>8, TableChanged DEF TInv
<1>10. seqs'[s] = q /\ \A r \in SequenceIds : r # s => seqs'[r] = seqs[r]
  BY <1>1, <1>2
<1>11. PrefixGrows(s, h)
  BY <1>0, <1>3, <1>7, <1>10 DEF PrefixGrows
<1>12. /\ Cardinality(Readers(c)') = Cardinality(Readers(c)) + 1
       /\ \A b : b # c => Readers(b)' = Readers(b)
  BY <1>11, ReadersGrow
<1>13. /\ slots'[c].owner = SharedOwner /\ slots'[c].references = 2 /\ slots'[c].sidecar = None
       /\ slots'[c].generation = slots[c].generation
       /\ \A b \in Blocks : b # c => slots'[b] = slots[b]
  <2> HIDE DEF c
  <2>1. slots'[c] = [slots[c] EXCEPT !.owner = SharedOwner, !.references = 2, !.sidecar = None]
    BY <1>1, <1>2, <1>4 DEF SharedSlot
  <2>2. \A b \in Blocks : b # c => slots'[b] = slots[b]
    BY <1>1, <1>2, <1>4
  <2> QED BY <1>4, <2>1, <2>2 DEF Slot
<1>14. Holders(c)' = {h} /\ \A b : b # c => Holders(b)' = Holders(b)
  BY <1>2, <1>6 DEF Holders
<1>15. CountsExact'
  <2> SUFFICES ASSUME NEW b \in Blocks
               PROVE  slots'[b].references = Cardinality(Readers(b)') + Cardinality(Holders(b)')
    BY DEF CountsExact
  <2>1. CASE b # c
    <3>1. slots[b].references = Cardinality(Readers(b)) + Cardinality(Holders(b))
      BY <1>1 DEF CountsExact
    <3> QED BY <1>12, <1>13, <1>14, <2>1, <3>1
  <2>2. CASE b = c
    <3> HIDE DEF c
    <3>1. Cardinality(Readers(c)) = 0 /\ Cardinality({h}) = 1
      BY <1>6, FS_EmptySet, FS_Singleton
    <3>2. Cardinality(Readers(c)') = 1
      BY <1>12, <3>1
    <3>3. Cardinality(Holders(c)') = 1
      BY <1>14, <3>1
    <3> QED BY <1>13, <2>2, <3>2, <3>3
  <2> QED BY <2>1, <2>2
<1>16. SharedCurrent'
  <2>1. \A b \in Blocks : slots'[b].generation = slots[b].generation
    BY <1>13
  <2>2. h.index \in Blocks /\ slots[h.index].generation = h.generation /\ h # None
    BY <1>3, <1>4
  <2>3. holds' \subseteq holds \cup {h}
    BY <1>2
  <2> QED BY <1>1, <1>11, <2>1, <2>2, <2>3, CurrentGrows
<1>17. ASSUME NEW b \in Blocks, slots'[b].sidecar # None, NEW r \in SequenceIds, NEW j \in Private(r),
              seqs[r].ids[j].index = b
       PROVE  /\ j \in Private(r)' /\ seqs'[r].ids[j] = seqs[r].ids[j]
              /\ Content(seqs'[r].length, j) = Content(seqs[r].length, j)
  <2>1. CASE r # s
    <3>1. seqs'[r] = seqs[r]
      BY <1>10, <2>1
    <3> QED BY <3>1 DEF Private, Held
  <2>2. CASE r = s
    <3>1. b # c
      BY <1>13, <1>17
    <3>2. j # i /\ j \in Index /\ j < p.count /\ j >= i
      BY <1>0, <1>17, <2>2, <3>1 DEF Private, Held
    <3>3. j >= next
      BY <1>3, <3>2, IndexFinite
    <3> QED BY <1>7, <1>10, <2>2, <3>2, <3>3 DEF Private, Held
  <2> QED BY <2>1, <2>2
<1>18. \A b \in Blocks : slots'[b].sidecar # None => slots'[b] = slots[b]
  BY <1>13
<1>19. SidecarsDescribeContent'
  BY <1>1, <1>17, <1>18, SidecarsKept
<1>20. TokensSpent'
  BY <1>1, <1>3, <1>7, <1>10, TokensKept DEF TInv
<1> QED BY <1>9, <1>15, <1>16, <1>19, <1>20 DEF TInv

\* release_shared_block by the caller that shared the block.
LEMMA ReleaseSharedBlockTables ==
    ASSUME IInv, TInv, NEW h \in holds, ReleaseSharedBlock(h)
    PROVE  TInv'
<1> DEFINE c == h.index
<1>1. /\ TypeOK /\ slots \in [Blocks -> Slot] /\ seqs' = seqs /\ tokens' = tokens
      /\ holds' = holds \ {h}
      /\ SharedCurrent /\ CountsExact /\ SidecarsDescribeContent
  BY DEF IInv, TInv, TypeOK, ReleaseSharedBlock
<1>2. slots' = [slots EXCEPT ![c] = DropReferences(@, 1)]
  BY DEF ReleaseSharedBlock, Settle
<1>3. c \in Blocks /\ slots[c] \in Slot /\ slots[c].owner = SharedOwner
  BY <1>1, HolderValid
<1>4. slots[c].sidecar = None
  BY <1>1, <1>3, ConstantsAssumption DEF SidecarsDescribeContent
<1> HIDE DEF c
<1>5. slots'[c] = DropReferences(slots[c], 1) /\ \A b \in Blocks : b # c => slots'[b] = slots[b]
  BY <1>1, <1>2, <1>3
<1>6. /\ slots'[c].references = slots[c].references - 1
      /\ slots'[c].generation = slots[c].generation
      /\ slots'[c].sidecar = None
  <2> DEFINE k == 1
             less == [slots[c] EXCEPT !.references = slots[c].references - k]
  <2>1. slots'[c] = DropReferences(slots[c], k)
    BY <1>5
  <2>2. less.references = slots[c].references - 1
    BY <1>3 DEF Slot
  <2> HIDE DEF k
  <2>3. slots'[c] = less \/ slots'[c] = Released(less)
    BY <2>1 DEF DropReferences
  <2>4. /\ less.generation = slots[c].generation /\ less.sidecar = slots[c].sidecar
        /\ DOMAIN less = {"owner", "generation", "references", "sidecar"}
    BY <1>3 DEF Slot
  <2> HIDE DEF less
  <2>5. /\ Released(less).references = less.references
        /\ Released(less).generation = less.generation
        /\ Released(less).sidecar = None
    BY <2>4 DEF Released
  <2> QED BY <1>4, <2>2, <2>3, <2>4, <2>5
<1>7. \A b : Readers(b)' = Readers(b)
  BY <1>1 DEF Readers
<1>8. h \in Holders(c)
  BY DEF Holders, c
<1>9. \A g \in Holders(c) : g = h
  BY <1>1, <1>8, HoldersFinite
<1>10. Holders(c) = {h} /\ Holders(c)' = {} /\ \A b : b # c => Holders(b)' = Holders(b)
  <2>1. Holders(c) = {h}
    BY <1>8, <1>9
  <2>2. Holders(c)' = {}
    BY <1>1, <2>1 DEF Holders
  <2>3. \A b : b # c => Holders(b)' = Holders(b)
    BY <1>1 DEF Holders, c
  <2> QED BY <2>1, <2>2, <2>3
<1>11. CountsExact'
  <2> SUFFICES ASSUME NEW b \in Blocks
               PROVE  slots'[b].references = Cardinality(Readers(b)') + Cardinality(Holders(b)')
    BY DEF CountsExact
  <2>1. slots[b].references = Cardinality(Readers(b)) + Cardinality(Holders(b))
    BY <1>1 DEF CountsExact
  <2>2. CASE b # c
    BY <1>5, <1>7, <1>10, <2>1, <2>2
  <2>3. CASE b = c
    <3>1. Cardinality(Holders(c)) = 1 /\ Cardinality(Holders(c)') = 0
      BY <1>10, FS_EmptySet, FS_Singleton
    <3>2. Cardinality(Readers(c)) \in Nat
      BY ReadersFinite
    <3>3. Cardinality(Readers(c)') = Cardinality(Readers(c))
      BY <1>7
    <3> QED BY <1>6, <2>1, <2>3, <3>1, <3>2, <3>3
  <2> QED BY <2>2, <2>3
<1>12. \A b \in Blocks : slots'[b].generation = slots[b].generation
  BY <1>5, <1>6
<1>13. SharedCurrent'
  <2>1. ASSUME NEW r \in SequenceIds, NEW j \in Index, j < seqs[r].shared
        PROVE  slots'[seqs[r].ids[j].index].generation = slots[seqs[r].ids[j].index].generation
    BY <1>1, <1>12, <2>1, SharedPosition
  <2>2. ASSUME NEW g \in holds PROVE slots'[g.index].generation = slots[g.index].generation
    BY <1>1, <1>12 DEF TypeOK, Handle
  <2> QED BY <1>1, <2>1, <2>2 DEF SharedCurrent
<1>14. \A r \in SequenceIds : Private(r)' = Private(r)
  BY <1>1 DEF Private, Held
<1>15. \A b \in Blocks : slots'[b].sidecar # None => slots'[b] = slots[b]
  BY <1>5, <1>6
<1>16. SidecarsDescribeContent'
  BY <1>1, <1>14, <1>15, SidecarsKept
<1>17. TablesFit'
  BY <1>1 DEF TInv, TablesFit
<1>18. TokensSpent'
  BY <1>1, TokensKept DEF TInv
<1> QED BY <1>11, <1>13, <1>16, <1>17, <1>18 DEF TInv

-----------------------------------------------------------------------------
(* Leasing blocks. *)

\* reserve_to fills the table up to the target with blocks that nobody holds, and
\* its token is younger than every other of the sequence.
LEMMA ReserveToTables ==
    ASSUME IInv, TInv, NEW s \in SequenceIds, NEW target \in 0 .. MaxLength, ReserveTo(s, target)
    PROVE  TInv'
<1> DEFINE p == seqs[s]
           blocks == BlocksForLength(target)
           count == LargerOf(blocks, p.count)
           D == {i \in Index : i >= p.count /\ i < blocks}
           valid == FillValidTokens(p.valid, target, blocks, count)
           pending == [nonce |-> p.nonce, previous |-> p.count, target |-> target]
           token == [sequence |-> s, nonce |-> p.nonce, previous |-> p.count, target |-> target]
<1>1. /\ TypeOK /\ slots \in [Blocks -> Slot] /\ seqs \in [SequenceIds -> SequenceState]
      /\ p \in SequenceState /\ free \subseteq Blocks /\ holds' = holds /\ FreeListExact
      /\ SidecarsDescribeContent
  BY DEF IInv, TInv, TypeOK, ReserveTo
<1>2. /\ p.count \in Nat /\ p.shared \in Nat /\ p.shared <= p.count
      /\ p.nonce \in Nat /\ p.length \in Nat /\ target \in Nat
  BY <1>1, ConstantsAssumption DEF TypeOK, SequenceState
<1>3. p.phase = "live" /\ p.pending = None /\ target >= p.length
  BY DEF ReserveTo, ReservePreflight, Mutable
<1>4. LiveTableFits(p)
  BY <1>3 DEF TInv, TablesFit, TableFits
<1>5. p.count = BlocksForLength(p.length) /\ p.shared * BlockSize <= p.length
  BY <1>3, <1>4 DEF LiveTableFits, Described
<1>6. blocks \in Nat /\ p.count <= blocks
  BY <1>2, <1>3, <1>5, BlocksForLengthNat, BlocksForLengthMonotone
<1>7. count = blocks
  BY <1>2, <1>6 DEF LargerOf
<1>8. tokens' = tokens \cup {token}
  BY DEF ReserveTo
<1>9. PICK new \in FreshBlocks(p.count, blocks) :
        /\ slots' = [b \in Blocks |->
                        IF b \in Leased(new)
                        THEN [slots[b] EXCEPT !.generation = @ + 1, !.owner = s]
                        ELSE slots[b]]
        /\ seqs' = [seqs EXCEPT ![s] = [p EXCEPT
                !.ids = [i \in Index |->
                            IF i \in DOMAIN new
                            THEN [index |-> new[i],
                                  generation |-> slots[new[i]].generation + 1]
                            ELSE p.ids[i]],
                !.valid = valid,
                !.count = count,
                !.pending = pending,
                !.nonce = p.nonce + 1]]
  BY ZenonT(60) DEF ReserveTo
<1>10. DOMAIN new = D /\ \A i \in D : new[i] \in free
  BY DEF FreshBlocks
<1> DEFINE L == Leased(new)
           ids == [i \in Index |-> IF i \in D
                                   THEN [index |-> new[i],
                                         generation |-> slots[new[i]].generation + 1]
                                   ELSE p.ids[i]]
           nonce == p.nonce + 1
           q == [p EXCEPT !.ids = ids, !.valid = valid, !.count = count,
                          !.pending = pending, !.nonce = nonce]
<1>11. seqs' = [seqs EXCEPT ![s] = q]
  BY <1>9, <1>10
<1>12. L \subseteq free
  BY <1>10 DEF Leased
<1>13. \A i \in Index : i < p.count => ids[i] = p.ids[i]
  <2> TAKE i \in Index
  <2> HAVE i < p.count
  <2>1. i \notin D
    BY <1>2, IndexFinite
  <2> QED BY <2>1
<1>14. \A i \in Index : i < blocks => valid[i] = Content(target, i)
  BY FilledTokens
<1>15. /\ pending.nonce = p.nonce /\ pending.previous = p.count /\ pending.target = target
       /\ pending # None
  <2>1. p.nonce \in 1 .. MaxNonce
    <3>1. p.nonce <= MaxNonce /\ p.nonce \in 1 .. MaxNonce + 1
      BY <1>1 DEF ReserveTo, ReservePreflight, SequenceState
    <3> QED BY <3>1, ConstantsAssumption
  <2>2. pending \in Pending
    BY <1>2, <2>1 DEF Pending
  <2> QED BY <2>2, NoneAssumption
<1>16. /\ token.sequence = s /\ token.nonce = p.nonce
  OBVIOUS
<1>17. p.nonce < nonce /\ nonce \in Nat
  BY <1>2
<1> HIDE DEF blocks, count, D, valid, pending, token, ids, nonce, L
<1>18. /\ q.phase = p.phase /\ q.pending = pending /\ q.nonce = nonce /\ q.ids = ids
       /\ q.valid = valid /\ q.count = count /\ q.shared = p.shared /\ q.length = p.length
  BY <1>1 DEF SequenceState
<1> HIDE DEF q
<1>19. TableFits(q)
  <2>1. Described(q) = target
    BY <1>15, <1>18 DEF Described
  <2>2. LiveTableFits(q)
    BY <1>3, <1>5, <1>7, <1>14, <1>15, <1>18, <2>1 DEF LiveTableFits, blocks
  <2> QED BY <1>3, <1>18, <2>2 DEF TableFits
<1>20. TablesFit'
  BY <1>1, <1>11, <1>19, TableChanged DEF TInv
<1>21. seqs'[s] = q /\ \A r \in SequenceIds : r # s => seqs'[r] = seqs[r]
  BY <1>1, <1>11
<1>22. ASSUME NEW b \in Blocks
       PROVE  /\ slots'[b].references = slots[b].references
              /\ slots'[b].sidecar = slots[b].sidecar
              /\ slots[b].owner # None => slots'[b] = slots[b]
  <2>1. CASE b \in L
    <3>1. slots'[b] = [slots[b] EXCEPT !.generation = slots[b].generation + 1, !.owner = s]
      BY <1>9, <2>1 DEF L
    <3>2. slots[b].owner = None /\ slots[b] \in Slot
      BY <1>1, <1>12, <2>1 DEF FreeListExact
    <3> QED BY <3>1, <3>2 DEF Slot
  <2>2. CASE b \notin L
    BY <1>9, <2>2 DEF L
  <2> QED BY <2>1, <2>2
<1>23. \A b \in Blocks : slots[b].references > 0 => slots[b].owner # None
  BY ConstantsAssumption DEF IInv, SharedHaveReferences
<1>24. \A i \in Index : i < p.shared => i < p.count
  <2> TAKE i \in Index
  <2>1. i \in Nat
    BY IndexFinite
  <2> QED BY <1>2, <2>1
<1>25. SharedCurrent' /\ CountsExact'
  <2>1. \A r \in SequenceIds :
            /\ seqs'[r].shared = seqs[r].shared
            /\ \A i \in Index : i < seqs[r].shared => seqs'[r].ids[i] = seqs[r].ids[i]
    BY <1>13, <1>18, <1>21, <1>24
  <2> QED BY <1>1, <1>22, <1>23, <2>1, ReadersKept
<1>26. \A b \in Blocks : slots[b].sidecar # None => slots[b].owner # None
  BY <1>1, ConstantsAssumption DEF SidecarsDescribeContent
<1>27. \A b \in Blocks : slots'[b].sidecar # None => slots'[b] = slots[b]
  BY <1>22, <1>26
<1>28. ASSUME NEW r \in SequenceIds, NEW i \in Private(r)
       PROVE  /\ i \in Private(r)' /\ seqs'[r].ids[i] = seqs[r].ids[i]
              /\ seqs'[r].length = seqs[r].length
  <2>1. CASE r # s
    <3>1. seqs'[r] = seqs[r]
      BY <1>21, <2>1
    <3> QED BY <3>1 DEF Private, Held
  <2>2. CASE r = s
    <3>1. i \in Index /\ i \in Nat /\ i < p.count /\ i >= p.shared
      BY <2>2, IndexFinite DEF Private, Held
    <3>2. i < q.count /\ i >= q.shared
      BY <1>2, <1>6, <1>7, <1>18, <3>1
    <3> QED BY <1>13, <1>18, <1>21, <2>2, <3>1, <3>2 DEF Private, Held
  <2> QED BY <2>1, <2>2
<1>29. SidecarsDescribeContent'
  BY <1>1, <1>27, <1>28, SidecarsKept
<1>30. TokensSpent'
  <2> SUFFICES ASSUME NEW t \in tokens'
               PROVE  /\ seqs'[t.sequence].phase # "unborn"
                      /\ seqs'[t.sequence].phase # "gone" => t.nonce < seqs'[t.sequence].nonce
    BY DEF TokensSpent
  <2>1. CASE t = token
    BY <1>3, <1>16, <1>17, <1>18, <1>21, <2>1
  <2>2. CASE t \in tokens
    <3>1. t.sequence \in SequenceIds /\ t.nonce \in Nat
      BY <1>1, <2>2, ConstantsAssumption DEF TypeOK, Token
    <3>2. /\ seqs[t.sequence].phase # "unborn"
          /\ seqs[t.sequence].phase # "gone" => t.nonce < seqs[t.sequence].nonce
      BY <2>2 DEF TInv, TokensSpent
    <3>3. CASE t.sequence # s
      BY <1>21, <3>1, <3>2, <3>3
    <3>4. CASE t.sequence = s
      <4>1. t.nonce < p.nonce
        BY <1>3, <3>2, <3>4
      <4>2. t.nonce < nonce
        BY <1>2, <1>17, <3>1, <4>1
      <4> QED BY <1>3, <1>18, <1>21, <3>4, <4>2
    <3> QED BY <3>3, <3>4
  <2> QED BY <1>8, <2>1, <2>2
<1> QED BY <1>20, <1>25, <1>29, <1>30 DEF TInv

-----------------------------------------------------------------------------
(* The invariant holds of every behaviour. *)

\* KvBlockPool::new.
LEMMA InitTables == Init => TInv
<1> SUFFICES ASSUME Init PROVE TInv
  OBVIOUS
<1>1. /\ \A s \in SequenceIds : /\ seqs[s].phase = "unborn" /\ seqs[s].count = 0
                                /\ seqs[s].shared = 0 /\ seqs[s].length = 0
                                /\ seqs[s].pending = None
      /\ \A b \in Blocks : slots[b].references = 0 /\ slots[b].sidecar = None
      /\ tokens = {} /\ holds = {}
  BY DEF Init, Unborn, FreeSlot
<1>2. \A i \in Index : ~(i < 0)
  BY IndexFinite
<1>3. TablesFit
  BY <1>1 DEF TablesFit, TableFits
<1>4. SharedCurrent
  BY <1>1, <1>2 DEF SharedCurrent
<1>5. ASSUME NEW b \in Blocks PROVE Readers(b) = {} /\ Holders(b) = {}
  BY <1>1, <1>2 DEF Readers, Holders
<1>6. CountsExact
  <2> SUFFICES ASSUME NEW b \in Blocks
               PROVE  slots[b].references = Cardinality(Readers(b)) + Cardinality(Holders(b))
    BY DEF CountsExact
  <2>1. Cardinality(Readers(b)) = 0 /\ Cardinality(Holders(b)) = 0
    BY <1>5, FS_EmptySet
  <2> QED BY <1>1, <2>1
<1>7. SidecarsDescribeContent
  BY <1>1 DEF SidecarsDescribeContent
<1>8. TokensSpent
  BY <1>1 DEF TokensSpent
<1> QED BY <1>3, <1>4, <1>6, <1>7, <1>8 DEF TInv

\* Every call preserves the invariant.
LEMMA NextTables == IInv /\ TInv /\ [Next]_vars => TInv'
<1> SUFFICES ASSUME IInv, TInv, [Next]_vars PROVE TInv'
  OBVIOUS
<1>1. ASSUME NEW s \in SequenceIds,
             \/ \E maximum \in MaximumLengths : CreateSequence(s, maximum)
             \/ \E target \in 0 .. MaxLength : ReserveTo(s, target)
             \/ \E target \in 0 .. MaxLength : ReserveExhausted(s, target)
             \/ \E target \in 0 .. MaxLength : TruncateTo(s, target)
             \/ \E t \in tokens : Commit(s, t) \/ Rollback(s, t) \/ Poison(s, t)
             \/ RollbackAbandonedReservation(s)
             \/ Reset(s)
             \/ AbandonForReclaim(s)
             \/ ReclaimSequence(s)
             \/ \E h \in Handle : AdoptSharedBlock(s, h)
             \/ ShareNextBlock(s)
             \/ \E i \in Index : AttachSidecar(s, i)
      PROVE  TInv'
  BY <1>1, CreateSequenceTables, ReserveToTables, ReserveExhaustedTables, TruncateToTables,
     CommitTables, RollbackTables, PoisonTables, RollbackAbandonedTables, ResetTables,
     AbandonForReclaimTables, ReclaimSequenceTables, AdoptSharedBlockTables,
     ShareNextBlockTables, AttachSidecarTables
<1>2. ASSUME NEW t \in tokens, DropToken(t) PROVE TInv'
  <2>1. UNCHANGED <<slots, seqs, holds>> /\ tokens' \subseteq tokens
    BY <1>2 DEF DropToken
  <2> QED BY <2>1, TokensOnlyTables
<1>3. ASSUME NEW h \in holds, ReleaseSharedBlock(h) PROVE TInv'
  BY <1>3, ReleaseSharedBlockTables
<1>4. CASE UNCHANGED vars
  <2>1. UNCHANGED <<slots, seqs, holds>> /\ tokens' \subseteq tokens
    BY <1>4 DEF vars
  <2> QED BY <2>1, TokensOnlyTables
<1> QED BY <1>1, <1>2, <1>3, <1>4 DEF Next

\* Both invariants hold in every reachable state.
THEOREM TableInvariance == Spec => [](IInv /\ TInv)
<1>1. Init => IInv /\ TInv
  BY InitInvariant, InitTables
<1>2. IInv /\ TInv /\ [Next]_vars => IInv' /\ TInv'
  BY NextInvariant, NextTables
<1> QED BY <1>1, <1>2, PTL DEF Spec

-----------------------------------------------------------------------------
(* What callers and the device rely on. *)

\* The reference count of a block is the number of the tables and callers that hold
\* it (release_shared_block and shared_references of paged_kv.rs), and a block is
\* shared exactly while it has references.
THEOREM ReferencesCorrect == Spec => []ReferencesExact
<1>1. IInv /\ TInv => ReferencesExact
  BY DEF IInv, TInv, SharedHaveReferences, CountsExact, Holders, ReferencesExact
<1> QED BY <1>1, TableInvariance, PTL

\* Sidecars describe what is committed in the block they sit on.
THEOREM SidecarsCorrect == Spec => []SidecarsDescribeContent
<1>1. IInv /\ TInv => SidecarsDescribeContent
  BY DEF TInv
<1> QED BY <1>1, TableInvariance, PTL

\* Every handle that a table or a caller holds passes its validation.
LEMMA HandlesValid ==
    ASSUME IInv, TInv
    PROVE  HeldHandlesValid
<1>1. ASSUME NEW s \in SequenceIds, NEW i \in Held(s) PROVE ValidHeld(s, i)
  <2>1. i \in Index /\ i < seqs[s].count /\ i \in Nat /\ seqs[s].shared \in Nat
    BY IndexFinite DEF Held, IInv, TypeOK, SequenceState
  <2>2. CASE i < seqs[s].shared
    BY <2>1, <2>2, SharedPositionValid DEF ValidHeld
  <2>3. CASE ~(i < seqs[s].shared)
    <3>1. i \in Private(s)
      BY <1>1, <2>1, <2>3 DEF Private
    <3> QED BY <2>3, <3>1 DEF ValidHeld, IInv, PrivateBlocksExclusive
  <2> QED BY <2>2, <2>3
<1>2. \A h \in holds : ValidShared(h)
  BY HolderValid
<1> QED BY <1>1, <1>2 DEF HeldHandlesValid

\* Every table covers the length that it describes.
LEMMA LengthCovered ==
    ASSUME TInv
    PROVE  TableCoversLength
<1> SUFFICES ASSUME NEW s \in SequenceIds, seqs[s].phase = "live"
             PROVE  /\ seqs[s].count = BlocksForLength(TableLength(s))
                    /\ seqs[s].pending # None =>
                            seqs[s].pending.previous = BlocksForLength(seqs[s].length)
                    /\ \A i \in Held(s) :
                        seqs[s].valid[i] =
                            SmallerOf(LargerOf(TableLength(s) - i * BlockSize, 0), BlockSize)
  BY DEF TableCoversLength
<1>1. LiveTableFits(seqs[s])
  BY DEF TInv, TablesFit, TableFits
<1>2. TableLength(s) = Described(seqs[s])
  BY DEF TableLength, Described
<1> QED BY <1>1, <1>2 DEF LiveTableFits, Held, Content

\* The positions a reservation writes are behind the shared prefix, so their blocks
\* are owned alone.
LEMMA WritesPrivate ==
    ASSUME IInv, TInv
    PROVE  WritesArePrivate
<1> SUFFICES ASSUME NEW s \in SequenceIds, seqs[s].phase = "live", seqs[s].pending # None,
                    NEW i \in Written(s)
             PROVE  LET b == seqs[s].ids[i].index
                    IN  /\ ValidBlock(seqs[s].ids[i], s)
                        /\ Readers(b) = {}
                        /\ \A h \in holds : h.index # b
                        /\ \A r \in SequenceIds : \A j \in Held(r) :
                                seqs[r].ids[j].index = b => r = s /\ i = j
  BY DEF WritesArePrivate
<1> DEFINE b == seqs[s].ids[i].index
<1>1. /\ TypeOK /\ seqs[s] \in SequenceState /\ SharedCurrent /\ PrivateBlocksExclusive
      /\ seqs \in [SequenceIds -> SequenceState]
  BY DEF IInv, TInv, TypeOK
<1>2. i \in Index /\ i \in Nat /\ i >= seqs[s].length \div BlockSize /\ i < seqs[s].count
  BY IndexFinite DEF Written
<1>3. /\ seqs[s].length \in Nat /\ seqs[s].shared \in Nat /\ BlockSize \in Nat /\ BlockSize > 0
      /\ seqs[s].shared * BlockSize <= seqs[s].length
  BY <1>1, ConstantsAssumption DEF SequenceState, TInv, TablesFit, TableFits, LiveTableFits
<1>4. seqs[s].shared <= seqs[s].length \div BlockSize
  <2> DEFINE d == seqs[s].length \div BlockSize
             n == seqs[s].shared
             m == seqs[s].length
  <2>1. d \in Nat /\ m < BlockSize * d + BlockSize
    <3> HIDE DEF m
    <3>1. m \in Nat /\ BlockSize \in Nat \ {0}
      BY <1>3 DEF m
    <3>2. d = m \div BlockSize
      BY DEF m
    <3> HIDE DEF d
    <3> QED BY <3>1, <3>2, DivisionBounds
  <2>2. n \in Nat /\ m \in Nat /\ n * BlockSize <= m
    BY <1>3
  <2> HIDE DEF d, n, m
  <2>3. SUFFICES ASSUME n >= d + 1 PROVE FALSE
    BY <2>1, <2>2 DEF d, n
  <2>4. BlockSize * n >= BlockSize * (d + 1)
    BY <1>3, <2>1, <2>2, <2>3
  <2>5. BlockSize * (d + 1) = BlockSize * d + BlockSize /\ BlockSize * n = n * BlockSize
    BY <1>3, <2>1, <2>2
  <2>6. BlockSize * d \in Nat /\ n * BlockSize \in Nat
    BY <1>3, <2>1, <2>2
  <2> QED BY <1>3, <2>1, <2>2, <2>4, <2>5, <2>6
<1>5. i \in Private(s)
  <2>1. seqs[s].length \div BlockSize \in Nat
    BY <1>3, DivisionBounds
  <2> QED BY <1>2, <1>3, <1>4, <2>1 DEF Private, Held
<1>6. ValidBlock(seqs[s].ids[i], s)
  BY <1>1, <1>5 DEF PrivateBlocksExclusive
<1>7. b \in Blocks /\ slots[b].owner = s
  BY <1>1, <1>2, <1>6 DEF SequenceState, ValidBlock, Handle
<1>8. s # SharedOwner
  BY ConstantsAssumption
<1> HIDE DEF b
<1>9. Readers(b) = {} /\ Holders(b) = {}
  BY <1>7, <1>8, OwnedIsUnshared
<1>10. \A h \in holds : h.index # b
  BY <1>9 DEF Holders
<1>11. ASSUME NEW r \in SequenceIds, NEW j \in Held(r), seqs[r].ids[j].index = b
       PROVE  r = s /\ i = j
  <2>1. j \in Index /\ j \in Nat /\ seqs[r].shared \in Nat
    BY <1>1, IndexFinite DEF Held, SequenceState
  <2>2. ~(j < seqs[r].shared)
    <3> SUFFICES ASSUME j < seqs[r].shared PROVE FALSE
      OBVIOUS
    <3>1. <<r, j>> \in Readers(b)
      BY <1>1, <1>11, <2>1, SharedPosition
    <3> QED BY <1>9, <3>1
  <2>3. j \in Private(r)
    BY <1>11, <2>1, <2>2 DEF Private
  <2>4. slots[b].owner = r
    BY <1>1, <1>11, <2>3 DEF PrivateBlocksExclusive, ValidBlock
  <2>5. r = s
    BY <1>7, <2>4
  <2> QED BY <1>1, <1>5, <1>11, <2>3, <2>5 DEF PrivateBlocksExclusive, b
<1> QED BY <1>6, <1>9, <1>10, <1>11 DEF b

\* The tables the device reads are sound: their handles are current, they cover
\* their length, and what a reservation may write nobody else holds.
THEOREM TablesCorrect == Spec => []TablesSound
<1>1. IInv /\ TInv => TablesSound
  BY HandlesValid, LengthCovered, WritesPrivate DEF TablesSound
<1> QED BY <1>1, TableInvariance, PTL

\* A step that starts no reservation.
LEMMA NoReservation ==
    ASSUME \A r \in SequenceIds : seqs'[r].pending \in {None, seqs[r].pending}
    PROVE  TokenStep
BY DEF TokenStep

\* The same of a step that changes one table.
LEMMA OneTableNoReservation ==
    ASSUME seqs \in [SequenceIds -> SequenceState], NEW s \in SequenceIds, NEW q,
           seqs' = [seqs EXCEPT ![s] = q], q.pending \in {None, seqs[s].pending}
    PROVE  TokenStep
<1>1. \A r \in SequenceIds : seqs'[r].pending \in {None, seqs[r].pending}
  OBVIOUS
<1> QED BY <1>1, NoReservation

\* A token of reserve_to is younger than all that callers have.
LEMMA ReserveToToken ==
    ASSUME IInv, TInv, NEW s \in SequenceIds, NEW target \in 0 .. MaxLength, ReserveTo(s, target)
    PROVE  TokenStep
<1> DEFINE p == seqs[s]
           pending == [nonce |-> p.nonce, previous |-> p.count, target |-> target]
<1>1. seqs \in [SequenceIds -> SequenceState] /\ p \in SequenceState /\ p.nonce \in Int
  BY DEF IInv, TypeOK, SequenceState
<1>2. p.phase = "live"
  BY DEF ReserveTo, ReservePreflight, Mutable
<1>3. PICK new \in FreshBlocks(p.count, BlocksForLength(target)) :
        seqs' = [seqs EXCEPT ![s] = [p EXCEPT
                !.ids = [i \in Index |->
                            IF i \in DOMAIN new
                            THEN [index |-> new[i],
                                  generation |-> slots[new[i]].generation + 1]
                            ELSE p.ids[i]],
                !.valid = FillValidTokens(p.valid, target, BlocksForLength(target),
                                          LargerOf(BlocksForLength(target), p.count)),
                !.count = LargerOf(BlocksForLength(target), p.count),
                !.pending = pending,
                !.nonce = p.nonce + 1]]
  BY ZenonT(60) DEF ReserveTo
<1> DEFINE ids == [i \in Index |-> IF i \in DOMAIN new
                                   THEN [index |-> new[i],
                                         generation |-> slots[new[i]].generation + 1]
                                   ELSE p.ids[i]]
           count == LargerOf(BlocksForLength(target), p.count)
           valid == FillValidTokens(p.valid, target, BlocksForLength(target), count)
           nonce == p.nonce + 1
<1>4. seqs' = [seqs EXCEPT ![s] = [p EXCEPT !.ids = ids, !.valid = valid, !.count = count,
                                            !.pending = pending, !.nonce = nonce]]
  BY <1>3
<1>5. pending.nonce = p.nonce
  OBVIOUS
<1> HIDE DEF pending, ids, count, valid, nonce
<1>6. seqs'[s].pending = pending /\ \A r \in SequenceIds : r # s => seqs'[r] = seqs[r]
  BY <1>1, <1>4 DEF SequenceState
<1> SUFFICES ASSUME NEW r \in SequenceIds, seqs'[r].pending # seqs[r].pending
             PROVE  [sequence |-> r, nonce |-> seqs'[r].pending.nonce,
                     previous |-> seqs'[r].pending.previous,
                     target |-> seqs'[r].pending.target] \notin tokens
  BY DEF TokenStep
<1>7. r = s
  BY <1>6
<1>8. ASSUME NEW t \in tokens, t.sequence = s PROVE t.nonce # p.nonce
  <2>1. t.nonce < p.nonce
    BY <1>2, <1>8 DEF TInv, TokensSpent
  <2>2. t.nonce \in Int
    BY DEF IInv, TypeOK, Token
  <2> QED BY <1>1, <2>1, <2>2
<1> QED BY <1>5, <1>6, <1>7, <1>8

\* No other call starts a reservation.
LEMMA NextToken ==
    ASSUME IInv, TInv, Next
    PROVE  TokenStep
<1>1. seqs \in [SequenceIds -> SequenceState]
  BY DEF IInv, TypeOK
<1>2. ASSUME NEW s \in SequenceIds, NEW maximum \in MaximumLengths, CreateSequence(s, maximum)
      PROVE  TokenStep
  <2> DEFINE q == [seqs[s] EXCEPT !.phase = "live", !.maximum = maximum]
  <2>1. seqs' = [seqs EXCEPT ![s] = q]
    BY <1>1, <1>2 DEF CreateSequence, SequenceState
  <2>2. q.pending = seqs[s].pending
    BY <1>1 DEF SequenceState
  <2> HIDE DEF q
  <2> QED BY <1>1, <2>1, <2>2, OneTableNoReservation
<1>3. ASSUME seqs' = seqs PROVE TokenStep
  BY <1>3, NoReservation
<1>4. ASSUME NEW s \in SequenceIds, NEW target \in 0 .. MaxLength, TruncateTo(s, target)
      PROVE  TokenStep
  <2> DEFINE t == TableWithoutTail(seqs[s], BlocksForLength(target))
             v == FillValidTokens(t.valid, target, BlocksForLength(target), t.count)
             q == [t EXCEPT !.length = target, !.valid = v]
  <2>1. seqs' = [seqs EXCEPT ![s] = q]
    BY <1>4 DEF TruncateTo
  <2>2. BlocksForLength(target) \in Nat
    BY ConstantsAssumption, BlocksForLengthNat
  <2>3. t \in SequenceState /\ t.pending = seqs[s].pending
    BY <1>1, <2>2, TableWithoutTailType
  <2> HIDE DEF t, v
  <2>4. q.pending = t.pending
    BY <2>3 DEF SequenceState
  <2> HIDE DEF q
  <2> QED BY <1>1, <2>1, <2>3, <2>4, OneTableNoReservation
<1>5. ASSUME NEW s \in SequenceIds, NEW t \in tokens, Commit(s, t)
      PROVE  TokenStep
  <2> DEFINE q == [seqs[s] EXCEPT !.pending = None, !.length = t.target]
  <2>1. seqs' = [seqs EXCEPT ![s] = q]
    BY <1>1, <1>5 DEF Commit, SequenceState
  <2>2. q.pending = None
    BY <1>1 DEF SequenceState
  <2> HIDE DEF q
  <2> QED BY <1>1, <2>1, <2>2, OneTableNoReservation
<1>6. ASSUME NEW s \in SequenceIds, seqs[s].pending # None, NEW q,
             seqs' = [seqs EXCEPT ![s] = q],
             q \in {TableRolledBack(seqs[s]), [TableRolledBack(seqs[s]) EXCEPT !.poisoned = TRUE]}
      PROVE  TokenStep
  <2> DEFINE t == TableRolledBack(seqs[s])
  <2>1. t \in SequenceState /\ t.pending = None
    BY <1>1, <1>6, TableRolledBackType
  <2>2. q = t \/ q = [t EXCEPT !.poisoned = TRUE]
    BY <1>6
  <2> HIDE DEF t
  <2>3. q.pending = None
    BY <2>1, <2>2 DEF SequenceState
  <2> QED BY <1>1, <1>6, <2>3, OneTableNoReservation
<1>7. ASSUME NEW s \in SequenceIds, NEW t \in tokens, Rollback(s, t) \/ Poison(s, t)
      PROVE  TokenStep
  <2>1. seqs[s].pending # None
    BY <1>7, MatchedIsPending DEF Rollback, Poison
  <2>2. \/ seqs' = [seqs EXCEPT ![s] = TableRolledBack(seqs[s])]
        \/ seqs' = [seqs EXCEPT ![s] = [TableRolledBack(seqs[s]) EXCEPT !.poisoned = TRUE]]
    BY <1>1, <1>7 DEF Rollback, Poison
  <2> QED BY <1>6, <2>1, <2>2
<1>8. ASSUME NEW s \in SequenceIds, RollbackAbandonedReservation(s)
      PROVE  TokenStep
  <2>1. seqs[s].pending # None
    BY <1>8 DEF RollbackAbandonedReservation
  <2>2. seqs' = [seqs EXCEPT ![s] = [TableRolledBack(seqs[s]) EXCEPT !.poisoned = TRUE]]
    BY <1>1, <1>8 DEF RollbackAbandonedReservation
  <2> QED BY <1>6, <2>1, <2>2
<1>9. ASSUME NEW s \in SequenceIds, Reset(s)
      PROVE  TokenStep
  <2> DEFINE t == TableWithoutTail(seqs[s], 0)
             q == TableReset(seqs[s])
  <2>1. seqs' = [seqs EXCEPT ![s] = q]
    BY <1>1, <1>9 DEF Reset
  <2>2. t \in SequenceState
    BY <1>1, TableWithoutTailType
  <2>3. q = [t EXCEPT !.length = 0, !.pending = None, !.poisoned = FALSE]
    BY DEF TableReset
  <2> HIDE DEF t, q
  <2>4. q.pending = None
    BY <2>2, <2>3 DEF SequenceState
  <2> QED BY <1>1, <2>1, <2>4, OneTableNoReservation
<1>10. ASSUME NEW s \in SequenceIds, AbandonForReclaim(s)
       PROVE  TokenStep
  <2> DEFINE q == [seqs[s] EXCEPT !.phase = "orphan"]
  <2>1. seqs' = [seqs EXCEPT ![s] = q]
    BY <1>1, <1>10 DEF AbandonForReclaim, SequenceState
  <2>2. q.pending = seqs[s].pending
    BY <1>1 DEF SequenceState
  <2> HIDE DEF q
  <2> QED BY <1>1, <2>1, <2>2, OneTableNoReservation
<1>11. ASSUME NEW s \in SequenceIds, ReclaimSequence(s)
       PROVE  TokenStep
  <2> DEFINE q == [Unborn EXCEPT !.phase = "gone"]
  <2>1. seqs' = [seqs EXCEPT ![s] = q]
    BY <1>11 DEF ReclaimSequence
  <2>2. q.pending = None
    BY DEF Unborn
  <2> HIDE DEF q
  <2> QED BY <1>1, <2>1, <2>2, OneTableNoReservation
<1>12. ASSUME NEW s \in SequenceIds, NEW h \in Handle, AdoptSharedBlock(s, h)
       PROVE  TokenStep
  <2> DEFINE i == seqs[s].count
             ids == [seqs[s].ids EXCEPT ![i] = h]
             valid == [seqs[s].valid EXCEPT ![i] = BlockSize]
             next == i + 1
             length == (i + 1) * BlockSize
             q == [seqs[s] EXCEPT !.ids = ids, !.valid = valid, !.count = next,
                                  !.shared = next, !.length = length]
  <2>1. seqs' = [seqs EXCEPT ![s] = q]
    BY <1>1, <1>12 DEF AdoptSharedBlock, SequenceState
  <2> HIDE DEF ids, valid, next, length
  <2>2. q.pending = seqs[s].pending
    BY <1>1 DEF SequenceState
  <2> HIDE DEF q
  <2> QED BY <1>1, <2>1, <2>2, OneTableNoReservation
<1>13. ASSUME NEW s \in SequenceIds, ShareNextBlock(s)
       PROVE  TokenStep
  <2> DEFINE next == seqs[s].shared + 1
             q == [seqs[s] EXCEPT !.shared = next]
  <2>1. seqs' = [seqs EXCEPT ![s] = q]
    BY <1>1, <1>13 DEF ShareNextBlock, SequenceState
  <2> HIDE DEF next
  <2>2. q.pending = seqs[s].pending
    BY <1>1 DEF SequenceState
  <2> HIDE DEF q
  <2> QED BY <1>1, <2>1, <2>2, OneTableNoReservation
<1>14. ASSUME NEW s \in SequenceIds, \/ \E target \in 0 .. MaxLength : ReserveExhausted(s, target)
                                     \/ \E i \in Index : AttachSidecar(s, i)
       PROVE  TokenStep
  BY <1>3, <1>14 DEF ReserveExhausted, AttachSidecar
<1>15. ASSUME \/ \E t \in tokens : DropToken(t)
              \/ \E h \in holds : ReleaseSharedBlock(h)
       PROVE  TokenStep
  BY <1>3, <1>15 DEF DropToken, ReleaseSharedBlock
<1> QED
  BY <1>2, <1>4, <1>5, <1>7, <1>8, <1>9, <1>10, <1>11, <1>12, <1>13, <1>14, <1>15, ReserveToToken
  DEF Next

\* Reservation tokens are unforgeable: reserve_to never issues one that a caller
\* still has, whatever reset, rollback_abandoned_reservation or poison did before.
THEOREM TokensCorrect == Spec => TokensUnforgeable
<1>1. IInv /\ TInv /\ [Next]_vars => [TokenStep]_vars
  BY NextToken
<1> QED BY <1>1, TableInvariance, PTL DEF Spec, TokensUnforgeable
=============================================================================
