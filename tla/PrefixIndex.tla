---------------------------- MODULE PrefixIndex ----------------------------
(***************************************************************************)
(* The prefix cache of riley-scheduler (prefix_cache.rs) as operators on   *)
(* an index value: a trie of full prompt blocks keyed by the parent entry  *)
(* and the exact tokens, a LIFO of vacant entry ids, and the recency list. *)
(* The doubly linked list of the code is a sequence here, oldest first.    *)
(* Operators return the new index; what happens to the pool follows from   *)
(* the set of blocks an index lists.                                       *)
(***************************************************************************)
EXTENDS Integers, Sequences, SequencesExt, FiniteSets

CONSTANTS
    Capacity,   \* the most blocks the index lists
    Vacant      \* an unused entry

ASSUME CapacityAssumption == Capacity \in Nat

EntryIds == 1 .. Capacity

\* Parent of the first block of every prompt.
Root == 0

\* Used entries: the key, the block, and how many entries have this one as parent.
Entries ==
    [parent : Nat, tokens : Seq(Nat), block : [prefix : Seq(Nat), copy : Nat], children : Nat]

ASSUME VacantAssumption == Vacant \notin Entries

\* PrefixCache::new: vacant ids pop in ascending order.
EmptyIndex ==
    [entries |-> [id \in EntryIds |-> Vacant],
     vacant  |-> [i \in EntryIds |-> Capacity + 1 - i],
     recency |-> <<>>]

Listed(index) == {id \in EntryIds : index.entries[id] # Vacant}

ListedBlocks(index) == {index.entries[id].block : id \in Listed(index)}

\* Mutant: the parent is not part of the key.
FindByTokens(index, parent, tokens) ==
    {id \in Listed(index) : index.entries[id].tokens = tokens}

\* find: the entry with this key, as a set of at most one id.
Find(index, parent, tokens) ==
    {id \in Listed(index) : /\ index.entries[id].parent = parent
                            /\ index.entries[id].tokens = tokens}

HasRoom(index) == Cardinality(Listed(index)) < Capacity

\* unlink followed by link_newest.
MoveToNewest(recency, id) == Append(RemoveFirst(recency, id), id)

WithChildren(entries, parent, change) ==
    IF parent = Root THEN entries
                     ELSE [entries EXCEPT ![parent].children = @ + change]

\* The caller has made room and checked that the key is absent.
Insert(index, parent, tokens, block) ==
    LET id == Last(index.vacant)
    IN  [entries |-> [WithChildren(index.entries, parent, 1) EXCEPT ![id] =
                        [parent |-> parent, tokens |-> tokens, block |-> block, children |-> 0]],
         vacant  |-> Front(index.vacant),
         recency |-> Append(index.recency, id)]

\* The id insert gives out.
NextEntry(index) == Last(index.vacant)

ParentOf(index, id) == IF id = Root THEN Root ELSE index.entries[id].parent

\* The n-th ancestor of entry id, which is its own ancestor 0.
Ancestors(index, id) ==
    LET up[n \in 0 .. Capacity] == IF n = 0 THEN id ELSE ParentOf(index, up[n - 1])
    IN  up

\* touch_path: the entry, then each ancestor, becomes the newest.
TouchPath(index, id) ==
    LET up == Ancestors(index, id)
        recency[n \in 0 .. Capacity] ==
            IF n = 0 THEN index.recency
            ELSE IF up[n - 1] = Root THEN recency[n - 1]
            ELSE MoveToNewest(recency[n - 1], up[n - 1])
    IN  [index EXCEPT !.recency = recency[Capacity]]

Unlist(index, id) ==
    [entries |-> [WithChildren(index.entries, index.entries[id].parent, -1) EXCEPT ![id] = Vacant],
     vacant  |-> Append(index.vacant, id),
     recency |-> RemoveFirst(index.recency, id)]

\* Entries evict_one may free: no children, and no holder but the index.
Evictable(index, held) ==
    {id \in Listed(index) : /\ index.entries[id].children = 0
                            /\ index.entries[id].block \notin held}

CanEvict(index, held) == Evictable(index, held) # {}

\* evict_one, when some entry is evictable: the least recently used one.
EvictOne(index, held) ==
    Unlist(index, index.recency[SelectInSeq(index.recency,
                                            LAMBDA id : id \in Evictable(index, held))])

\* clear: ids go back in ascending order on top of the vacant ones.
ClearIndex(index) ==
    LET vacated[n \in 0 .. Capacity] ==
            IF n = 0 THEN index.vacant
            ELSE IF n \in Listed(index) THEN Append(vacated[n - 1], n)
            ELSE vacated[n - 1]
    IN  [entries |-> [id \in EntryIds |-> Vacant],
         vacant  |-> vacated[Capacity],
         recency |-> <<>>]
=============================================================================
