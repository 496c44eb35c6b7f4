----------------------------- MODULE CacheProofs -----------------------------
(***************************************************************************)
(* The prefix cache of the scheduler and the blocks of the pool, for every *)
(* configuration, any requests and any order of calls: the trie and the    *)
(* requests agree, reuse is sound, nothing leaks, and every reservation    *)
(* fits.  The proof rests on SchedulerProofs for the queues, the plan in   *)
(* flight and the admission counters.                                      *)
(***************************************************************************)
EXTENDS SchedulerProofs

-----------------------------------------------------------------------------
(* The trie: what the index of the prefix cache looks like.                *)

BlockIds == [prefix : Seq(Nat), copy : Nat]

PrefixOf(x, id) == IF id = Root THEN <<>> ELSE x.entries[id].block.prefix

Children(x, id) == {c \in Listed(x) : x.entries[c].parent = id}

IndexShape(x) ==
    x \in [entries : [EntryIds -> Entries \cup {Vacant}],
           vacant : {x.vacant}, recency : {x.recency}]

\* s lists every entry id in X once.
ListsOnce(s, X) == s \in Seq(EntryIds) /\ IsInjectiveSeq(s) /\ ToSet(s) = X

\* Entry id hangs below a listed one and continues its prefix by one block.
Hangs(x, id) ==
    LET e == x.entries[id]
    IN  /\ e.parent \in Listed(x) \cup {Root}
        /\ e.children = Cardinality(Children(x, id))
        /\ Len(e.tokens) = BlockSize
        /\ e.block.prefix = PrefixOf(x, e.parent) \o e.tokens

\* Neither keys nor blocks are listed twice.
Distinct(x) ==
    \A i, j \in Listed(x) :
        \/ /\ x.entries[i].parent = x.entries[j].parent
           /\ x.entries[i].tokens = x.entries[j].tokens
        \/ x.entries[i].block = x.entries[j].block
        => i = j

Trie(x) ==
    /\ IndexShape(x)
    /\ ListsOnce(x.vacant, EntryIds \ Listed(x))
    /\ ListsOnce(x.recency, Listed(x))
    /\ \A id \in Listed(x) : Hangs(x, id)
    /\ Distinct(x)

\* Entry ids are finite, and none is the root.
LEMMA EntryIdsAre ==
    /\ IsFiniteSet(EntryIds) /\ Cardinality(EntryIds) = Capacity
    /\ EntryIds \subseteq Nat /\ Root \notin EntryIds /\ Root \in Nat
<1>1. Capacity \in Int /\ 1 \in Int /\ Capacity \in Nat BY CapacityAssumption
<1>2. /\ IsFiniteSet(1 .. Capacity)
      /\ Cardinality(1 .. Capacity) = IF 1 > Capacity THEN 0 ELSE Capacity - 1 + 1
  BY <1>1, FS_Interval
<1> QED BY <1>1, <1>2 DEF EntryIds, Root

\* Listed entries have the fields of an entry.
LEMMA ListedAre ==
    ASSUME NEW x, IndexShape(x)
    PROVE  /\ Listed(x) \subseteq EntryIds /\ IsFiniteSet(Listed(x))
           /\ \A id \in Listed(x) : x.entries[id] \in Entries
           /\ \A id : IsFiniteSet(Children(x, id)) /\ Cardinality(Children(x, id)) \in Nat
<1>1. Listed(x) \subseteq EntryIds BY DEF Listed
<1>2. IsFiniteSet(Listed(x)) BY <1>1, EntryIdsAre, FS_Subset
<1>3. \A id \in Listed(x) : x.entries[id] \in Entries BY DEF Listed, IndexShape
<1>4. ASSUME NEW id
      PROVE  IsFiniteSet(Children(x, id)) /\ Cardinality(Children(x, id)) \in Nat
  <2>1. Children(x, id) \in SUBSET Listed(x) BY DEF Children
  <2>2. IsFiniteSet(Children(x, id)) BY <1>2, <2>1, FS_Subset
  <2> QED BY <2>2, FS_CardinalityType
<1> QED BY <1>1, <1>2, <1>3, <1>4

\* The first id of a list joins or leaves what it lists.
LEMMA ListsOnceMore ==
    ASSUME NEW s, NEW X, ListsOnce(s, X), NEW id \in EntryIds
    PROVE  /\ id \notin X => ListsOnce(Append(s, id), X \cup {id})
           /\ id \in X => ListsOnce(RemoveFirst(s, id), X \ {id})
<1>1. s \in Seq(EntryIds) /\ IsInjectiveSeq(s) /\ ToSet(s) = X BY DEF ListsOnce
<1>2. ASSUME id \notin X PROVE ListsOnce(Append(s, id), X \cup {id})
  <2>1. id \notin ToSet(s) BY <1>1, <1>2
  <2>2. /\ Append(s, id) \in Seq(EntryIds) /\ ToSet(Append(s, id)) = ToSet(s) \cup {id}
        /\ IsInjectiveSeq(Append(s, id))
    BY <1>1, <2>1, AppendIs
  <2> QED BY <1>1, <2>2 DEF ListsOnce
<1>3. ASSUME id \in X PROVE ListsOnce(RemoveFirst(s, id), X \ {id})
  <2>1. id \in ToSet(s) BY <1>1, <1>3
  <2> QED BY <1>1, <2>1, RemoveFirstInjective DEF ListsOnce
<1> QED BY <1>2, <1>3

\* The last id of a list leaves it.
LEMMA ListsOnceFront ==
    ASSUME NEW s, NEW X, ListsOnce(s, X), X # {}
    PROVE  Last(s) \in X /\ ListsOnce(Front(s), X \ {Last(s)})
<1>1. s \in Seq(EntryIds) /\ IsInjectiveSeq(s) /\ ToSet(s) = X /\ Len(s) \in Nat
  BY DEF ListsOnce
<1>2. Len(s) # 0 BY <1>1 DEF ToSet
<1> DEFINE f == Front(s)
           n == Len(s)
<1>3. /\ f \in Seq(EntryIds) /\ Len(f) = n - 1
      /\ \A k \in 1 .. n - 1 : f[k] = s[k]
  <2>1. n \in 1 .. Len(s) /\ s \in Seq(EntryIds) BY <1>1, <1>2
  <2> HIDE DEF n
  <2>2. /\ SubSeq(s, 1, n - 1) \in Seq(EntryIds) /\ Len(SubSeq(s, 1, n - 1)) = n - 1
        /\ \A k \in 1 .. n - 1 : SubSeq(s, 1, n - 1)[k] = s[k]
    BY <2>1
  <2>3. f = SubSeq(s, 1, n - 1) BY DEF Front, n
  <2> HIDE DEF f
  <2> QED BY <2>2, <2>3
<1>4. n \in Nat /\ n > 0 /\ DOMAIN s = 1 .. n /\ Last(s) = s[n] BY <1>1, <1>2 DEF Last
<1> HIDE DEF f, n
<1>5. DOMAIN f = 1 .. n - 1 BY <1>3, <1>4
<1>6. \A i, j \in 1 .. n : s[i] = s[j] => i = j BY <1>1, <1>4 DEF IsInjectiveSeq
<1>7. IsInjectiveSeq(f) BY <1>3, <1>4, <1>5, <1>6 DEF IsInjectiveSeq
<1>8. ToSet(f) = X \ {Last(s)}
  <2>1. ASSUME NEW k \in 1 .. n - 1 PROVE f[k] \in ToSet(s) \ {s[n]}
    <3>1. k \in 1 .. n /\ k # n BY <1>4
    <3>2. s[k] # s[n] /\ s[k] \in ToSet(s) BY <1>4, <1>6, <3>1 DEF ToSet
    <3> QED BY <1>3, <3>2
  <2>2. ASSUME NEW k \in 1 .. n, s[k] # s[n] PROVE s[k] \in ToSet(f)
    <3>1. k \in 1 .. n - 1 BY <1>4, <2>2
    <3> QED BY <1>3, <1>5, <3>1 DEF ToSet
  <2> QED BY <1>1, <1>4, <1>5, <2>1, <2>2 DEF ToSet
<1>9. Last(s) \in X BY <1>1, <1>4 DEF ToSet
<1> QED BY <1>3, <1>7, <1>8, <1>9 DEF f, ListsOnce

\* How many ids a list has.
LEMMA ListsOnceLength ==
    ASSUME NEW s, NEW X, ListsOnce(s, X)
    PROVE  Len(s) = Cardinality(X) /\ IsFiniteSet(X)
<1>1. s \in Seq(EntryIds) /\ IsInjectiveSeq(s) /\ ToSet(s) = X /\ Len(s) \in Nat
  BY DEF ListsOnce
<1> DEFINE n == Len(s)
<1>2. DOMAIN s = 1 .. n BY <1>1
<1>3. s \in Bijection(1 .. n, X)
  <2>1. s \in [1 .. n -> X] BY <1>1, <1>2 DEF ToSet
  <2>2. s \in Injection(1 .. n, X) BY <1>1, <1>2, <2>1 DEF IsInjectiveSeq, Injection, IsInjective
  <2>3. s \in Surjection(1 .. n, X) BY <1>1, <1>2, <2>1 DEF ToSet, Surjection
  <2> QED BY <2>2, <2>3 DEF Bijection
<1>4. IsFiniteSet(1 .. n) /\ Cardinality(1 .. n) = n
  <2>1. n \in Int /\ 1 \in Int /\ n \in Nat BY <1>1
  <2>2. IsFiniteSet(1 .. n) /\ Cardinality(1 .. n) = IF 1 > n THEN 0 ELSE n - 1 + 1
    BY <2>1, FS_Interval
  <2> QED BY <2>1, <2>2
<1>5. ExistsBijection(1 .. n, X) BY <1>3 DEF ExistsBijection
<1> QED BY <1>4, <1>5, FS_Bijection

\* One child more or less for an entry; the other entries stay.
LEMMA WithChildrenIs ==
    ASSUME NEW f \in [EntryIds -> Entries \cup {Vacant}], NEW p \in EntryIds \cup {Root},
           NEW d \in Int, p # Root => f[p] \in Entries /\ f[p].children + d \in Nat
    PROVE  /\ WithChildren(f, p, d) \in [EntryIds -> Entries \cup {Vacant}]
           /\ \A o \in EntryIds \ {p} : WithChildren(f, p, d)[o] = f[o]
           /\ p # Root => /\ WithChildren(f, p, d)[p] \in Entries
                          /\ WithChildren(f, p, d)[p].parent = f[p].parent
                          /\ WithChildren(f, p, d)[p].tokens = f[p].tokens
                          /\ WithChildren(f, p, d)[p].block = f[p].block
                          /\ WithChildren(f, p, d)[p].children = f[p].children + d
<1>1. CASE p = Root BY <1>1 DEF WithChildren
<1>2. CASE p # Root
  <2> DEFINE e == [f[p] EXCEPT !.children = @ + d]
  <2>1. p \in EntryIds /\ f[p] \in Entries /\ f[p].children + d \in Nat BY <1>2
  <2>2. /\ e \in Entries /\ e.parent = f[p].parent /\ e.tokens = f[p].tokens
        /\ e.block = f[p].block /\ e.children = f[p].children + d
    BY <2>1 DEF Entries
  <2>3. WithChildren(f, p, d) = [f EXCEPT ![p] = e] BY <1>2 DEF WithChildren
  <2> HIDE DEF e
  <2>4. /\ [f EXCEPT ![p] = e] \in [EntryIds -> Entries \cup {Vacant}]
        /\ \A o \in EntryIds \ {p} : [f EXCEPT ![p] = e][o] = f[o]
        /\ [f EXCEPT ![p] = e][p] = e
    BY <2>1, <2>2
  <2> QED BY <2>2, <2>3, <2>4
<1> QED BY <1>1, <1>2

\* The entry keeps its place in the trie.
SamePlace(e, f) == f.parent = e.parent /\ f.tokens = e.tokens /\ f.block = e.block

\* y is x with the new entry id, which is e.
Gains(x, y, id, e) ==
    /\ Trie(y)
    /\ id \in EntryIds \ Listed(x) /\ Listed(y) = Listed(x) \cup {id}
    /\ SamePlace(e, y.entries[id])
    /\ \A o \in Listed(x) : SamePlace(x.entries[o], y.entries[o])

\* y is x without entry id, which has no children.
Loses(x, y, id) ==
    /\ Trie(y)
    /\ id \in Listed(x) /\ Listed(y) = Listed(x) \ {id} /\ Children(x, id) = {}
    /\ \A o \in Listed(y) : SamePlace(x.entries[o], y.entries[o])

\* What the caller of insert has made sure of.
Insertable(x, parent, tokens, block) ==
    /\ HasRoom(x) /\ parent \in Listed(x) \cup {Root}
    /\ tokens \in Seq(Nat) /\ Len(tokens) = BlockSize
    /\ block \in BlockIds /\ block.prefix = PrefixOf(x, parent) \o tokens
    /\ Find(x, parent, tokens) = {} /\ block \notin ListedBlocks(x)

NewEntry(parent, tokens, block) ==
    [parent |-> parent, tokens |-> tokens, block |-> block, children |-> 0]

\* The entries after an insertion.
InsertedEntries(x, y, id, e) ==
    /\ IndexShape(y) /\ y.entries[id] = e
    /\ id \in EntryIds \ Listed(x) /\ Listed(y) = Listed(x) \cup {id}
    /\ ListsOnce(y.vacant, EntryIds \ Listed(y)) /\ ListsOnce(y.recency, Listed(y))
    /\ \A o \in Listed(x) :
        /\ SamePlace(x.entries[o], y.entries[o])
        /\ y.entries[o].children = IF o = e.parent THEN x.entries[o].children + 1
                                                   ELSE x.entries[o].children

\* There is a vacant id while there is room.
LEMMA NextEntryIs ==
    ASSUME NEW x, Trie(x), HasRoom(x)
    PROVE  /\ NextEntry(x) \in EntryIds \ Listed(x)
           /\ ListsOnce(Front(x.vacant), EntryIds \ (Listed(x) \cup {NextEntry(x)}))
<1>1. ListsOnce(x.vacant, EntryIds \ Listed(x)) /\ IndexShape(x) BY DEF Trie
<1>2. EntryIds \ Listed(x) # {}
  <2>1. SUFFICES ASSUME EntryIds \ Listed(x) = {} PROVE FALSE OBVIOUS
  <2>2. Listed(x) = EntryIds BY <1>1, <2>1, ListedAre
  <2>3. Cardinality(Listed(x)) < Capacity BY DEF HasRoom
  <2> QED BY <2>2, <2>3, EntryIdsAre, CapacityAssumption
<1>3. /\ Last(x.vacant) \in EntryIds \ Listed(x)
      /\ ListsOnce(Front(x.vacant), (EntryIds \ Listed(x)) \ {Last(x.vacant)})
  BY <1>1, <1>2, ListsOnceFront
<1>4. (EntryIds \ Listed(x)) \ {Last(x.vacant)} = EntryIds \ (Listed(x) \cup {Last(x.vacant)})
  OBVIOUS
<1> QED BY <1>3, <1>4 DEF NextEntry

\* insert puts the entry under a vacant id and counts it at its parent.
LEMMA InsertIs ==
    ASSUME NEW x, Trie(x), NEW parent, NEW tokens, NEW block,
           Insertable(x, parent, tokens, block)
    PROVE  InsertedEntries(x, Insert(x, parent, tokens, block), NextEntry(x),
                           NewEntry(parent, tokens, block))
<1> DEFINE id == NextEntry(x)
           e  == NewEntry(parent, tokens, block)
           y  == Insert(x, parent, tokens, block)
           W  == WithChildren(x.entries, parent, 1)
<1>1. /\ id \in EntryIds \ Listed(x)
      /\ ListsOnce(Front(x.vacant), EntryIds \ (Listed(x) \cup {id}))
  BY NextEntryIs DEF Insertable
<1>2. /\ x.entries \in [EntryIds -> Entries \cup {Vacant}] /\ ListsOnce(x.recency, Listed(x))
      /\ Listed(x) \subseteq EntryIds /\ \A o \in Listed(x) : x.entries[o] \in Entries
  BY ListedAre DEF Trie, IndexShape
<1>3. parent \in Listed(x) \cup {Root} /\ id # parent /\ parent \in EntryIds \cup {Root}
  BY <1>1, <1>2, EntryIdsAre DEF Insertable
<1>4. /\ e \in Entries /\ e.parent = parent /\ e.tokens = tokens /\ e.block = block
      /\ e.children = 0
  <2>1. parent \in Nat /\ tokens \in Seq(Nat) /\ block \in [prefix : Seq(Nat), copy : Nat]
    BY <1>3, EntryIdsAre DEF Insertable, BlockIds
  <2> QED BY <2>1 DEF NewEntry, Entries
<1>5. e # Vacant BY <1>4, VacantAssumption
<1>6. /\ y.entries = [W EXCEPT ![id] = e] /\ y.vacant = Front(x.vacant)
      /\ y.recency = Append(x.recency, id)
      /\ y = [entries |-> y.entries, vacant |-> y.vacant, recency |-> y.recency]
  BY DEF Insert, NextEntry, NewEntry
<1>7. parent # Root => x.entries[parent] \in Entries /\ x.entries[parent].children + 1 \in Nat
  BY <1>2, <1>3 DEF Entries
<1>8. /\ W \in [EntryIds -> Entries \cup {Vacant}]
      /\ \A o \in EntryIds \ {parent} : W[o] = x.entries[o]
      /\ parent # Root => /\ W[parent] \in Entries
                          /\ W[parent].parent = x.entries[parent].parent
                          /\ W[parent].tokens = x.entries[parent].tokens
                          /\ W[parent].block = x.entries[parent].block
                          /\ W[parent].children = x.entries[parent].children + 1
  BY <1>2, <1>3, <1>7, WithChildrenIs
<1> HIDE DEF id, e, y, W
<1>9. /\ y.entries \in [EntryIds -> Entries \cup {Vacant}] /\ y.entries[id] = e
      /\ \A o \in EntryIds \ {id} : y.entries[o] = W[o]
  BY <1>1, <1>4, <1>6, <1>8
<1>10. IndexShape(y) BY <1>6, <1>9 DEF IndexShape
<1>11. Listed(y) = Listed(x) \cup {id}
  <2>1. ASSUME NEW o \in EntryIds PROVE o \in Listed(y) <=> o \in Listed(x) \cup {id}
    <3>1. CASE o = id BY <1>5, <1>9, <3>1 DEF Listed
    <3>2. CASE o # id /\ o = parent
      <4>1. parent # Root /\ parent \in Listed(x) BY <1>3, <3>2, EntryIdsAre
      <4>2. y.entries[o] \in Entries BY <1>8, <1>9, <3>2, <4>1
      <4> QED BY <3>2, <4>1, <4>2, VacantAssumption DEF Listed
    <3>3. CASE o # id /\ o # parent BY <1>8, <1>9, <3>3 DEF Listed
    <3> QED BY <3>1, <3>2, <3>3
  <2>2. Listed(y) \subseteq EntryIds /\ Listed(x) \subseteq EntryIds /\ id \in EntryIds
    BY <1>1 DEF Listed
  <2> QED BY <2>1, <2>2
<1>12. ListsOnce(y.recency, Listed(y))
  <2>1. id \in EntryIds /\ id \notin Listed(x) BY <1>1
  <2>2. ListsOnce(Append(x.recency, id), Listed(x) \cup {id}) BY <1>2, <2>1, ListsOnceMore
  <2> QED BY <1>6, <1>11, <2>2
<1>13. ListsOnce(y.vacant, EntryIds \ Listed(y)) BY <1>1, <1>6, <1>11
<1>14. ASSUME NEW o \in Listed(x)
       PROVE  /\ SamePlace(x.entries[o], y.entries[o])
              /\ y.entries[o].children = IF o = e.parent THEN x.entries[o].children + 1
                                                         ELSE x.entries[o].children
  <2>1. o \in EntryIds /\ o # id /\ o # Root BY <1>1, <1>2, EntryIdsAre
  <2>2. y.entries[o] = W[o] BY <1>9, <2>1
  <2>3. CASE o = parent BY <1>4, <1>8, <2>1, <2>2, <2>3 DEF SamePlace
  <2>4. CASE o # parent BY <1>4, <1>8, <2>1, <2>2, <2>4 DEF SamePlace
  <2> QED BY <2>3, <2>4
<1>15. InsertedEntries(x, y, id, e)
  BY <1>1, <1>9, <1>10, <1>11, <1>12, <1>13, <1>14 DEF InsertedEntries
<1> QED BY <1>15 DEF y, id, e

\* insert keeps the trie well formed.
LEMMA InsertGains ==
    ASSUME NEW x, Trie(x), NEW parent, NEW tokens, NEW block,
           Insertable(x, parent, tokens, block)
    PROVE  Gains(x, Insert(x, parent, tokens, block), NextEntry(x),
                 NewEntry(parent, tokens, block))
<1> DEFINE id == NextEntry(x)
           e  == NewEntry(parent, tokens, block)
           y  == Insert(x, parent, tokens, block)
<1>1. InsertedEntries(x, y, id, e) BY InsertIs
<1>2. e.parent = parent /\ e.tokens = tokens /\ e.block = block /\ e.children = 0
  BY DEF NewEntry
<1> HIDE DEF id, e, y
<1>3. /\ id \in EntryIds \ Listed(x) /\ Listed(y) = Listed(x) \cup {id} /\ y.entries[id] = e
      /\ Listed(x) \subseteq EntryIds /\ id # Root /\ IndexShape(y)
      /\ ListsOnce(y.vacant, EntryIds \ Listed(y)) /\ ListsOnce(y.recency, Listed(y))
  BY <1>1, EntryIdsAre DEF InsertedEntries, Listed
<1>4. ASSUME NEW o \in Listed(x)
      PROVE  /\ y.entries[o].parent = x.entries[o].parent
             /\ y.entries[o].tokens = x.entries[o].tokens
             /\ y.entries[o].block = x.entries[o].block
             /\ y.entries[o].children = IF o = parent THEN x.entries[o].children + 1
                                                      ELSE x.entries[o].children
             /\ x.entries[o].parent \in Listed(x) \cup {Root} /\ x.entries[o].parent # id
             /\ x.entries[o].children = Cardinality(Children(x, o))
  BY <1>1, <1>2, <1>3 DEF InsertedEntries, SamePlace, Trie, Hangs
<1>5. /\ parent \in Listed(x) \cup {Root} /\ parent # id /\ Len(tokens) = BlockSize
      /\ block.prefix = PrefixOf(x, parent) \o tokens /\ Find(x, parent, tokens) = {}
      /\ block \notin ListedBlocks(x)
  BY <1>3 DEF Insertable
<1>6. \A p \in Listed(x) \cup {Root} : PrefixOf(y, p) = PrefixOf(x, p)
  BY <1>3, <1>4 DEF PrefixOf
<1>7. \A p : Children(y, p) = IF p = parent THEN Children(x, p) \cup {id} ELSE Children(x, p)
  <2>1. SUFFICES ASSUME NEW p
                 PROVE  Children(y, p) = IF p = parent THEN Children(x, p) \cup {id}
                                                       ELSE Children(x, p)
    OBVIOUS
  <2>2. ASSUME NEW o
        PROVE  o \in Children(y, p) <=> o \in Children(x, p) \/ (p = parent /\ o = id)
    <3>1. CASE o = id BY <1>2, <1>3, <3>1 DEF Children
    <3>2. CASE o \in Listed(x) BY <1>3, <1>4, <3>2 DEF Children
    <3>3. CASE o # id /\ o \notin Listed(x) BY <1>3, <3>3 DEF Children
    <3> QED BY <3>1, <3>2, <3>3
  <2> QED BY <2>2
<1>8. Children(x, id) = {} /\ id \notin Children(x, parent)
  BY <1>3, <1>4 DEF Children
<1>9. ASSUME NEW o \in Listed(y) PROVE Hangs(y, o)
  <2>1. CASE o = id
    <3>1. Cardinality(Children(y, id)) = 0 BY <1>5, <1>7, <1>8, FS_EmptySet
    <3>2. y.entries[id] = e BY <1>3
    <3>3. PrefixOf(y, parent) = PrefixOf(x, parent) BY <1>5, <1>6
    <3>4. parent \in Listed(y) \cup {Root} BY SMTT(30), <1>3, <1>5
    <3> QED BY <1>2, <1>5, <2>1, <3>1, <3>2, <3>3, <3>4 DEF Hangs
  <2>2. CASE o # id
    <3>1. o \in Listed(x) BY <1>3, <2>2
    <3>2. y.entries[o].children = Cardinality(Children(y, o))
      <4>1. CASE o = parent
        <5>1. IsFiniteSet(Children(x, o)) BY ListedAre DEF Trie
        <5>2. Cardinality(Children(x, o) \cup {id}) = Cardinality(Children(x, o)) + 1
          BY <1>8, <4>1, <5>1, FS_AddElement
        <5> QED BY <1>4, <1>7, <3>1, <4>1, <5>2
      <4>2. CASE o # parent BY <1>4, <1>7, <3>1, <4>2
      <4> QED BY <4>1, <4>2
    <3>3. Hangs(x, o) BY <3>1 DEF Trie
    <3>4. /\ x.entries[o].parent \in Listed(y) \cup {Root}
          /\ PrefixOf(y, x.entries[o].parent) = PrefixOf(x, x.entries[o].parent)
      BY <1>3, <1>4, <1>6, <3>1
    <3> QED BY <1>4, <3>1, <3>2, <3>3, <3>4 DEF Hangs
  <2> QED BY <2>1, <2>2
<1>10. ASSUME NEW o \in Listed(x)
       PROVE  /\ ~(x.entries[o].parent = parent /\ x.entries[o].tokens = tokens)
              /\ x.entries[o].block # block
  BY <1>5 DEF Find, ListedBlocks
<1>11. Distinct(y)
  <2>1. Distinct(x) BY DEF Trie
  <2>2. SUFFICES ASSUME NEW i \in Listed(y), NEW j \in Listed(y),
                        \/ /\ y.entries[i].parent = y.entries[j].parent
                           /\ y.entries[i].tokens = y.entries[j].tokens
                        \/ y.entries[i].block = y.entries[j].block
                 PROVE  i = j
    BY DEF Distinct
  <2>3. CASE i = id /\ j # id
    <3>1. j \in Listed(x) BY <1>3, <2>3
    <3> QED BY <1>2, <1>3, <1>4, <1>10, <2>2, <2>3, <3>1
  <2>4. CASE j = id /\ i # id
    <3>1. i \in Listed(x) BY <1>3, <2>4
    <3> QED BY <1>2, <1>3, <1>4, <1>10, <2>2, <2>4, <3>1
  <2>5. CASE i # id /\ j # id
    <3>1. i \in Listed(x) /\ j \in Listed(x) BY <1>3, <2>5
    <3> QED BY <1>4, <2>1, <2>2, <3>1 DEF Distinct
  <2> QED BY <2>3, <2>4, <2>5
<1>12. Trie(y) BY <1>3, <1>9, <1>11 DEF Trie
<1>13. Gains(x, y, id, e) BY <1>2, <1>3, <1>4, <1>12 DEF Gains, SamePlace
<1> QED BY <1>13 DEF y, id, e

\* The entries after entry id was taken out.
UnlistedEntries(x, y, id) ==
    /\ IndexShape(y) /\ id \in Listed(x) /\ Listed(y) = Listed(x) \ {id}
    /\ ListsOnce(y.vacant, EntryIds \ Listed(y)) /\ ListsOnce(y.recency, Listed(y))
    /\ \A o \in Listed(y) :
        /\ SamePlace(x.entries[o], y.entries[o])
        /\ y.entries[o].children = IF o = x.entries[id].parent THEN x.entries[o].children - 1
                                                               ELSE x.entries[o].children

\* An entry has children while one names it as its parent.
LEMMA ParentCounts ==
    ASSUME NEW x, Trie(x), NEW id \in Listed(x)
    PROVE  LET p == x.entries[id].parent
           IN  /\ p \in Listed(x) \cup {Root} /\ id \in Children(x, p)
               /\ p # Root => /\ x.entries[p].children = Cardinality(Children(x, p))
                              /\ x.entries[p].children \in Nat /\ x.entries[p].children > 0
<1> DEFINE p == x.entries[id].parent
<1>1. p \in Listed(x) \cup {Root} /\ id \in Children(x, p) BY DEF Trie, Hangs, Children
<1>2. ASSUME p # Root
      PROVE  /\ x.entries[p].children = Cardinality(Children(x, p))
             /\ x.entries[p].children \in Nat /\ x.entries[p].children > 0
  <2>1. p \in Listed(x) BY <1>1, <1>2
  <2>2. x.entries[p].children = Cardinality(Children(x, p)) BY <2>1 DEF Trie, Hangs
  <2>3. IsFiniteSet(Children(x, p)) /\ Cardinality(Children(x, p)) \in Nat
    BY ListedAre DEF Trie
  <2>4. Cardinality(Children(x, p)) # 0 BY <1>1, <2>3, FS_EmptySet
  <2> QED BY <2>2, <2>3, <2>4
<1> QED BY <1>1, <1>2

\* Taking an entry out empties its place and counts it out at its parent.
LEMMA UnlistIs ==
    ASSUME NEW x, Trie(x), NEW id \in Listed(x), x.entries[id].children = 0
    PROVE  UnlistedEntries(x, Unlist(x, id), id)
<1> DEFINE y == Unlist(x, id)
           p == x.entries[id].parent
           W == WithChildren(x.entries, p, -1)
<1>1. /\ x.entries \in [EntryIds -> Entries \cup {Vacant}] /\ ListsOnce(x.recency, Listed(x))
      /\ ListsOnce(x.vacant, EntryIds \ Listed(x))
      /\ Listed(x) \subseteq EntryIds /\ \A o \in Listed(x) : x.entries[o] \in Entries
  BY ListedAre DEF Trie, IndexShape
<1>2. /\ p \in Listed(x) \cup {Root} /\ p \in EntryIds \cup {Root}
      /\ p # Root => x.entries[p].children \in Nat /\ x.entries[p].children > 0
  BY <1>1, ParentCounts
<1>3. p # id
  <2>1. SUFFICES ASSUME p = id PROVE FALSE OBVIOUS
  <2>2. p # Root BY <1>1, <2>1, EntryIdsAre
  <2> QED BY <1>2, <2>1, <2>2
<1>4. p # Root => x.entries[p] \in Entries /\ x.entries[p].children + (-1) \in Nat
  BY <1>1, <1>2
<1>5. -1 \in Int OBVIOUS
<1>6. /\ W \in [EntryIds -> Entries \cup {Vacant}]
      /\ \A o \in EntryIds \ {p} : W[o] = x.entries[o]
      /\ p # Root => /\ W[p] \in Entries
                     /\ W[p].parent = x.entries[p].parent /\ W[p].tokens = x.entries[p].tokens
                     /\ W[p].block = x.entries[p].block
                     /\ W[p].children = x.entries[p].children + (-1)
  <2> HIDE DEF p
  <2> QED BY <1>1, <1>2, <1>4, <1>5, WithChildrenIs
<1>7. /\ y.entries = [W EXCEPT ![id] = Vacant] /\ y.vacant = Append(x.vacant, id)
      /\ y.recency = RemoveFirst(x.recency, id)
      /\ y = [entries |-> y.entries, vacant |-> y.vacant, recency |-> y.recency]
  BY DEF Unlist
<1> HIDE DEF y, p, W
<1>8. id \in EntryIds /\ id # Root BY <1>1, EntryIdsAre
<1>9. /\ y.entries \in [EntryIds -> Entries \cup {Vacant}] /\ y.entries[id] = Vacant
      /\ \A o \in EntryIds \ {id} : y.entries[o] = W[o]
  BY <1>6, <1>7, <1>8
<1>10. IndexShape(y) BY <1>7, <1>9 DEF IndexShape
<1>11. Listed(y) = Listed(x) \ {id}
  <2>1. ASSUME NEW o \in EntryIds PROVE o \in Listed(y) <=> o \in Listed(x) \ {id}
    <3>1. CASE o = id BY <1>9, <3>1 DEF Listed
    <3>2. CASE o # id /\ o = p
      <4>1. p # Root /\ p \in Listed(x) BY <1>2, <3>2, EntryIdsAre
      <4>2. y.entries[o] \in Entries BY <1>6, <1>9, <3>2, <4>1
      <4> QED BY <3>2, <4>1, <4>2, VacantAssumption DEF Listed
    <3>3. CASE o # id /\ o # p BY <1>6, <1>9, <3>3 DEF Listed
    <3> QED BY <3>1, <3>2, <3>3
  <2>2. Listed(y) \subseteq EntryIds /\ Listed(x) \subseteq EntryIds BY DEF Listed
  <2> QED BY <2>1, <2>2
<1>12. ListsOnce(y.recency, Listed(y))
  <2>1. ListsOnce(RemoveFirst(x.recency, id), Listed(x) \ {id})
    BY <1>1, <1>8, ListsOnceMore
  <2> QED BY <1>7, <1>11, <2>1
<1>13. ListsOnce(y.vacant, EntryIds \ Listed(y))
  <2>1. id \notin EntryIds \ Listed(x) OBVIOUS
  <2>2. (EntryIds \ Listed(x)) \cup {id} = EntryIds \ (Listed(x) \ {id}) BY <1>8
  <2>3. ListsOnce(Append(x.vacant, id), (EntryIds \ Listed(x)) \cup {id})
    BY <1>1, <1>8, <2>1, ListsOnceMore
  <2> QED BY <1>7, <1>11, <2>2, <2>3
<1>14. ASSUME NEW o \in Listed(y)
       PROVE  /\ SamePlace(x.entries[o], y.entries[o])
              /\ y.entries[o].children = IF o = p THEN x.entries[o].children - 1
                                                  ELSE x.entries[o].children
  <2>1. o \in EntryIds /\ o # id /\ o # Root /\ o \in Listed(x)
    BY <1>1, <1>11, EntryIdsAre
  <2>2. y.entries[o] = W[o] BY <1>9, <2>1
  <2>3. CASE o = p
    <3>1. x.entries[p].children + (-1) = x.entries[p].children - 1 BY <1>2, <2>1, <2>3
    <3> QED BY <1>6, <2>1, <2>2, <2>3, <3>1 DEF SamePlace
  <2>4. CASE o # p BY <1>6, <2>1, <2>2, <2>4 DEF SamePlace
  <2> QED BY <2>3, <2>4
<1>15. UnlistedEntries(x, y, id)
  BY <1>10, <1>11, <1>12, <1>13, <1>14 DEF UnlistedEntries, p
<1> QED BY <1>15 DEF y

\* Taking out an entry without children keeps the trie well formed.
LEMMA UnlistLoses ==
    ASSUME NEW x, Trie(x), NEW id \in Listed(x), x.entries[id].children = 0
    PROVE  Loses(x, Unlist(x, id), id)
<1> DEFINE y == Unlist(x, id)
           p == x.entries[id].parent
<1>1. UnlistedEntries(x, y, id) BY UnlistIs
<1> HIDE DEF y
<1>2. Children(x, id) = {}
  <2>1. /\ x.entries[id].children = Cardinality(Children(x, id))
        /\ IsFiniteSet(Children(x, id))
    BY ListedAre DEF Trie, Hangs
  <2> QED BY <2>1, FS_EmptySet
<1>3. /\ IndexShape(y) /\ Listed(y) = Listed(x) \ {id} /\ id # Root
      /\ ListsOnce(y.vacant, EntryIds \ Listed(y)) /\ ListsOnce(y.recency, Listed(y))
  BY <1>1, EntryIdsAre DEF UnlistedEntries, Listed
<1>4. ASSUME NEW o \in Listed(y)
      PROVE  /\ y.entries[o].parent = x.entries[o].parent
             /\ y.entries[o].tokens = x.entries[o].tokens
             /\ y.entries[o].block = x.entries[o].block
             /\ y.entries[o].children = IF o = p THEN x.entries[o].children - 1
                                                 ELSE x.entries[o].children
             /\ o \in Listed(x) /\ Hangs(x, o)
             /\ x.entries[o].parent # id
  <2>1. o \in Listed(x) /\ Hangs(x, o) BY <1>3 DEF Trie
  <2>2. x.entries[o].parent # id BY <1>2, <2>1 DEF Children
  <2> QED BY <1>1, <2>1, <2>2 DEF UnlistedEntries, SamePlace
<1>5. \A q \in Listed(y) \cup {Root} : PrefixOf(y, q) = PrefixOf(x, q)
  BY <1>4 DEF PrefixOf
<1>6. ASSUME NEW q PROVE Children(y, q) = Children(x, q) \ {id}
  <2>1. ASSUME NEW o PROVE o \in Children(y, q) <=> o \in Children(x, q) /\ o # id
    BY SMTT(30), <1>3, <1>4 DEF Children
  <2> QED BY <2>1
<1>7. ASSUME NEW o \in Listed(y) PROVE Hangs(y, o)
  <2>1. y.entries[o].children = Cardinality(Children(y, o))
    <3>1. CASE o = p
      <4>1. IsFiniteSet(Children(x, o)) /\ id \in Children(x, o)
        BY <3>1, ListedAre, ParentCounts DEF Trie
      <4>2. Cardinality(Children(x, o) \ {id}) = Cardinality(Children(x, o)) - 1
        BY <4>1, FS_RemoveElement
      <4> QED BY <1>4, <1>6, <3>1, <4>2 DEF Hangs
    <3>2. CASE o # p
      <4>1. id \notin Children(x, o) BY <3>2 DEF Children
      <4>2. Children(y, o) = Children(x, o) BY <1>6, <4>1
      <4> QED BY <1>4, <3>2, <4>2 DEF Hangs
    <3> QED BY <3>1, <3>2
  <2>2. /\ x.entries[o].parent \in Listed(y) \cup {Root}
        /\ PrefixOf(y, x.entries[o].parent) = PrefixOf(x, x.entries[o].parent)
    <3>1. x.entries[o].parent \in Listed(x) \cup {Root} BY <1>4 DEF Hangs
    <3>2. x.entries[o].parent \in Listed(y) \cup {Root} BY <1>3, <1>4, <3>1
    <3> QED BY <1>5, <3>2
  <2>3. Hangs(x, o) BY <1>4
  <2>4. y.entries[o].parent = x.entries[o].parent /\ y.entries[o].tokens = x.entries[o].tokens
        /\ y.entries[o].block = x.entries[o].block
    BY <1>4
  <2> QED BY <2>1, <2>2, <2>3, <2>4 DEF Hangs
<1>8. Distinct(y)
  <2>1. Distinct(x) BY DEF Trie
  <2> QED BY <1>4, <2>1 DEF Distinct
<1>9. Trie(y) BY <1>3, <1>7, <1>8 DEF Trie
<1>10. Loses(x, y, id) BY <1>2, <1>3, <1>4, <1>9 DEF Loses, SamePlace
<1> QED BY <1>10 DEF y

\* evict_one takes out an entry without children and without another holder.
LEMMA EvictOneLoses ==
    ASSUME NEW x, Trie(x), NEW held, CanEvict(x, held)
    PROVE  \E id \in Evictable(x, held) : Loses(x, EvictOne(x, held), id)
<1> DEFINE s == x.recency
           I == {i \in 1 .. Len(s) : s[i] \in Evictable(x, held)}
<1>1. s \in Seq(EntryIds) /\ ToSet(s) = Listed(x) BY DEF Trie, ListsOnce
<1>2. I # {} /\ I \subseteq Nat
  <2>1. PICK e \in Evictable(x, held) : TRUE BY DEF CanEvict
  <2>2. e \in ToSet(s) BY <1>1, <2>1 DEF Evictable
  <2>3. PICK i \in DOMAIN s : s[i] = e BY <2>2 DEF ToSet
  <2>4. i \in 1 .. Len(s) BY <1>1, <2>3
  <2> QED BY <2>1, <2>3, <2>4
<1>3. Min(I) \in I BY ZenonT(60), <1>2, MinIsLeast
<1>4. SelectInSeq(s, LAMBDA id : id \in Evictable(x, held)) = Min(I)
  BY <1>2 DEF SelectInSeq
<1> DEFINE id == s[Min(I)]
<1>5. id \in Evictable(x, held) BY <1>3
<1>6. EvictOne(x, held) = Unlist(x, id) BY <1>4 DEF EvictOne
<1>7. id \in Listed(x) /\ x.entries[id].children = 0 BY <1>5 DEF Evictable
<1> HIDE DEF id
<1> QED BY <1>5, <1>6, <1>7, UnlistLoses

-----------------------------------------------------------------------------
(* The loops over the trie. *)

\* turn[n] is the n-th ancestor of entry id.
AncestorTurns(turn, x, id) ==
    /\ turn[0] = id
    /\ \A n \in 1 .. Capacity : turn[n] = ParentOf(x, turn[n - 1])
    /\ turn = Ancestors(x, id)

\* The ancestors of an entry.
LEMMA AncestorTurnsExist ==
    ASSUME NEW x, NEW id
    PROVE  \E turn : AncestorTurns(turn, x, id)
<1> DEFINE Good(g, k) == g = [n \in 0 .. k |-> IF n = 0 THEN id ELSE ParentOf(x, g[n - 1])]
           W == {k \in Nat : \E g : Good(g, k)}
           c == CHOOSE g : Good(g, Capacity)
<1>1. Capacity \in Nat BY CapacityAssumption
<1>2. 0 \in W
  <2> DEFINE g == [n \in 0 .. 0 |-> id]
  <2>1. g = [n \in 0 .. 0 |-> IF n = 0 THEN id ELSE ParentOf(x, g[n - 1])] OBVIOUS
  <2> HIDE DEF g
  <2>2. Good(g, 0) BY <2>1
  <2> QED BY <2>2
<1>3. ASSUME NEW k \in 0 .. Capacity - 1, k \in W PROVE k + 1 \in W
  <2>1. PICK g : Good(g, k) BY <1>3
  <2> DEFINE h == [n \in 0 .. k + 1 |-> IF n = 0 THEN id ELSE ParentOf(x, g[n - 1])]
  <2>2. \A n \in 0 .. k : h[n] = g[n]
    <3> HIDE DEF Good
    <3>1. g = [n \in 0 .. k |-> IF n = 0 THEN id ELSE ParentOf(x, g[n - 1])]
      BY <2>1 DEF Good
    <3>2. \A n \in 0 .. k : n \in 0 .. k + 1 BY <1>1
    <3>3. ASSUME NEW n \in 0 .. k PROVE h[n] = g[n]
      <4>1. h[n] = IF n = 0 THEN id ELSE ParentOf(x, g[n - 1]) BY <3>2
      <4>2. g[n] = IF n = 0 THEN id ELSE ParentOf(x, g[n - 1]) BY <3>1
      <4> QED BY <4>1, <4>2
    <3> QED BY <3>3
  <2>3. h = [n \in 0 .. k + 1 |-> IF n = 0 THEN id ELSE ParentOf(x, h[n - 1])]
    <3>1. \A n \in 0 .. k + 1 : n # 0 => n - 1 \in 0 .. k BY <1>1
    <3> HIDE DEF h
    <3>2. \A n \in 0 .. k + 1 :
             (IF n = 0 THEN id ELSE ParentOf(x, g[n - 1]))
             = (IF n = 0 THEN id ELSE ParentOf(x, h[n - 1]))
      BY <2>2, <3>1
    <3>3. [n \in 0 .. k + 1 |-> IF n = 0 THEN id ELSE ParentOf(x, g[n - 1])]
          = [n \in 0 .. k + 1 |-> IF n = 0 THEN id ELSE ParentOf(x, h[n - 1])]
      BY <3>2
    <3> QED BY <3>3 DEF h
  <2>4. k + 1 \in Nat BY <1>1
  <2> HIDE DEF h
  <2>5. Good(h, k + 1) BY <2>3
  <2> QED BY <2>4, <2>5
<1>4. Capacity \in W
  <2> HIDE DEF W
  <2>1. \A n \in 0 .. Capacity : n \in W BY <1>1, <1>2, <1>3, CountUp
  <2> QED BY <1>1, <2>1
<1>5. Good(c, Capacity) BY <1>4
<1>6. Ancestors(x, id) = c BY DEF Ancestors
<1> HIDE DEF c
<1>7. c = [n \in 0 .. Capacity |-> IF n = 0 THEN id ELSE ParentOf(x, c[n - 1])] BY <1>5
<1>8. c[0] = id BY <1>1, <1>7
<1>9. \A n \in 1 .. Capacity : c[n] = ParentOf(x, c[n - 1])
  <2>1. \A n \in 1 .. Capacity : n \in 0 .. Capacity /\ n # 0 BY <1>1
  <2>2. \A n \in 0 .. Capacity : c[n] = IF n = 0 THEN id ELSE ParentOf(x, c[n - 1]) BY <1>7
  <2> QED BY <2>1, <2>2
<1> QED BY <1>6, <1>8, <1>9 DEF AncestorTurns

\* The n-th turn of touch_path, on the order of eviction.
TouchTurn(x, id, recency, n) ==
    IF Ancestors(x, id)[n - 1] = Root THEN recency
    ELSE MoveToNewest(recency, Ancestors(x, id)[n - 1])

\* turn[n] is the order of eviction after n turns of touch_path.
TouchTurns(turn, x, id) ==
    /\ turn[0] = x.recency
    /\ \A n \in 1 .. Capacity :
        turn[n] = IF Ancestors(x, id)[n - 1] = Root THEN turn[n - 1]
                  ELSE MoveToNewest(turn[n - 1], Ancestors(x, id)[n - 1])
    /\ TouchPath(x, id) = [x EXCEPT !.recency = turn[Capacity]]

\* The turns of that loop.
LEMMA TouchTurnsExist ==
    ASSUME NEW x, NEW id
    PROVE  \E turn : TouchTurns(turn, x, id)
<1> DEFINE Good(g, k) ==
             g = [n \in 0 .. k |-> IF n = 0 THEN x.recency ELSE TouchTurn(x, id, g[n - 1], n)]
           W == {k \in Nat : \E g : Good(g, k)}
           c == CHOOSE g : Good(g, Capacity)
<1>1. Capacity \in Nat BY CapacityAssumption
<1>2. 0 \in W
  <2> DEFINE g == [n \in 0 .. 0 |-> x.recency]
  <2>1. g = [n \in 0 .. 0 |-> IF n = 0 THEN x.recency ELSE TouchTurn(x, id, g[n - 1], n)]
    OBVIOUS
  <2> HIDE DEF g
  <2>2. Good(g, 0) BY <2>1
  <2> QED BY <2>2
<1>3. ASSUME NEW k \in 0 .. Capacity - 1, k \in W PROVE k + 1 \in W
  <2>1. PICK g : Good(g, k) BY <1>3
  <2> DEFINE h ==
               [n \in 0 .. k + 1 |-> IF n = 0 THEN x.recency ELSE TouchTurn(x, id, g[n - 1], n)]
  <2>2. \A n \in 0 .. k : h[n] = g[n]
    <3> HIDE DEF Good
    <3>1. g = [n \in 0 .. k |-> IF n = 0 THEN x.recency ELSE TouchTurn(x, id, g[n - 1], n)]
      BY <2>1 DEF Good
    <3>2. \A n \in 0 .. k : n \in 0 .. k + 1 BY <1>1
    <3>3. ASSUME NEW n \in 0 .. k PROVE h[n] = g[n]
      <4>1. h[n] = IF n = 0 THEN x.recency ELSE TouchTurn(x, id, g[n - 1], n) BY <3>2
      <4>2. g[n] = IF n = 0 THEN x.recency ELSE TouchTurn(x, id, g[n - 1], n) BY <3>1
      <4> QED BY <4>1, <4>2
    <3> QED BY <3>3
  <2>3. h = [n \in 0 .. k + 1 |-> IF n = 0 THEN x.recency ELSE TouchTurn(x, id, h[n - 1], n)]
    <3>1. \A n \in 0 .. k + 1 : n # 0 => n - 1 \in 0 .. k BY <1>1
    <3> HIDE DEF h
    <3>2. \A n \in 0 .. k + 1 :
             (IF n = 0 THEN x.recency ELSE TouchTurn(x, id, g[n - 1], n))
             = (IF n = 0 THEN x.recency ELSE TouchTurn(x, id, h[n - 1], n))
      BY <2>2, <3>1
    <3>3. [n \in 0 .. k + 1 |-> IF n = 0 THEN x.recency ELSE TouchTurn(x, id, g[n - 1], n)]
          = [n \in 0 .. k + 1 |-> IF n = 0 THEN x.recency ELSE TouchTurn(x, id, h[n - 1], n)]
      BY <3>2
    <3> QED BY <3>3 DEF h
  <2>4. k + 1 \in Nat BY <1>1
  <2> HIDE DEF h
  <2>5. Good(h, k + 1) BY <2>3
  <2> QED BY <2>4, <2>5
<1>4. Capacity \in W
  <2> HIDE DEF W
  <2>1. \A n \in 0 .. Capacity : n \in W BY <1>1, <1>2, <1>3, CountUp
  <2> QED BY <1>1, <2>1
<1>5. Good(c, Capacity) BY <1>4
<1>6. TouchPath(x, id) = [x EXCEPT !.recency = c[Capacity]] BY DEF TouchPath, TouchTurn
<1> HIDE DEF c
<1>7. c = [n \in 0 .. Capacity |-> IF n = 0 THEN x.recency ELSE TouchTurn(x, id, c[n - 1], n)]
  BY <1>5
<1>8. c[0] = x.recency BY <1>1, <1>7
<1>9. \A n \in 1 .. Capacity : c[n] = TouchTurn(x, id, c[n - 1], n)
  <2>1. \A n \in 1 .. Capacity : n \in 0 .. Capacity /\ n # 0 BY <1>1
  <2>2. \A n \in 0 .. Capacity : c[n] = IF n = 0 THEN x.recency ELSE TouchTurn(x, id, c[n - 1], n)
    BY <1>7
  <2> QED BY <2>1, <2>2
<1> QED BY <1>6, <1>8, <1>9 DEF TouchTurns, TouchTurn

\* The turn of clear at entry n, on what is vacant.
ClearTurn(x, vacant, n) == IF n \in Listed(x) THEN Append(vacant, n) ELSE vacant

\* turn[n] is what is vacant after clear has visited the entries up to n.
ClearTurns(turn, x) ==
    /\ turn[0] = x.vacant
    /\ \A n \in 1 .. Capacity : turn[n] = IF n \in Listed(x) THEN Append(turn[n - 1], n)
                                          ELSE turn[n - 1]
    /\ ClearIndex(x) = [entries |-> [id \in EntryIds |-> Vacant],
                        vacant  |-> turn[Capacity],
                        recency |-> <<>>]

\* The turns of that loop.
LEMMA ClearTurnsExist ==
    ASSUME NEW x
    PROVE  \E turn : ClearTurns(turn, x)
<1> DEFINE Good(g, k) ==
             g = [n \in 0 .. k |-> IF n = 0 THEN x.vacant ELSE ClearTurn(x, g[n - 1], n)]
           W == {k \in Nat : \E g : Good(g, k)}
           c == CHOOSE g : Good(g, Capacity)
<1>1. Capacity \in Nat BY CapacityAssumption
<1>2. 0 \in W
  <2> DEFINE g == [n \in 0 .. 0 |-> x.vacant]
  <2>1. g = [n \in 0 .. 0 |-> IF n = 0 THEN x.vacant ELSE ClearTurn(x, g[n - 1], n)] OBVIOUS
  <2> HIDE DEF g
  <2>2. Good(g, 0) BY <2>1
  <2> QED BY <2>2
<1>3. ASSUME NEW k \in 0 .. Capacity - 1, k \in W PROVE k + 1 \in W
  <2>1. PICK g : Good(g, k) BY <1>3
  <2> DEFINE h == [n \in 0 .. k + 1 |-> IF n = 0 THEN x.vacant ELSE ClearTurn(x, g[n - 1], n)]
  <2>2. \A n \in 0 .. k : h[n] = g[n]
    <3> HIDE DEF Good
    <3>1. g = [n \in 0 .. k |-> IF n = 0 THEN x.vacant ELSE ClearTurn(x, g[n - 1], n)]
      BY <2>1 DEF Good
    <3>2. \A n \in 0 .. k : n \in 0 .. k + 1 BY <1>1
    <3>3. ASSUME NEW n \in 0 .. k PROVE h[n] = g[n]
      <4>1. h[n] = IF n = 0 THEN x.vacant ELSE ClearTurn(x, g[n - 1], n) BY <3>2
      <4>2. g[n] = IF n = 0 THEN x.vacant ELSE ClearTurn(x, g[n - 1], n) BY <3>1
      <4> QED BY <4>1, <4>2
    <3> QED BY <3>3
  <2>3. h = [n \in 0 .. k + 1 |-> IF n = 0 THEN x.vacant ELSE ClearTurn(x, h[n - 1], n)]
    <3>1. \A n \in 0 .. k + 1 : n # 0 => n - 1 \in 0 .. k BY <1>1
    <3> HIDE DEF h
    <3>2. \A n \in 0 .. k + 1 :
             (IF n = 0 THEN x.vacant ELSE ClearTurn(x, g[n - 1], n))
             = (IF n = 0 THEN x.vacant ELSE ClearTurn(x, h[n - 1], n))
      BY <2>2, <3>1
    <3>3. [n \in 0 .. k + 1 |-> IF n = 0 THEN x.vacant ELSE ClearTurn(x, g[n - 1], n)]
          = [n \in 0 .. k + 1 |-> IF n = 0 THEN x.vacant ELSE ClearTurn(x, h[n - 1], n)]
      BY <3>2
    <3> QED BY <3>3 DEF h
  <2>4. k + 1 \in Nat BY <1>1
  <2> HIDE DEF h
  <2>5. Good(h, k + 1) BY <2>3
  <2> QED BY <2>4, <2>5
<1>4. Capacity \in W
  <2> HIDE DEF W
  <2>1. \A n \in 0 .. Capacity : n \in W BY <1>1, <1>2, <1>3, CountUp
  <2> QED BY <1>1, <2>1
<1>5. Good(c, Capacity) BY <1>4
<1>6. ClearIndex(x) = [entries |-> [id \in EntryIds |-> Vacant],
                      vacant  |-> c[Capacity],
                      recency |-> <<>>] BY DEF ClearIndex, ClearTurn
<1> HIDE DEF c
<1>7. c = [n \in 0 .. Capacity |-> IF n = 0 THEN x.vacant ELSE ClearTurn(x, c[n - 1], n)]
  BY <1>5
<1>8. c[0] = x.vacant BY <1>1, <1>7
<1>9. \A n \in 1 .. Capacity : c[n] = ClearTurn(x, c[n - 1], n)
  <2>1. \A n \in 1 .. Capacity : n \in 0 .. Capacity /\ n # 0 BY <1>1
  <2>2. \A n \in 0 .. Capacity : c[n] = IF n = 0 THEN x.vacant ELSE ClearTurn(x, c[n - 1], n)
    BY <1>7
  <2> QED BY <2>1, <2>2
<1> QED BY <1>6, <1>8, <1>9 DEF ClearTurns, ClearTurn

\* y lists the same entries as x.
Touches(x, y) == Trie(y) /\ y.entries = x.entries

\* The ancestors of an entry are listed, up to the root.
LEMMA AncestorsListed ==
    ASSUME NEW x, Trie(x), NEW id \in Listed(x) \cup {Root}
    PROVE  \A n \in 0 .. Capacity : Ancestors(x, id)[n] \in Listed(x) \cup {Root}
<1>1. PICK up : AncestorTurns(up, x, id) BY AncestorTurnsExist
<1> DEFINE W == {n \in Nat : up[n] \in Listed(x) \cup {Root}}
<1>2. 0 \in W BY <1>1 DEF AncestorTurns
<1>3. ASSUME NEW n \in 0 .. Capacity - 1, n \in W PROVE n + 1 \in W
  <2>1. n + 1 \in 1 .. Capacity /\ n + 1 \in Nat /\ (n + 1) - 1 = n BY CapacityAssumption
  <2>2. up[n + 1] = ParentOf(x, up[n]) BY <1>1, <2>1 DEF AncestorTurns
  <2>3. CASE up[n] = Root BY <2>1, <2>2, <2>3 DEF ParentOf
  <2>4. CASE up[n] # Root
    <3>1. up[n] \in Listed(x) BY <1>3, <2>4
    <3>2. x.entries[up[n]].parent \in Listed(x) \cup {Root} BY <3>1 DEF Trie, Hangs
    <3> QED BY <2>1, <2>2, <2>4, <3>2 DEF ParentOf
  <2> QED BY <2>3, <2>4
<1> HIDE DEF W
<1>4. \A n \in 0 .. Capacity : n \in W BY <1>2, <1>3, CountUp, CapacityAssumption
<1> QED BY <1>1, <1>4 DEF W, AncestorTurns

\* Making an entry the newest keeps the list.
LEMMA MoveToNewestLists ==
    ASSUME NEW s, NEW X, ListsOnce(s, X), NEW id \in X, X \subseteq EntryIds
    PROVE  ListsOnce(MoveToNewest(s, id), X)
<1>1. id \in EntryIds /\ id \notin X \ {id} /\ (X \ {id}) \cup {id} = X OBVIOUS
<1>2. ListsOnce(RemoveFirst(s, id), X \ {id}) BY <1>1, ListsOnceMore
<1>3. ListsOnce(Append(RemoveFirst(s, id), id), (X \ {id}) \cup {id})
  BY <1>1, <1>2, ListsOnceMore
<1> QED BY <1>1, <1>3 DEF MoveToNewest

\* touch_path reorders the recency list alone.
LEMMA TouchPathTouches ==
    ASSUME NEW x, Trie(x), NEW id \in Listed(x) \cup {Root}
    PROVE  Touches(x, TouchPath(x, id))
<1>1. PICK turn : TouchTurns(turn, x, id) BY TouchTurnsExist
<1> DEFINE W == {n \in Nat : ListsOnce(turn[n], Listed(x))}
<1>2. 0 \in W BY <1>1 DEF TouchTurns, Trie
<1>3. ASSUME NEW n \in 0 .. Capacity - 1, n \in W PROVE n + 1 \in W
  <2> DEFINE a == Ancestors(x, id)[n]
  <2>1. /\ n + 1 \in 1 .. Capacity /\ n + 1 \in Nat /\ (n + 1) - 1 = n /\ n \in 0 .. Capacity
    BY CapacityAssumption
  <2>2. turn[n + 1] = IF a = Root THEN turn[n] ELSE MoveToNewest(turn[n], a)
    BY <1>1, <2>1 DEF TouchTurns
  <2>3. a \in Listed(x) \cup {Root} BY <2>1, AncestorsListed
  <2> HIDE DEF a
  <2>4. CASE a = Root BY <1>3, <2>1, <2>2, <2>4
  <2>5. CASE a # Root
    <3>1. a \in Listed(x) /\ Listed(x) \subseteq EntryIds /\ ListsOnce(turn[n], Listed(x))
      BY <1>3, <2>3, <2>5, ListedAre DEF Trie
    <3>2. ListsOnce(MoveToNewest(turn[n], a), Listed(x)) BY <3>1, MoveToNewestLists
    <3> QED BY <2>1, <2>2, <2>5, <3>2
  <2> QED BY <2>4, <2>5
<1>4. ListsOnce(turn[Capacity], Listed(x))
  <2> HIDE DEF W
  <2>1. \A n \in 0 .. Capacity : n \in W BY <1>2, <1>3, CountUp, CapacityAssumption
  <2>2. Capacity \in W BY <2>1, CapacityAssumption
  <2> QED BY <2>2 DEF W
<1> DEFINE y == TouchPath(x, id)
<1>5. y = [x EXCEPT !.recency = turn[Capacity]] BY <1>1 DEF TouchTurns
<1>6. y.entries = x.entries /\ y.vacant = x.vacant /\ y.recency = turn[Capacity] /\ IndexShape(y)
  BY SMTT(30), <1>5 DEF Trie, IndexShape
<1> HIDE DEF y
<1>7. Listed(y) = Listed(x) BY SMTT(30), <1>6 DEF Listed
<1>8. ASSUME NEW o \in Listed(y) PROVE Hangs(y, o)
  <2>1. Hangs(x, o) BY <1>7 DEF Trie
  <2> QED BY <1>6, <1>7, <2>1 DEF Hangs, Children, PrefixOf
<1>9. Distinct(y)
  <2>1. Distinct(x) BY DEF Trie
  <2> QED BY <1>6, <1>7, <2>1 DEF Distinct
<1>10. Trie(y)
  <2>1. ListsOnce(y.vacant, EntryIds \ Listed(y)) BY <1>6, <1>7 DEF Trie
  <2> QED BY <1>4, <1>6, <1>7, <1>8, <1>9, <2>1 DEF Trie
<1>11. Touches(x, y) BY <1>6, <1>10 DEF Touches
<1> QED BY <1>11 DEF y

\* An index without entries.
LEMMA NothingListed ==
    ASSUME NEW y, y = [entries |-> [id \in EntryIds |-> Vacant], vacant |-> y.vacant,
                       recency |-> <<>>],
           ListsOnce(y.vacant, EntryIds)
    PROVE  Trie(y) /\ Listed(y) = {}
<1>1. y.entries = [id \in EntryIds |-> Vacant] /\ y.recency = <<>> OBVIOUS
<1>2. IndexShape(y)
  <2>1. y.entries \in [EntryIds -> Entries \cup {Vacant}] BY <1>1
  <2> QED BY <1>1, <2>1 DEF IndexShape
<1>3. Listed(y) = {} BY <1>1 DEF Listed
<1>4. ListsOnce(y.recency, Listed(y)) BY <1>1, <1>3 DEF ListsOnce, IsInjectiveSeq, ToSet
<1>5. EntryIds \ Listed(y) = EntryIds BY <1>3
<1> QED BY <1>2, <1>3, <1>4, <1>5 DEF Trie, Distinct

\* PrefixCache::new lists nothing.
LEMMA EmptyIndexIs == Trie(EmptyIndex) /\ Listed(EmptyIndex) = {}
<1> DEFINE v == [i \in EntryIds |-> Capacity + 1 - i]
<1>1. Capacity \in Nat BY CapacityAssumption
<1>2. v \in Seq(EntryIds) /\ DOMAIN v = EntryIds
  <2>1. \A i \in 1 .. Capacity : Capacity + 1 - i \in 1 .. Capacity BY <1>1
  <2> QED BY <1>1, <2>1 DEF EntryIds
<1>3. IsInjectiveSeq(v)
  <2>1. \A i, j \in 1 .. Capacity : Capacity + 1 - i = Capacity + 1 - j => i = j BY <1>1
  <2> QED BY <2>1 DEF IsInjectiveSeq, EntryIds
<1>4. ToSet(v) = EntryIds
  <2>1. \A i \in 1 .. Capacity : /\ Capacity + 1 - i \in 1 .. Capacity
                                 /\ Capacity + 1 - (Capacity + 1 - i) = i
    BY <1>1
  <2>2. \A i \in EntryIds : v[Capacity + 1 - i] = i /\ Capacity + 1 - i \in EntryIds
    BY <2>1 DEF EntryIds
  <2>3. \A i \in EntryIds : v[i] \in EntryIds BY <2>1 DEF EntryIds
  <2> HIDE DEF v
  <2> QED BY <1>2, <2>2, <2>3 DEF ToSet
<1>5. ListsOnce(v, EntryIds) BY <1>2, <1>3, <1>4 DEF ListsOnce
<1>6. EmptyIndex.vacant = v /\ EmptyIndex = [entries |-> [id \in EntryIds |-> Vacant],
                                             vacant |-> EmptyIndex.vacant, recency |-> <<>>]
  BY DEF EmptyIndex
<1> HIDE DEF v
<1> QED BY <1>5, <1>6, NothingListed

\* clear takes every entry out.
LEMMA ClearIndexIs ==
    ASSUME NEW x, Trie(x)
    PROVE  Trie(ClearIndex(x)) /\ Listed(ClearIndex(x)) = {}
<1>1. PICK turn : ClearTurns(turn, x) BY ClearTurnsExist
<1> DEFINE Free(n) == EntryIds \ {id \in Listed(x) : id > n}
           W == {n \in Nat : ListsOnce(turn[n], Free(n))}
<1>2. Capacity \in Nat /\ Listed(x) \subseteq EntryIds /\ EntryIds = 1 .. Capacity
  BY CapacityAssumption, ListedAre DEF Trie, EntryIds
<1>3. 0 \in W
  <2>1. Free(0) = EntryIds \ Listed(x) BY <1>2
  <2> QED BY <1>1, <2>1 DEF ClearTurns, Trie
<1>4. ASSUME NEW n \in 0 .. Capacity - 1, n \in W PROVE n + 1 \in W
  <2>1. n + 1 \in 1 .. Capacity /\ n + 1 \in Nat /\ (n + 1) - 1 = n BY <1>2
  <2>2. turn[n + 1] = IF n + 1 \in Listed(x) THEN Append(turn[n], n + 1) ELSE turn[n]
    BY <1>1, <2>1 DEF ClearTurns
  <2>3. CASE n + 1 \in Listed(x)
    <3>1. n + 1 \notin Free(n) /\ Free(n + 1) = Free(n) \cup {n + 1} BY <1>2, <2>1, <2>3
    <3> DEFINE m == n + 1
               F == Free(n)
    <3>2. m \in EntryIds /\ m \notin F /\ ListsOnce(turn[n], F) BY <1>2, <1>4, <2>1, <3>1
    <3> HIDE DEF m, F
    <3>3. ListsOnce(Append(turn[n], m), F \cup {m}) BY <3>2, ListsOnceMore
    <3> QED BY <2>1, <2>2, <2>3, <3>1, <3>3 DEF m, F
  <2>4. CASE n + 1 \notin Listed(x)
    <3>1. Free(n + 1) = Free(n) BY <1>2, <2>1, <2>4
    <3> QED BY <1>4, <2>1, <2>2, <2>4, <3>1
  <2> QED BY <2>3, <2>4
<1>5. ListsOnce(turn[Capacity], EntryIds)
  <2>1. Free(Capacity) = EntryIds BY <1>2
  <2> HIDE DEF W
  <2>2. \A n \in 0 .. Capacity : n \in W BY SMTT(30), <1>2, <1>3, <1>4, CountUp
  <2>3. Capacity \in W BY SMTT(30), <1>2, <2>2
  <2> QED BY <2>1, <2>3 DEF W
<1>6. /\ ClearIndex(x).vacant = turn[Capacity]
      /\ ClearIndex(x) = [entries |-> [id \in EntryIds |-> Vacant],
                          vacant |-> ClearIndex(x).vacant, recency |-> <<>>]
  BY SMTT(30), <1>1 DEF ClearTurns
<1> QED BY <1>5, <1>6, NothingListed

-----------------------------------------------------------------------------
(* Requests and the trie.                                                  *)

\* Whichever listed entry has the i-th block of a request hangs below that of the block before.
PathHeld(q, x) ==
    \A i \in 1 .. Len(q.shared), id \in Listed(x) :
        x.entries[id].block = q.shared[i]
            => IF i = 1 THEN x.entries[id].parent = Root
               ELSE /\ x.entries[id].parent \in Listed(x)
                    /\ x.entries[x.entries[id].parent].block = q.shared[i - 1]

\* The tip of a request that may still publish.
TipHeld(q, x) ==
    q.linked => IF q.shared = <<>> THEN q.tip = Root
                ELSE q.tip \in Listed(x) /\ x.entries[q.tip].block = q.shared[Len(q.shared)]

\* The shared blocks of a request are those of its prompt.
OwnBlocks(q) ==
    /\ q.shared \in Seq(BlockIds) /\ q.prompt \in Seq(Nat)
    /\ Len(q.shared) * BlockSize <= Len(q.prompt)
    /\ \A i \in 1 .. Len(q.shared) : q.shared[i].prefix = SubSeq(q.prompt, 1, i * BlockSize)

\* A request covers its shared blocks, and a reservation what is committed.
Sized(q) ==
    /\ q.length \in Nat /\ q.pending \in Nat
    /\ Len(q.shared) * BlockSize <= q.length
    /\ q.pending # 0 => q.length <= q.pending
    /\ q.state \notin Live => q.shared = <<>>

Holds(q, x) == OwnBlocks(q) /\ PathHeld(q, x) /\ TipHeld(q, x) /\ Sized(q)

\* The trie, the requests and the suspect blocks agree.
Cached(S) ==
    /\ Trie(S.index)
    /\ IsFiniteSet(S.suspect) /\ S.suspect \cap ListedBlocks(S.index) = {}
    /\ \A r \in RequestIds : Holds(S.req[r], S.index)

\* Of a listed entry, and of those below it.
LEMMA EntryFields ==
    ASSUME NEW x, Trie(x), NEW id \in Listed(x)
    PROVE  /\ x.entries[id].block \in BlockIds /\ x.entries[id].tokens \in Seq(Nat)
           /\ x.entries[id].parent \in Listed(x) \cup {Root}
           /\ Len(x.entries[id].block.prefix) \in Nat
           /\ x.entries[id].block.prefix \in Seq(Nat)
           /\ PrefixOf(x, id) = x.entries[id].block.prefix
           /\ x.entries[id].parent # Root =>
                /\ x.entries[id].parent \in Listed(x)
                /\ Len(x.entries[x.entries[id].parent].block.prefix) \in Nat
                /\ Len(x.entries[id].block.prefix)
                     = Len(x.entries[x.entries[id].parent].block.prefix) + BlockSize
           /\ id # Root /\ id \in EntryIds
<1>1. \A o \in Listed(x) : x.entries[o] \in Entries /\ o \in EntryIds
  BY ListedAre DEF Trie
<1>2. \A o \in Listed(x) : /\ x.entries[o].block \in BlockIds
                           /\ x.entries[o].block.prefix \in Seq(Nat)
                           /\ x.entries[o].tokens \in Seq(Nat)
  BY <1>1 DEF Entries, BlockIds
<1>3. /\ x.entries[id].parent \in Listed(x) \cup {Root} /\ Len(x.entries[id].tokens) = BlockSize
      /\ x.entries[id].block.prefix = PrefixOf(x, x.entries[id].parent) \o x.entries[id].tokens
  BY DEF Trie, Hangs
<1>4. id # Root BY SMTT(30), <1>1, EntryIdsAre
<1>5. ASSUME x.entries[id].parent # Root
      PROVE  /\ x.entries[id].parent \in Listed(x)
             /\ Len(x.entries[x.entries[id].parent].block.prefix) \in Nat
             /\ Len(x.entries[id].block.prefix)
                  = Len(x.entries[x.entries[id].parent].block.prefix) + BlockSize
  <2>1. x.entries[id].parent \in Listed(x) BY <1>3, <1>5
  <2>2. /\ PrefixOf(x, x.entries[id].parent) = x.entries[x.entries[id].parent].block.prefix
        /\ x.entries[x.entries[id].parent].block.prefix \in Seq(Nat)
    BY SMTT(30), <1>2, <1>5, <2>1 DEF PrefixOf
  <2>3. x.entries[id].tokens \in Seq(Nat) BY SMTT(30), <1>2
  <2> DEFINE a == x.entries[x.entries[id].parent].block.prefix
             b == x.entries[id].tokens
  <2>4. x.entries[id].block.prefix = a \o b /\ Len(b) = BlockSize BY <1>3, <2>2
  <2>5. a \in Seq(Nat) /\ b \in Seq(Nat) BY <2>2, <2>3
  <2> HIDE DEF a, b
  <2>6. Len(a) \in Nat /\ Len(a \o b) = Len(a) + Len(b) BY <2>5, ConcatProperties
  <2> QED BY <2>1, <2>4, <2>6 DEF a
<1>6. PrefixOf(x, id) = x.entries[id].block.prefix BY <1>4 DEF PrefixOf
<1>7. Len(x.entries[id].block.prefix) \in Nat BY SMTT(30), <1>2
<1> QED BY <1>1, <1>2, <1>3, <1>4, <1>5, <1>6, <1>7

\* Blocks that are held are held with the blocks of their parents.
ClosedUp(x, held) ==
    \A id \in Listed(x) :
        x.entries[id].block \in held
            => \/ x.entries[id].parent = Root
               \/ x.entries[x.entries[id].parent].block \in held

\* An entry without children and without other holders exists while any entry without
\* other holders does.
LEMMA UnheldLeaf ==
    ASSUME NEW x, Trie(x), NEW held, ClosedUp(x, held),
           NEW e \in Listed(x), x.entries[e].block \notin held
    PROVE  CanEvict(x, held)
<1> DEFINE L(id) == Len(x.entries[id].block.prefix)
           Above(id) == {o \in Listed(x) : L(o) > L(id)}
           U == {id \in Listed(x) : x.entries[id].block \notin held}
           T == {Above(id) : id \in U}
<1>1. IsFiniteSet(Listed(x)) BY ListedAre DEF Trie
<1>2. T \subseteq SUBSET Listed(x) /\ T # {} BY ZenonT(60)
<1>3. PICK id \in U : \A o \in U : Cardinality(Above(id)) <= Cardinality(Above(o))
  <2> HIDE DEF T
  <2>1. PICK s \in T : \A t \in T : Cardinality(s) <= Cardinality(t)
    BY <1>1, <1>2, HasSmallest
  <2>2. PICK id \in U : s = Above(id) BY <2>1 DEF T
  <2>3. \A o \in U : Above(o) \in T BY SMTT(30) DEF T
  <2> HIDE DEF Above, U
  <2> QED BY <2>1, <2>2, <2>3
<1>4. ASSUME NEW c \in Children(x, id) PROVE FALSE
  <2>1. c \in Listed(x) /\ x.entries[c].parent = id /\ id \in Listed(x) BY DEF Children
  <2>2. id # Root BY <2>1, EntryFields
  <2>3. L(c) = L(id) + BlockSize /\ L(id) \in Nat BY <2>1, <2>2, EntryFields
  <2>4. BlockSize \in Nat \ {0} BY ConfigAssumption
  <2>5. c \in U
    <3>1. x.entries[c].block \in held => x.entries[id].block \in held
      BY <2>1, <2>2 DEF ClosedUp
    <3> QED BY <2>1, <3>1
  <2>6. \A o \in Listed(x) : L(o) \in Nat BY EntryFields
  <2>7. L(c) > L(id) BY <2>3, <2>4
  <2>8. c \in Above(id) BY <2>1, <2>7
  <2>9. Above(c) \subseteq Above(id) \ {c}
    <3>1. SUFFICES ASSUME NEW o \in Listed(x), L(o) > L(c) PROVE L(o) > L(id) /\ o # c
      OBVIOUS
    <3>2. L(o) \in Nat /\ L(c) \in Nat /\ L(id) \in Nat BY <2>1, <2>6
    <3> HIDE DEF L
    <3> QED BY <2>7, <3>1, <3>2
  <2>10. Cardinality(Above(id)) <= Cardinality(Above(c)) BY <1>3, <2>5
  <2> DEFINE A == Above(id)
             C == Above(c)
  <2>11. IsFiniteSet(A) BY <1>1, FS_Subset
  <2> HIDE DEF A, C
  <2>12. IsFiniteSet(A \ {c}) /\ Cardinality(A \ {c}) = Cardinality(A) - 1
    BY <2>8, <2>11, FS_RemoveElement DEF A
  <2>13. Cardinality(C) <= Cardinality(A \ {c}) /\ IsFiniteSet(C)
    BY <2>9, <2>12, FS_Subset DEF A, C
  <2>14. Cardinality(A) \in Nat /\ Cardinality(C) \in Nat
    BY <2>11, <2>13, FS_CardinalityType
  <2> QED BY <2>10, <2>12, <2>13, <2>14 DEF A, C
<1>5. Children(x, id) = {} BY <1>4
<1>6. id \in Listed(x) /\ x.entries[id].children = 0
  BY <1>5, FS_EmptySet DEF Trie, Hangs
<1> QED BY <1>6 DEF CanEvict, Evictable

\* What requests hold is closed upwards.
LEMMA HeldClosedUp ==
    ASSUME NEW S, Cached(S)
    PROVE  ClosedUp(S.index, HeldBlocks(S))
<1>1. SUFFICES ASSUME NEW id \in Listed(S.index), S.index.entries[id].block \in HeldBlocks(S),
                      S.index.entries[id].parent # Root
               PROVE  S.index.entries[S.index.entries[id].parent].block \in HeldBlocks(S)
  BY DEF ClosedUp
<1>2. PICK r \in RequestIds : S.index.entries[id].block \in ToSet(S.req[r].shared)
  BY <1>1 DEF HeldBlocks
<1>3. Holds(S.req[r], S.index) BY DEF Cached
<1> DEFINE q == S.req[r]
<1>4. q.shared \in Seq(BlockIds) /\ DOMAIN q.shared = 1 .. Len(q.shared) /\ Len(q.shared) \in Nat
  BY <1>3 DEF Holds, OwnBlocks
<1>5. PICK i \in 1 .. Len(q.shared) : S.index.entries[id].block = q.shared[i]
  BY <1>2, <1>4 DEF ToSet
<1>6. i # 1 /\ S.index.entries[S.index.entries[id].parent].block = q.shared[i - 1]
  BY <1>1, <1>3, <1>5 DEF Holds, PathHeld
<1>7. i - 1 \in DOMAIN q.shared BY <1>4, <1>6
<1>8. q.shared[i - 1] \in ToSet(S.req[r].shared) BY <1>7 DEF ToSet
<1> QED BY <1>6, <1>8 DEF HeldBlocks

\* The trie is consistent.
LEMMA TrieConsistent ==
    ASSUME Cached(sch)
    PROVE  IndexConsistent
<1> DEFINE x == sch.index
<1>1. Trie(x) BY DEF Cached
<1>2. ASSUME NEW id \in Listed(x)
      PROVE  /\ x.entries[id].parent \in Listed(x) \cup {Root}
             /\ x.entries[id].children
                    = Cardinality({c \in Listed(x) : x.entries[c].parent = id})
             /\ Find(x, x.entries[id].parent, x.entries[id].tokens) = {id}
  <2>1. Hangs(x, id) /\ Distinct(x) BY <1>1 DEF Trie
  <2> HIDE DEF x
  <2>2. Find(x, x.entries[id].parent, x.entries[id].tokens) = {id} BY <2>1 DEF Find, Distinct
  <2> QED BY <2>1, <2>2 DEF Hangs, Children
<1>3. /\ ToSet(x.recency) = Listed(x) /\ Len(x.recency) = Cardinality(Listed(x))
      /\ ToSet(x.vacant) = EntryIds \ Listed(x)
      /\ Len(x.vacant) = Cardinality(EntryIds \ Listed(x))
  <2>1. ListsOnce(x.vacant, EntryIds \ Listed(x)) /\ ListsOnce(x.recency, Listed(x))
    BY <1>1 DEF Trie
  <2> HIDE DEF x
  <2> QED BY <2>1, ListsOnceLength DEF ListsOnce
<1>4. Cardinality(EntryIds \ Listed(x)) + Cardinality(Listed(x)) = Capacity
  <2>1. Listed(x) \subseteq EntryIds /\ IsFiniteSet(Listed(x)) BY <1>1, ListedAre DEF Trie
  <2> HIDE DEF x
  <2>2. EntryIds \cap Listed(x) = Listed(x) BY <2>1
  <2>3. Cardinality(EntryIds \ Listed(x)) = Capacity - Cardinality(Listed(x))
    BY <2>2, EntryIdsAre, FS_Difference
  <2>4. Cardinality(Listed(x)) \in Nat BY <2>1, FS_CardinalityType
  <2> QED BY <2>3, <2>4, CapacityAssumption
<1> HIDE DEF x
<1>5. Len(x.vacant) + Len(x.recency) = Capacity BY <1>3, <1>4
<1> QED BY <1>2, <1>3, <1>5 DEF IndexConsistent, x

\* An entry without other holders can be reached by evicting.
LEMMA UnheldReached ==
    ASSUME Cached(sch)
    PROVE  UnheldEntryIsReachable
<1>1. Trie(sch.index) /\ ClosedUp(sch.index, HeldBlocks(sch)) BY HeldClosedUp DEF Cached
<1> QED BY <1>1, UnheldLeaf DEF UnheldEntryIsReachable

\* Going up from the tip of a request, one meets its blocks from the last to the first.
LEMMA PathAbove ==
    ASSUME NEW q, NEW x, Trie(x), Holds(q, x), q.linked
    PROVE  /\ Len(q.shared) <= Capacity
           /\ \A n \in 0 .. Len(q.shared) - 1 :
                /\ Ancestors(x, q.tip)[n] \in Listed(x)
                /\ x.entries[Ancestors(x, q.tip)[n]].block = q.shared[Len(q.shared) - n]
           /\ Ancestors(x, q.tip)[Len(q.shared)] = Root
<1> DEFINE h == Len(q.shared)
<1>1. q.shared \in Seq(BlockIds) /\ h \in Nat /\ q.prompt \in Seq(Nat)
      /\ h * BlockSize <= Len(q.prompt) /\ BlockSize \in Nat \ {0}
      /\ \A i \in 1 .. h : q.shared[i].prefix = SubSeq(q.prompt, 1, i * BlockSize)
  <2>1. OwnBlocks(q) BY DEF Holds
  <2>2. q.shared \in Seq(BlockIds) BY <2>1 DEF OwnBlocks
  <2>3. h \in Nat BY <2>2
  <2>4. BlockSize \in Nat \ {0} BY ConfigAssumption
  <2> QED BY <2>1, <2>2, <2>3, <2>4 DEF OwnBlocks
<1>2. PathHeld(q, x) /\ TipHeld(q, x) BY DEF Holds
<1>3. q.shared = <<>> <=> h = 0 BY <1>1
<1> HIDE DEF h
<1>4. ASSUME NEW n \in 0 .. h - 1, NEW id \in Listed(x), x.entries[id].block = q.shared[h - n]
      PROVE  IF n = h - 1 THEN x.entries[id].parent = Root
             ELSE /\ x.entries[id].parent \in Listed(x)
                  /\ x.entries[x.entries[id].parent].block = q.shared[h - (n + 1)]
  <2>1. h - n \in 1 .. h /\ (h - n = 1 <=> n = h - 1) /\ (h - n) - 1 = h - (n + 1) BY <1>1
  <2>2. IF h - n = 1 THEN x.entries[id].parent = Root
        ELSE /\ x.entries[id].parent \in Listed(x)
             /\ x.entries[x.entries[id].parent].block = q.shared[(h - n) - 1]
    BY <1>2, <1>4, <2>1 DEF PathHeld, h
  <2> QED BY <2>1, <2>2
<1> DEFINE V == {n \in Nat : n < h => \E id \in Listed(x) : x.entries[id].block = q.shared[h - n]}
<1>5. \A n \in 0 .. h : n \in V
  <2>1. 0 \in V BY <1>1, <1>2, <1>3 DEF TipHeld, h
  <2>2. ASSUME NEW n \in 0 .. h - 1, n \in V PROVE n + 1 \in V
    <3>1. n \in Nat /\ n + 1 \in Nat /\ n < h BY <1>1
    <3>2. PICK id \in Listed(x) : x.entries[id].block = q.shared[h - n] BY <2>2, <3>1
    <3>3. n + 1 < h => n # h - 1 BY <1>1
    <3> QED BY <1>4, <3>1, <3>2, <3>3
  <2> HIDE DEF V
  <2> QED BY <1>1, <2>1, <2>2, CountUp
<1>6. ASSUME NEW i \in 1 .. h PROVE \E id \in Listed(x) : x.entries[id].block = q.shared[i]
  <2>1. h - i \in 0 .. h /\ h - i \in Nat /\ h - i < h /\ h - (h - i) = i BY <1>1
  <2>2. h - i \in V BY <1>5, <2>1
  <2> QED BY <2>1, <2>2
<1>7. \A i, j \in 1 .. h : q.shared[i] = q.shared[j] => i = j
  <2>1. SUFFICES ASSUME NEW i \in 1 .. h, NEW j \in 1 .. h, q.shared[i] = q.shared[j]
                 PROVE  i = j
    OBVIOUS
  <2>2. ASSUME NEW k \in 1 .. h PROVE Len(SubSeq(q.prompt, 1, k * BlockSize)) = k * BlockSize
    <3> DEFINE w == k * BlockSize
               l == h * BlockSize
    <3>1. k = h \/ k < h BY <1>1
    <3>2. k < h => (k + 1) * BlockSize <= l BY <1>1, NextMultiple
    <3>3. (k + 1) * BlockSize = w + BlockSize /\ w \in Nat BY <1>1, NextMultiple
    <3>4. l \in Nat BY <1>1, NextMultiple
    <3>5. w <= l
      <4> DEFINE v == (k + 1) * BlockSize
      <4>1. k = h => w = l OBVIOUS
      <4>2. k < h => v <= l BY <3>2
      <4>3. v = w + BlockSize BY <3>3
      <4> HIDE DEF v, w, l
      <4> QED BY <1>1, <3>1, <3>3, <3>4, <4>1, <4>2, <4>3
    <3>6. l <= Len(q.prompt) BY <1>1
    <3> HIDE DEF w, l
    <3>7. w \in 0 .. Len(q.prompt) BY <1>1, <3>3, <3>4, <3>5, <3>6
    <3>8. Len(SubSeq(q.prompt, 1, w)) = w BY <1>1, <3>3, <3>7
    <3> QED BY <3>8 DEF w
  <2>3. i * BlockSize = j * BlockSize BY <1>1, <2>1, <2>2
  <2>4. ~(i < j) /\ ~(j < i)
    <3>1. (i < j => (i + 1) * BlockSize <= j * BlockSize)
          /\ (j < i => (j + 1) * BlockSize <= i * BlockSize)
      BY <1>1, NextMultiple
    <3>2. (i + 1) * BlockSize = i * BlockSize + BlockSize /\ i * BlockSize \in Nat
          /\ (j + 1) * BlockSize = j * BlockSize + BlockSize /\ j * BlockSize \in Nat
      BY <1>1, NextMultiple
    <3> DEFINE a == i * BlockSize
               b == j * BlockSize
               c == (i + 1) * BlockSize
               d == (j + 1) * BlockSize
    <3>3. (i < j => c <= b) /\ (j < i => d <= a) /\ c = a + BlockSize /\ a \in Nat
          /\ d = b + BlockSize /\ b \in Nat /\ a = b
      BY <2>3, <3>1, <3>2
    <3> HIDE DEF a, b, c, d
    <3> QED BY <1>1, <3>3
  <2> QED BY <2>4
<1>8. h <= Capacity
  <2> DEFINE f == [i \in 1 .. h |-> CHOOSE id \in Listed(x) : x.entries[id].block = q.shared[i]]
  <2>1. \A i \in 1 .. h : f[i] \in Listed(x) /\ x.entries[f[i]].block = q.shared[i] BY <1>6
  <2>2. Listed(x) \subseteq EntryIds BY ListedAre DEF Trie
  <2> HIDE DEF f
  <2>3. \A i, j \in 1 .. h : f[i] = f[j] => i = j BY <1>7, <2>1
  <2>4. f \in [1 .. h -> EntryIds] BY <2>1, <2>2 DEF f
  <2>5. f \in Injection(1 .. h, EntryIds) BY <2>3, <2>4 DEF Injection, IsInjective
  <2>6. Cardinality(1 .. h) <= Capacity BY <2>5, EntryIdsAre, FS_Injection
  <2>7. Cardinality(1 .. h) = IF 1 > h THEN 0 ELSE h - 1 + 1
    <3>1. 1 \in Int /\ h \in Int BY <1>1
    <3> QED BY <3>1, FS_Interval
  <2> QED BY <1>1, <2>6, <2>7, CapacityAssumption
<1>9. PICK up : AncestorTurns(up, x, q.tip) BY AncestorTurnsExist
<1> DEFINE W == {n \in Nat : IF n = h THEN up[n] = Root
                             ELSE up[n] \in Listed(x) /\ x.entries[up[n]].block = q.shared[h - n]}
<1>10. \A n \in 0 .. h : n \in W
  <2>1. 0 \in W
    <3>1. up[0] = q.tip BY <1>9 DEF AncestorTurns
    <3> QED BY <1>1, <1>2, <1>3, <3>1 DEF TipHeld, h
  <2>2. ASSUME NEW n \in 0 .. h - 1, n \in W PROVE n + 1 \in W
    <3>1. n + 1 \in 1 .. Capacity /\ (n + 1) - 1 = n /\ n + 1 \in Nat /\ n # h
      BY <1>1, <1>8, CapacityAssumption
    <3>2. up[n + 1] = ParentOf(x, up[n]) BY <1>9, <3>1 DEF AncestorTurns
    <3>3. up[n] \in Listed(x) /\ x.entries[up[n]].block = q.shared[h - n] BY <2>2, <3>1
    <3>4. up[n] # Root BY <3>3, EntryFields
    <3>5. up[n + 1] = x.entries[up[n]].parent BY <3>2, <3>4 DEF ParentOf
    <3>6. (n = h - 1) <=> (n + 1 = h) BY SMTT(30), <1>1
    <3> QED BY <1>4, <3>1, <3>3, <3>5, <3>6
  <2> HIDE DEF W
  <2> QED BY <1>1, <2>1, <2>2, CountUp
<1>11. ASSUME NEW n \in 0 .. h - 1
       PROVE  up[n] \in Listed(x) /\ x.entries[up[n]].block = q.shared[h - n]
  <2>1. n \in 0 .. h /\ n # h BY <1>1
  <2> QED BY <1>10, <2>1
<1>12. up[h] = Root
  <2>1. h \in 0 .. h BY SMTT(30), <1>1
  <2> QED BY <1>10, <2>1
<1>13. up = Ancestors(x, q.tip) BY SMTT(30), <1>9 DEF AncestorTurns
<1> QED BY <1>8, <1>11, <1>12, <1>13 DEF h

\* The tips under which requests publish are current.
LEMMA TipsCurrent ==
    ASSUME Cached(sch)
    PROVE  TipsAreCurrent
<1>1. ASSUME NEW r \in RequestIds, sch.req[r].linked
      PROVE  LET q    == sch.req[r]
                 held == Len(q.shared)
                 up   == Ancestors(sch.index, q.tip)
             IN  /\ held <= Capacity
                 /\ \A n \in 0 .. held - 1 :
                        up[n] \in Listed(sch.index)
                            /\ sch.index.entries[up[n]].block = q.shared[held - n]
                 /\ up[held] = Root
  <2>1. Trie(sch.index) /\ Holds(sch.req[r], sch.index) BY DEF Cached
  <2> DEFINE q == sch.req[r]
             x == sch.index
  <2>2. Trie(x) /\ Holds(q, x) /\ q.linked BY <1>1, <2>1
  <2> HIDE DEF q, x
  <2>3. /\ Len(q.shared) <= Capacity
        /\ \A n \in 0 .. Len(q.shared) - 1 :
             /\ Ancestors(x, q.tip)[n] \in Listed(x)
             /\ x.entries[Ancestors(x, q.tip)[n]].block = q.shared[Len(q.shared) - n]
        /\ Ancestors(x, q.tip)[Len(q.shared)] = Root
    BY <2>2, PathAbove
  <2> QED BY <2>3 DEF q, x
<1> QED BY SMTT(30), <1>1 DEF TipsAreCurrent, InState

-----------------------------------------------------------------------------
(* Blocks and how many are free.                                           *)

\* The values of a function on a finite set.
LEMMA ImageFinite ==
    ASSUME NEW D, IsFiniteSet(D), NEW f
    PROVE  /\ IsFiniteSet({f[x] : x \in D})
           /\ Cardinality({f[x] : x \in D}) <= Cardinality(D)
<1> DEFINE g == [x \in D |-> f[x]]
           I == {f[x] : x \in D}
<1>1. g \in Surjection(D, I) BY DEF Surjection
<1> HIDE DEF g, I
<1>2. IsFiniteSet(I) /\ Cardinality(I) <= Cardinality(D) BY <1>1, FS_Surjection
<1> QED BY <1>2 DEF I

\* The elements of a sequence are finitely many, at most as many as it is long.
LEMMA ElementsFinite ==
    ASSUME NEW X, NEW s \in Seq(X)
    PROVE  IsFiniteSet(ToSet(s)) /\ Cardinality(ToSet(s)) <= Len(s)
<1>1. Len(s) \in Nat /\ DOMAIN s = 1 .. Len(s) OBVIOUS
<1>2. IsFiniteSet(1 .. Len(s)) /\ Cardinality(1 .. Len(s)) = Len(s)
  <2>1. 1 \in Int /\ Len(s) \in Int BY <1>1
  <2>2. IsFiniteSet(1 .. Len(s))
        /\ Cardinality(1 .. Len(s)) = IF 1 > Len(s) THEN 0 ELSE Len(s) - 1 + 1
    BY <2>1, FS_Interval
  <2> QED BY <1>1, <2>2
<1> QED BY <1>1, <1>2, ImageFinite DEF ToSet

\* A sum of smaller terms is smaller.
LEMMA PartMonotone ==
    ASSUME NEW D, IsFiniteSet(D), NEW f, NEW g,
           \A x \in D : f[x] \in Int /\ g[x] \in Int /\ f[x] <= g[x]
    PROVE  Part(f, D) <= Part(g, D) /\ Part(f, D) \in Int /\ Part(g, D) \in Int
<1>1. \A s \in SUBSET D : /\ Part(f, s) \in Int
                          /\ \A x \in s : Part(f, s) = f[x] + Part(f, s \ {x})
  BY PartSplit
<1>2. \A s \in SUBSET D : /\ Part(g, s) \in Int
                          /\ \A x \in s : Part(g, s) = g[x] + Part(g, s \ {x})
  BY PartSplit
<1> DEFINE T == {s \in SUBSET D : ~(Part(f, s) <= Part(g, s))}
<1>3. T = {}
  <2>1. SUFFICES ASSUME T # {} PROVE FALSE OBVIOUS
  <2>2. PICK s \in T : \A t \in T : Cardinality(s) <= Cardinality(t)
    <3>1. T \subseteq SUBSET D OBVIOUS
    <3> HIDE DEF T
    <3> QED BY <2>1, <3>1, HasSmallest
  <2>3. IsFiniteSet(s) /\ s \in SUBSET D BY FS_Subset
  <2>4. CASE s = {}
    <3>1. Part(f, s) = 0 /\ Part(g, s) = 0 BY <2>3, <2>4, PartStep
    <3> QED BY <3>1
  <2>5. CASE s # {}
    <3>1. PICK x \in s : TRUE BY <2>5
    <3> DEFINE t == s \ {x}
    <3>2. /\ Part(f, s) = f[x] + Part(f, t) /\ Part(g, s) = g[x] + Part(g, t)
          /\ t \in SUBSET D /\ x \in D
      BY <1>1, <1>2, <2>3, <3>1
    <3>3. IsFiniteSet(t) /\ Cardinality(t) = Cardinality(s) - 1 /\ Cardinality(s) \in Nat
      BY <2>3, <3>1, FS_RemoveElement, FS_CardinalityType
    <3> HIDE DEF t
    <3>4. t \notin T
      <4>1. ~(Cardinality(s) <= Cardinality(t)) BY <3>3
      <4> HIDE DEF T
      <4> QED BY <2>2, <4>1
    <3>5. Part(f, t) <= Part(g, t) BY <3>2, <3>4
    <3>6. /\ Part(f, t) \in Int /\ Part(g, t) \in Int /\ f[x] \in Int /\ g[x] \in Int
          /\ f[x] <= g[x]
      BY <1>1, <1>2, <3>2
    <3>7. Part(f, s) <= Part(g, s) BY <3>2, <3>5, <3>6
    <3> QED BY <3>7
  <2> QED BY <2>4, <2>5
<1>4. D \in SUBSET D OBVIOUS
<1> QED BY <1>1, <1>2, <1>3, <1>4

PrivateOf(S) == [r \in RequestIds |-> PrivateBlocks(S.req[r])]

\* The private blocks of a request are a number.
LEMMA PrivateIs ==
    ASSUME NEW q, NEW x, Holds(q, x)
    PROVE  /\ PrivateBlocks(q) \in Nat /\ TableLength(q) \in Nat /\ Len(q.shared) \in Nat
           /\ BlocksForLength(TableLength(q)) \in Nat
           /\ q.shared = <<>> /\ TableLength(q) = 0 => PrivateBlocks(q) = 0
<1> DEFINE n == Len(q.shared)
           t == TableLength(q)
           b == BlocksForLength(t)
           w == n * BlockSize
<1>1. /\ n \in Nat /\ BlockSize \in Nat \ {0} /\ q.length \in Nat /\ q.pending \in Nat
      /\ w <= q.length /\ (q.pending # 0 => q.length <= q.pending)
  BY ConfigAssumption DEF Holds, OwnBlocks, Sized
<1>2. w \in Nat BY <1>1, NextMultiple
<1> HIDE DEF w
<1>3. t \in Nat /\ w <= t BY <1>1, <1>2 DEF TableLength
<1>4. b \in Nat /\ n <= b
  <2>1. b \in Nat
    <3>1. t <= t BY <1>3
    <3> QED BY <1>3, <3>1, BlocksMonotone
  <2>2. t + BlockSize - 1 \in Nat BY <1>1, <1>3
  <2>3. b = (t + BlockSize - 1) \div BlockSize BY DEF BlocksForLength
  <2>4. t + BlockSize - 1 < BlockSize * b + BlockSize
    BY <1>1, <2>2, <2>3, QuotientIs
  <2> DEFINE v == BlockSize * b
  <2>5. /\ v = b * BlockSize /\ b * BlockSize \in Nat
        /\ (b + 1) * BlockSize = b * BlockSize + BlockSize
    BY <1>1, <2>1, NextMultiple
  <2>6. t + BlockSize - 1 < v + BlockSize BY <2>4
  <2>7. b < n => (b + 1) * BlockSize <= w BY <1>1, <2>1, NextMultiple DEF w
  <2> DEFINE u == (b + 1) * BlockSize
  <2>8. u = v + BlockSize /\ v \in Nat /\ (b < n => u <= w) BY <2>5, <2>7
  <2> HIDE DEF u, v, b, t, n
  <2>9. ~(b < n) BY <1>1, <1>2, <1>3, <2>6, <2>8
  <2> QED BY <1>1, <2>1, <2>9
<1>5. PrivateBlocks(q) = b - n BY DEF PrivateBlocks
<1>6. ASSUME q.shared = <<>>, t = 0 PROVE b - n = 0
  <2>1. n = 0 BY <1>6
  <2>2. (0 + BlockSize - 1) \div BlockSize = 0 BY <1>1
  <2>3. b = 0 BY <1>6, <2>2 DEF BlocksForLength
  <2> QED BY <2>1, <2>3
<1> HIDE DEF b, n
<1>7. b - n \in Nat BY <1>1, <1>4
<1> QED BY <1>1, <1>3, <1>4, <1>5, <1>6, <1>7 DEF b, n

\* Blocks are finitely many, and their numbers are numbers.
LEMMA BlocksFinite ==
    ASSUME NEW S, Cached(S)
    PROVE  /\ IsFiniteSet(HeldBlocks(S)) /\ IsFiniteSet(ListedBlocks(S.index))
           /\ IsFiniteSet(SharedBlocks(S)) /\ Cardinality(SharedBlocks(S)) \in Nat
           /\ \A r \in RequestIds : PrivateOf(S)[r] \in Nat
           /\ Part(PrivateOf(S), RequestIds) \in Int
           /\ AllocatedBlocks(S) = Part(PrivateOf(S), RequestIds) + Cardinality(SharedBlocks(S))
           /\ AllocatedBlocks(S) \in Int /\ FreeBlocks(S) \in Int
           /\ FreeBlocks(S) = TotalBlocks - AllocatedBlocks(S)
<1>1. IsFiniteSet(HeldBlocks(S))
  <2> DEFINE f == [r \in RequestIds |-> ToSet(S.req[r].shared)]
             F == {f[r] : r \in RequestIds}
  <2>1. IsFiniteSet(F) BY RequestsFinite, ImageFinite
  <2>2. ASSUME NEW r \in RequestIds PROVE IsFiniteSet(f[r])
    <3>1. S.req[r].shared \in Seq(BlockIds) BY DEF Cached, Holds, OwnBlocks
    <3> QED BY <3>1, ElementsFinite
  <2>3. \A s \in F : IsFiniteSet(s) BY <2>2
  <2>4. HeldBlocks(S) = UNION F BY DEF HeldBlocks
  <2> HIDE DEF F
  <2> QED BY <2>1, <2>3, <2>4, FS_UNION
<1>2. IsFiniteSet(ListedBlocks(S.index))
  <2> DEFINE f == [id \in Listed(S.index) |-> S.index.entries[id].block]
  <2>1. IsFiniteSet(Listed(S.index)) BY ListedAre DEF Cached, Trie
  <2>2. IsFiniteSet({f[id] : id \in Listed(S.index)}) BY <2>1, ImageFinite
  <2>3. ListedBlocks(S.index) = {f[id] : id \in Listed(S.index)} BY DEF ListedBlocks
  <2> QED BY <2>2, <2>3
<1>3. IsFiniteSet(SharedBlocks(S)) /\ Cardinality(SharedBlocks(S)) \in Nat
  BY <1>1, <1>2, FS_Union, FS_CardinalityType DEF SharedBlocks
<1>4. \A r \in RequestIds : PrivateOf(S)[r] \in Nat BY PrivateIs DEF Cached, PrivateOf
<1>5. Part(PrivateOf(S), RequestIds) \in Int
  <2>1. \A r \in RequestIds : PrivateOf(S)[r] \in Int BY <1>4
  <2>2. RequestIds \in SUBSET RequestIds OBVIOUS
  <2> QED BY <2>1, <2>2, RequestsFinite, PartSplit
<1>6. SumOf([r \in RequestIds |-> PrivateBlocks(S.req[r])]) = Part(PrivateOf(S), RequestIds)
  BY DEF PrivateOf, Part
<1>7. /\ AllocatedBlocks(S) = Part(PrivateOf(S), RequestIds) + Cardinality(SharedBlocks(S))
      /\ FreeBlocks(S) = TotalBlocks - AllocatedBlocks(S)
  BY <1>6 DEF AllocatedBlocks, FreeBlocks
<1> QED BY SMTT(30), <1>1, <1>2, <1>3, <1>4, <1>5, <1>7, ConfigAssumption

\* The new block is a block of the given prefix that nobody uses.
LEMMA NewBlockIs ==
    ASSUME NEW S, IsFiniteSet(SharedBlocks(S)), IsFiniteSet(S.suspect), NEW prefix \in Seq(Nat)
    PROVE  /\ NewSharedBlock(S, prefix) \in BlockIds /\ NewSharedBlock(S, prefix).prefix = prefix
           /\ NewSharedBlock(S, prefix) \notin SharedBlocks(S) \cup S.suspect
<1> DEFINE used == SharedBlocks(S) \cup S.suspect
           k == Cardinality(used)
           C == {n \in 1 .. k + 1 : [prefix |-> prefix, copy |-> n] \notin used}
<1>1. IsFiniteSet(used) /\ k \in Nat BY FS_Union, FS_CardinalityType
<1>2. NewSharedBlock(S, prefix) = [prefix |-> prefix, copy |-> Min(C)] BY DEF NewSharedBlock
<1> HIDE DEF used
<1>3. C # {}
  <2>1. SUFFICES ASSUME C = {} PROVE FALSE OBVIOUS
  <2> DEFINE f == [n \in 1 .. k + 1 |-> [prefix |-> prefix, copy |-> n]]
  <2>2. \A n \in 1 .. k + 1 : f[n] \in used BY <2>1
  <2>3. \A m, n \in 1 .. k + 1 : f[m] = f[n] => m = n
    <3>1. \A n \in 1 .. k + 1 : f[n].copy = n OBVIOUS
    <3> HIDE DEF f
    <3> QED BY <3>1
  <2>4. f \in [1 .. k + 1 -> used] BY <2>2
  <2> HIDE DEF f
  <2>5. f \in Injection(1 .. k + 1, used) BY <2>3, <2>4 DEF Injection, IsInjective
  <2>6. Cardinality(1 .. k + 1) <= k BY <1>1, <2>5, FS_Injection
  <2>7. Cardinality(1 .. k + 1) = IF 1 > k + 1 THEN 0 ELSE (k + 1) - 1 + 1
    <3>1. 1 \in Int /\ k + 1 \in Int BY <1>1
    <3> QED BY <3>1, FS_Interval
  <2> HIDE DEF k
  <2> QED BY <1>1, <2>6, <2>7
<1>4. C \subseteq Nat BY <1>1
<1>5. Min(C) \in C BY <1>3, <1>4, MinIsLeast
<1>6. /\ Min(C) \in Nat /\ [prefix |-> prefix, copy |-> Min(C)] \notin used BY <1>4, <1>5
<1> HIDE DEF C
<1>7. [prefix |-> prefix, copy |-> Min(C)] \in BlockIds
      /\ [prefix |-> prefix, copy |-> Min(C)].prefix = prefix
  BY <1>6 DEF BlockIds
<1> QED BY <1>2, <1>6, <1>7 DEF used

-----------------------------------------------------------------------------
(* Steps that keep trie and requests in agreement, and use up no free block. *)

Thrifty(S, T) == Cached(S) => Cached(T) /\ FreeBlocks(S) <= FreeBlocks(T)

\* Two such steps are one.
LEMMA ThriftyTwice ==
    ASSUME NEW S, NEW T, NEW U, Thrifty(S, T), Thrifty(T, U)
    PROVE  Thrifty(S, U)
<1>1. SUFFICES ASSUME Cached(S) PROVE Cached(U) /\ FreeBlocks(S) <= FreeBlocks(U)
  BY DEF Thrifty
<1>2. Cached(T) /\ FreeBlocks(S) <= FreeBlocks(T) BY <1>1 DEF Thrifty
<1>3. Cached(U) /\ FreeBlocks(T) <= FreeBlocks(U) BY <1>2 DEF Thrifty
<1>4. FreeBlocks(S) \in Int /\ FreeBlocks(T) \in Int /\ FreeBlocks(U) \in Int
  BY <1>1, <1>2, <1>3, BlocksFinite
<1> QED BY <1>2, <1>3, <1>4

\* So is no step.
LEMMA ThriftyNot ==
    ASSUME NEW S
    PROVE  Thrifty(S, S)
<1>1. Cached(S) => FreeBlocks(S) <= FreeBlocks(S) BY BlocksFinite
<1> QED BY <1>1 DEF Thrifty

\* Fewer shared and fewer private blocks leave more free ones.
LEMMA FewerBlocks ==
    ASSUME NEW S, NEW T, Cached(S), Cached(T), SharedBlocks(T) \subseteq SharedBlocks(S),
           \A r \in RequestIds : PrivateBlocks(T.req[r]) <= PrivateBlocks(S.req[r])
    PROVE  FreeBlocks(S) <= FreeBlocks(T)
<1> DEFINE a == Part(PrivateOf(S), RequestIds)
           b == Part(PrivateOf(T), RequestIds)
           c == Cardinality(SharedBlocks(S))
           d == Cardinality(SharedBlocks(T))
<1>1. \A r \in RequestIds : /\ PrivateOf(S)[r] \in Int /\ PrivateOf(T)[r] \in Int
                            /\ PrivateOf(T)[r] <= PrivateOf(S)[r]
  <2>1. SUFFICES ASSUME NEW r \in RequestIds
                 PROVE  /\ PrivateOf(S)[r] \in Int /\ PrivateOf(T)[r] \in Int
                        /\ PrivateOf(T)[r] <= PrivateOf(S)[r]
    OBVIOUS
  <2>2. PrivateOf(S)[r] \in Nat /\ PrivateOf(T)[r] \in Nat BY BlocksFinite
  <2>3. PrivateOf(S)[r] = PrivateBlocks(S.req[r]) /\ PrivateOf(T)[r] = PrivateBlocks(T.req[r])
    BY DEF PrivateOf
  <2> QED BY <2>2, <2>3
<1>2. b <= a /\ a \in Int /\ b \in Int BY <1>1, RequestsFinite, PartMonotone
<1>3. d <= c /\ c \in Nat /\ d \in Nat
  <2>1. IsFiniteSet(SharedBlocks(S)) /\ SharedBlocks(T) \in SUBSET SharedBlocks(S)
    BY BlocksFinite
  <2>2. Cardinality(SharedBlocks(T)) <= Cardinality(SharedBlocks(S)) BY <2>1, FS_Subset
  <2> QED BY <2>2, BlocksFinite
<1>4. /\ FreeBlocks(S) = TotalBlocks - AllocatedBlocks(S) /\ AllocatedBlocks(S) = a + c
      /\ FreeBlocks(T) = TotalBlocks - AllocatedBlocks(T) /\ AllocatedBlocks(T) = b + d
  BY BlocksFinite
<1> HIDE DEF a, b, c, d
<1> QED BY <1>2, <1>3, <1>4, ConfigAssumption

\* A request that holds and has reserved nothing.
Bare(q) ==
    /\ q.shared = <<>> /\ q.tip = Root /\ q.length = 0 /\ q.pending = 0
    /\ q.prompt \in Seq(Nat)

\* q holds the shared blocks of p and no more private ones, or is bare.
Milder(p, q) ==
    \/ Bare(q)
    \/ /\ q.shared = p.shared /\ q.tip = p.tip /\ q.prompt = p.prompt
       /\ q.linked => p.linked
       /\ Sized(q) /\ BlocksForLength(TableLength(q)) <= BlocksForLength(TableLength(p))

\* A request becomes milder.
LEMMA MilderHolds ==
    ASSUME NEW p, NEW x, Holds(p, x), NEW q, Milder(p, q)
    PROVE  /\ Holds(q, x) /\ PrivateBlocks(q) <= PrivateBlocks(p)
           /\ ToSet(q.shared) \subseteq ToSet(p.shared)
<1>0. PrivateBlocks(p) \in Nat BY PrivateIs
<1>1. CASE Bare(q)
  <2>1. /\ q.shared = <<>> /\ q.length = 0 /\ q.pending = 0 /\ q.prompt \in Seq(Nat)
        /\ q.tip = Root /\ Len(q.shared) = 0
    BY <1>1 DEF Bare
  <2>2. 0 * BlockSize = 0 /\ BlockSize \in Nat /\ Len(q.prompt) \in Nat
    BY <2>1, ConfigAssumption
  <2>3. OwnBlocks(q)
    <3>1. q.shared \in Seq(BlockIds) BY <2>1
    <3>2. 1 .. Len(q.shared) = {} BY <2>1
    <3> QED BY <2>1, <2>2, <3>1, <3>2 DEF OwnBlocks
  <2>4. PathHeld(q, x)
    <3>1. 1 .. Len(q.shared) = {} BY <2>1
    <3> QED BY <3>1 DEF PathHeld
  <2>5. TipHeld(q, x) BY <2>1 DEF TipHeld
  <2>6. Sized(q) BY <2>1, <2>2 DEF Sized
  <2>7. Holds(q, x) BY <2>3, <2>4, <2>5, <2>6 DEF Holds
  <2>8. TableLength(q) = 0 BY <2>1 DEF TableLength
  <2>9. PrivateBlocks(q) = 0 BY <2>1, <2>7, <2>8, PrivateIs
  <2>10. ToSet(q.shared) = {} BY <2>1 DEF ToSet
  <2> QED BY <1>0, <2>7, <2>9, <2>10
<1>2. CASE /\ q.shared = p.shared /\ q.tip = p.tip /\ q.prompt = p.prompt
           /\ q.linked => p.linked
           /\ Sized(q) /\ BlocksForLength(TableLength(q)) <= BlocksForLength(TableLength(p))
  <2>1. OwnBlocks(q) BY <1>2 DEF Holds, OwnBlocks
  <2>2. PathHeld(q, x) BY <1>2 DEF Holds, PathHeld
  <2>3. TipHeld(q, x) BY <1>2 DEF Holds, TipHeld
  <2>4. Holds(q, x) BY <1>2, <2>1, <2>2, <2>3 DEF Holds
  <2> DEFINE a == BlocksForLength(TableLength(p))
             b == BlocksForLength(TableLength(q))
             n == Len(p.shared)
  <2>5. a \in Nat /\ b \in Nat /\ n \in Nat BY <2>4, PrivateIs
  <2>6. PrivateBlocks(p) = a - n /\ PrivateBlocks(q) = b - n BY <1>2 DEF PrivateBlocks
  <2>7. b <= a BY <1>2
  <2> HIDE DEF a, b, n
  <2>8. PrivateBlocks(q) <= PrivateBlocks(p) BY <2>5, <2>6, <2>7
  <2> QED BY <1>2, <2>4, <2>8
<1> QED BY <1>1, <1>2 DEF Milder

\* The same request, and one that only loses its link.
LEMMA MilderSelf ==
    ASSUME NEW p, NEW x, Holds(p, x)
    PROVE  /\ Milder(p, p)
           /\ \A q : /\ q.shared = p.shared /\ q.tip = p.tip /\ q.prompt = p.prompt
                     /\ q.linked => p.linked
                     /\ q.length = p.length /\ q.pending = p.pending
                     /\ q.state = p.state \/ q.state \in Live
                     => Milder(p, q)
<1> DEFINE b == BlocksForLength(TableLength(p))
<1>1. b \in Nat BY PrivateIs
<1>2. b <= b
  <2> HIDE DEF b
  <2> QED BY <1>1
<1>3. ASSUME NEW q, q.shared = p.shared, q.tip = p.tip, q.prompt = p.prompt,
             q.linked => p.linked, q.length = p.length, q.pending = p.pending,
             q.state = p.state \/ q.state \in Live
      PROVE  Milder(p, q)
  <2>1. TableLength(q) = TableLength(p) BY <1>3 DEF TableLength
  <2>2. Sized(q) BY <1>3 DEF Holds, Sized
  <2> QED BY <1>2, <1>3, <2>1, <2>2 DEF Milder
<1> QED BY <1>3

\* T is S after its requests became milder; the index stays.
Mild(S, T) ==
    /\ T.index = S.index /\ T.suspect \subseteq S.suspect
    /\ \A r \in RequestIds : Milder(S.req[r], T.req[r])

\* What requests hold becomes less with them.
LEMMA HeldLess ==
    ASSUME NEW S, NEW T,
           \A r \in RequestIds : ToSet(T.req[r].shared) \subseteq ToSet(S.req[r].shared)
    PROVE  HeldBlocks(T) \subseteq HeldBlocks(S)
  BY DEF HeldBlocks

\* Such a step keeps the agreement.
LEMMA MildThrifty ==
    ASSUME NEW S, NEW T, Cached(S) => Mild(S, T)
    PROVE  Thrifty(S, T)
<1>1. SUFFICES ASSUME Cached(S) PROVE Cached(T) /\ FreeBlocks(S) <= FreeBlocks(T)
  BY DEF Thrifty
<1>2. T.index = S.index /\ T.suspect \subseteq S.suspect BY <1>1 DEF Mild
<1>3. ASSUME NEW r \in RequestIds
      PROVE  /\ Holds(T.req[r], S.index)
             /\ PrivateBlocks(T.req[r]) <= PrivateBlocks(S.req[r])
             /\ ToSet(T.req[r].shared) \subseteq ToSet(S.req[r].shared)
  <2>1. Holds(S.req[r], S.index) /\ Milder(S.req[r], T.req[r]) BY <1>1 DEF Cached, Mild
  <2> QED BY <2>1, MilderHolds
<1>4. IsFiniteSet(T.suspect) /\ T.suspect \cap ListedBlocks(T.index) = {}
  <2>1. IsFiniteSet(S.suspect) /\ S.suspect \cap ListedBlocks(S.index) = {}
    BY <1>1 DEF Cached
  <2> QED BY <1>2, <2>1, FS_Subset
<1>5. Cached(T)
  <2>1. Trie(S.index) BY <1>1 DEF Cached
  <2> QED BY <1>2, <1>3, <1>4, <2>1 DEF Cached
<1>6. SharedBlocks(T) \subseteq SharedBlocks(S)
  <2>1. HeldBlocks(T) \subseteq HeldBlocks(S) BY <1>3, HeldLess
  <2> QED BY <1>2, <2>1 DEF SharedBlocks
<1>7. FreeBlocks(S) <= FreeBlocks(T) BY <1>1, <1>3, <1>5, <1>6, FewerBlocks
<1> QED BY <1>5, <1>7

\* T is S with another index.
Reindexed(S, T) == T.req = S.req /\ T.suspect = S.suspect

\* Reordering the recency list.
LEMMA TouchThrifty ==
    ASSUME NEW S, NEW T, Reindexed(S, T), Touches(S.index, T.index)
    PROVE  Thrifty(S, T)
<1>1. SUFFICES ASSUME Cached(S) PROVE Cached(T) /\ FreeBlocks(S) <= FreeBlocks(T)
  BY DEF Thrifty
<1>2. T.index.entries = S.index.entries /\ Trie(T.index) BY DEF Touches
<1>3. Listed(T.index) = Listed(S.index) BY <1>2 DEF Listed
<1>4. ListedBlocks(T.index) = ListedBlocks(S.index) BY <1>2, <1>3 DEF ListedBlocks
<1>5. ASSUME NEW r \in RequestIds PROVE Holds(T.req[r], T.index)
  <2>1. Holds(S.req[r], S.index) /\ T.req[r] = S.req[r] BY <1>1 DEF Cached, Reindexed
  <2>2. PathHeld(S.req[r], T.index) BY <1>2, <1>3, <2>1 DEF Holds, PathHeld
  <2>3. TipHeld(S.req[r], T.index) BY <1>2, <1>3, <2>1 DEF Holds, TipHeld
  <2> QED BY <2>1, <2>2, <2>3 DEF Holds
<1>6. Cached(T) BY <1>1, <1>2, <1>4, <1>5 DEF Cached, Reindexed
<1>7. SharedBlocks(T) = SharedBlocks(S) BY <1>4 DEF SharedBlocks, HeldBlocks, Reindexed
<1>8. \A r \in RequestIds : PrivateBlocks(T.req[r]) <= PrivateBlocks(S.req[r])
  <2>1. SUFFICES ASSUME NEW r \in RequestIds
                 PROVE  PrivateBlocks(T.req[r]) <= PrivateBlocks(S.req[r])
    OBVIOUS
  <2>2. T.req[r] = S.req[r] /\ PrivateBlocks(S.req[r]) \in Nat
    BY <1>1, PrivateIs DEF Cached, Reindexed
  <2> QED BY <2>2
<1> QED BY <1>1, <1>6, <1>7, <1>8, FewerBlocks

\* Evicting an entry without children whose block no request holds.
LEMMA LoseThrifty ==
    ASSUME NEW S, NEW T, Reindexed(S, T), NEW id, Loses(S.index, T.index, id),
           S.index.entries[id].block \notin HeldBlocks(S)
    PROVE  Thrifty(S, T)
<1> DEFINE x == S.index
           y == T.index
<1>1. SUFFICES ASSUME Cached(S) PROVE Cached(T) /\ FreeBlocks(S) <= FreeBlocks(T)
  BY DEF Thrifty
<1>2. /\ Trie(y) /\ id \in Listed(x) /\ Listed(y) = Listed(x) \ {id} /\ Children(x, id) = {}
      /\ \A o \in Listed(y) : SamePlace(x.entries[o], y.entries[o])
  BY DEF Loses
<1> HIDE DEF x, y
<1>3. ASSUME NEW o \in Listed(y)
      PROVE  /\ o \in Listed(x) /\ y.entries[o].block = x.entries[o].block
             /\ y.entries[o].parent = x.entries[o].parent /\ x.entries[o].parent # id
  BY <1>2 DEF SamePlace, Children
<1>4. ListedBlocks(y) \subseteq ListedBlocks(x) BY <1>3 DEF ListedBlocks
<1>5. ASSUME NEW r \in RequestIds PROVE Holds(T.req[r], y)
  <2> DEFINE q == S.req[r]
  <2>1. Holds(q, x) /\ T.req[r] = q BY <1>1 DEF Cached, Reindexed, x
  <2>2. \A i \in 1 .. Len(q.shared) : q.shared[i] # x.entries[id].block
    <3>1. q.shared \in Seq(BlockIds) BY <2>1 DEF Holds, OwnBlocks
    <3>2. ASSUME NEW i \in 1 .. Len(q.shared) PROVE q.shared[i] \in HeldBlocks(S)
      <4>1. i \in DOMAIN q.shared BY <3>1
      <4>2. q.shared[i] \in ToSet(S.req[r].shared) BY <4>1 DEF ToSet
      <4> QED BY <4>2 DEF HeldBlocks
    <3> QED BY <3>2 DEF x
  <2>3. q.shared # <<>> => Len(q.shared) \in 1 .. Len(q.shared)
    BY <2>1 DEF Holds, OwnBlocks
  <2> HIDE DEF q
  <2>4. PathHeld(q, y)
    <3>1. SUFFICES ASSUME NEW i \in 1 .. Len(q.shared), NEW o \in Listed(y),
                          y.entries[o].block = q.shared[i]
                   PROVE  IF i = 1 THEN y.entries[o].parent = Root
                          ELSE /\ y.entries[o].parent \in Listed(y)
                               /\ y.entries[y.entries[o].parent].block = q.shared[i - 1]
      BY DEF PathHeld
    <3>2. IF i = 1 THEN x.entries[o].parent = Root
          ELSE /\ x.entries[o].parent \in Listed(x)
               /\ x.entries[x.entries[o].parent].block = q.shared[i - 1]
      BY <1>3, <2>1, <3>1 DEF Holds, PathHeld
    <3> QED BY <1>2, <1>3, <3>2
  <2>5. TipHeld(q, y)
    <3>1. SUFFICES ASSUME q.linked, q.shared # <<>>
                   PROVE  q.tip \in Listed(y) /\ y.entries[q.tip].block = q.shared[Len(q.shared)]
      BY <2>1 DEF Holds, TipHeld
    <3>2. q.tip \in Listed(x) /\ x.entries[q.tip].block = q.shared[Len(q.shared)]
      BY <2>1, <3>1 DEF Holds, TipHeld
    <3>3. q.tip # id BY <2>2, <2>3, <3>1, <3>2
    <3> QED BY <1>2, <1>3, <3>2, <3>3
  <2> QED BY <2>1, <2>4, <2>5 DEF Holds
<1>6. Cached(T)
  <2>1. IsFiniteSet(T.suspect) /\ T.suspect \cap ListedBlocks(y) = {}
    BY <1>1, <1>4 DEF Cached, Reindexed, x
  <2> QED BY <1>2, <1>5, <2>1 DEF Cached, y
<1>7. SharedBlocks(T) \subseteq SharedBlocks(S)
  BY <1>4 DEF SharedBlocks, HeldBlocks, Reindexed, x, y
<1>8. \A r \in RequestIds : PrivateBlocks(T.req[r]) <= PrivateBlocks(S.req[r])
  <2>1. SUFFICES ASSUME NEW r \in RequestIds
                 PROVE  PrivateBlocks(T.req[r]) <= PrivateBlocks(S.req[r])
    OBVIOUS
  <2>2. T.req[r] = S.req[r] /\ PrivateBlocks(S.req[r]) \in Nat
    BY <1>1, PrivateIs DEF Cached, Reindexed
  <2> QED BY <2>2
<1> QED BY <1>1, <1>6, <1>7, <1>8, FewerBlocks

\* T is S with an empty index, under which no request may publish.
Clears(S, T) ==
    /\ Trie(T.index) /\ Listed(T.index) = {} /\ IsFiniteSet(T.suspect)
    /\ \A r \in RequestIds :
        /\ Milder(S.req[r], T.req[r])
        /\ T.req[r].linked => T.req[r].shared = <<>> /\ T.req[r].tip = Root

\* Clearing the index.
LEMMA ClearThrifty ==
    ASSUME NEW S, NEW T, Cached(S) => Clears(S, T)
    PROVE  Thrifty(S, T)
<1>1. SUFFICES ASSUME Cached(S) PROVE Cached(T) /\ FreeBlocks(S) <= FreeBlocks(T)
  BY DEF Thrifty
<1>2. Trie(T.index) /\ Listed(T.index) = {} /\ IsFiniteSet(T.suspect) BY <1>1 DEF Clears
<1>3. ASSUME NEW r \in RequestIds
      PROVE  /\ Holds(T.req[r], T.index)
             /\ PrivateBlocks(T.req[r]) <= PrivateBlocks(S.req[r])
             /\ ToSet(T.req[r].shared) \subseteq ToSet(S.req[r].shared)
  <2>1. /\ Holds(S.req[r], S.index) /\ Milder(S.req[r], T.req[r])
        /\ T.req[r].linked => T.req[r].shared = <<>> /\ T.req[r].tip = Root
    BY <1>1 DEF Cached, Clears
  <2>2. /\ Holds(T.req[r], S.index) /\ PrivateBlocks(T.req[r]) <= PrivateBlocks(S.req[r])
        /\ ToSet(T.req[r].shared) \subseteq ToSet(S.req[r].shared)
    BY <2>1, MilderHolds
  <2>3. PathHeld(T.req[r], T.index) BY <1>2 DEF PathHeld
  <2>4. TipHeld(T.req[r], T.index) BY <2>1 DEF TipHeld
  <2> QED BY <2>2, <2>3, <2>4 DEF Holds
<1>4. ListedBlocks(T.index) = {} BY <1>2 DEF ListedBlocks
<1>5. Cached(T) BY <1>2, <1>3, <1>4 DEF Cached
<1>6. SharedBlocks(T) \subseteq SharedBlocks(S)
  <2>1. HeldBlocks(T) \subseteq HeldBlocks(S) BY <1>3, HeldLess
  <2> QED BY <1>4, <2>1 DEF SharedBlocks
<1> QED BY <1>1, <1>3, <1>5, <1>6, FewerBlocks

-----------------------------------------------------------------------------
(* Adopting and publishing blocks.                                         *)

\* The tokens of the next block continue a prefix of the prompt.
LEMMA PromptParts ==
    ASSUME NEW s \in Seq(Nat), NEW m \in Nat, m + BlockSize <= Len(s)
    PROVE  /\ SubSeq(s, 1, m) \o BlockTokens(s, m) = SubSeq(s, 1, m + BlockSize)
           /\ BlockTokens(s, m) \in Seq(Nat) /\ Len(BlockTokens(s, m)) = BlockSize
           /\ SubSeq(s, 1, m + BlockSize) \in Seq(Nat)
<1> DEFINE a == SubSeq(s, 1, m)
           b == BlockTokens(s, m)
           c == SubSeq(s, 1, m + BlockSize)
<1>1. BlockSize \in Nat \ {0} /\ Len(s) \in Nat BY ConfigAssumption
<1>2. a \in Seq(Nat) /\ Len(a) = m /\ \A i \in 1 .. m : a[i] = s[i]
  BY <1>1
<1>3. c \in Seq(Nat) /\ Len(c) = m + BlockSize /\ \A i \in 1 .. m + BlockSize : c[i] = s[i]
  BY <1>1
<1>4. b \in Seq(Nat) /\ Len(b) = BlockSize /\ \A i \in 1 .. BlockSize : b[i] = s[m + i]
  BY <1>1 DEF BlockTokens
<1> HIDE DEF a, b, c
<1> DEFINE ab == a \o b
<1>5. ab \in Seq(Nat) /\ Len(ab) = m + BlockSize
      /\ \A i \in 1 .. m + BlockSize : ab[i] = IF i <= m THEN a[i] ELSE b[i - m]
  <2>1. a \in Seq(Nat) /\ b \in Seq(Nat) BY <1>2, <1>4
  <2>2. /\ ab \in Seq(Nat) /\ Len(ab) = Len(a) + Len(b)
        /\ \A i \in 1 .. Len(a) + Len(b) : ab[i] = IF i <= Len(a) THEN a[i] ELSE b[i - Len(a)]
    BY <2>1, ConcatProperties
  <2> HIDE DEF ab
  <2> QED BY <1>2, <1>4, <2>2
<1> HIDE DEF ab
<1>6. ASSUME NEW i \in 1 .. m + BlockSize PROVE ab[i] = c[i]
  <2>1. CASE i <= m
    <3>1. i \in 1 .. m BY <1>1, <2>1
    <3> QED BY <1>2, <1>3, <1>5, <2>1, <3>1
  <2>2. CASE i > m
    <3>1. i - m \in 1 .. BlockSize /\ m + (i - m) = i /\ ~(i <= m) BY <1>1, <2>2
    <3> QED BY <1>3, <1>4, <1>5, <3>1
  <2> QED BY <1>1, <2>1, <2>2
<1>7. ab = c BY <1>1, <1>3, <1>5, <1>6
<1> QED BY <1>3, <1>4, <1>7 DEF a, b, c, ab

\* A whole number of blocks.
LEMMA WholeBlocks ==
    ASSUME NEW n \in Nat
    PROVE  BlocksForLength(n * BlockSize) = n /\ n * BlockSize \in Nat
<1> DEFINE w == n * BlockSize
           k == (w + BlockSize - 1) \div BlockSize
           v == BlockSize * k
<1>1. BlockSize \in Nat \ {0} BY ConfigAssumption
<1>2. w \in Nat /\ (n + 1) * BlockSize = w + BlockSize BY <1>1, NextMultiple
<1> HIDE DEF w
<1>3. w + BlockSize - 1 \in Nat BY <1>1, <1>2
<1>4. k \in Nat /\ v <= w + BlockSize - 1 /\ w + BlockSize - 1 < v + BlockSize
  BY <1>1, <1>3, QuotientIs
<1>5. BlocksForLength(w) = k BY DEF BlocksForLength
<1> HIDE DEF k
<1>6. v = k * BlockSize /\ v \in Nat /\ (k + 1) * BlockSize = v + BlockSize
  BY <1>1, <1>4, NextMultiple
<1> HIDE DEF v
<1>7. k < n + 1
  <2>1. v < (n + 1) * BlockSize BY <1>1, <1>2, <1>4, <1>6
  <2> QED BY <1>1, <1>4, <1>6, <2>1, NextMultiple
<1>8. n < k + 1
  <2>1. n * BlockSize < (k + 1) * BlockSize BY <1>1, <1>2, <1>4, <1>6 DEF w
  <2> QED BY <1>1, <1>4, <2>1, NextMultiple
<1> QED BY <1>2, <1>4, <1>5, <1>7, <1>8 DEF w

\* What the tip of a request stands for.
LEMMA TipPrefix ==
    ASSUME NEW p, NEW x, Trie(x), Holds(p, x), p.linked
    PROVE  /\ p.tip \in Listed(x) \cup {Root}
           /\ PrefixOf(x, p.tip) = SubSeq(p.prompt, 1, Len(p.shared) * BlockSize)
           /\ p.shared = <<>> <=> p.tip = Root
           /\ p.shared # <<>> => x.entries[p.tip].block = p.shared[Len(p.shared)]
<1>1. /\ p.shared \in Seq(BlockIds) /\ p.prompt \in Seq(Nat) /\ Len(p.shared) \in Nat
      /\ \A i \in 1 .. Len(p.shared) : p.shared[i].prefix = SubSeq(p.prompt, 1, i * BlockSize)
  BY DEF Holds, OwnBlocks
<1>2. IF p.shared = <<>> THEN p.tip = Root
      ELSE p.tip \in Listed(x) /\ x.entries[p.tip].block = p.shared[Len(p.shared)]
  BY DEF Holds, TipHeld
<1>3. CASE p.shared = <<>>
  <2>1. Len(p.shared) * BlockSize = 0 BY <1>3, ConfigAssumption
  <2>2. SubSeq(p.prompt, 1, 0) = <<>> BY <1>1
  <2>3. PrefixOf(x, p.tip) = <<>> BY <1>2, <1>3 DEF PrefixOf
  <2> QED BY <1>2, <1>3, <2>1, <2>2, <2>3
<1>4. CASE p.shared # <<>>
  <2>1. Len(p.shared) \in 1 .. Len(p.shared) BY <1>1, <1>4
  <2>2. p.tip # Root /\ PrefixOf(x, p.tip) = x.entries[p.tip].block.prefix
    BY <1>2, <1>4, EntryFields
  <2> QED BY <1>1, <1>2, <1>4, <2>1, <2>2
<1> QED BY <1>3, <1>4

\* q is p with one more shared block, the next of its prompt.
Extends(p, q, b) ==
    /\ b \in BlockIds /\ b.prefix = SubSeq(p.prompt, 1, (Len(p.shared) + 1) * BlockSize)
    /\ (Len(p.shared) + 1) * BlockSize <= Len(p.prompt)
    /\ q.shared = Append(p.shared, b) /\ q.prompt = p.prompt

\* Its blocks are its own.
LEMMA ExtendsOwn ==
    ASSUME NEW p, NEW q, NEW b, OwnBlocks(p), Extends(p, q, b)
    PROVE  /\ OwnBlocks(q) /\ Len(q.shared) = Len(p.shared) + 1 /\ Len(p.shared) \in Nat
           /\ q.shared[Len(p.shared) + 1] = b
           /\ \A i \in 1 .. Len(p.shared) : q.shared[i] = p.shared[i]
           /\ q.shared # <<>> /\ ToSet(q.shared) = ToSet(p.shared) \cup {b}
<1> DEFINE k == Len(p.shared)
<1>1. /\ p.shared \in Seq(BlockIds) /\ p.prompt \in Seq(Nat) /\ k \in Nat
      /\ \A i \in 1 .. k : p.shared[i].prefix = SubSeq(p.prompt, 1, i * BlockSize)
  BY DEF OwnBlocks
<1>2. /\ b \in BlockIds /\ b.prefix = SubSeq(p.prompt, 1, (k + 1) * BlockSize)
      /\ (k + 1) * BlockSize <= Len(p.prompt)
      /\ q.shared = Append(p.shared, b) /\ q.prompt = p.prompt
  BY DEF Extends
<1>3. /\ q.shared \in Seq(BlockIds) /\ Len(q.shared) = k + 1 /\ q.shared[k + 1] = b
      /\ \A i \in 1 .. k : q.shared[i] = p.shared[i]
  BY <1>1, <1>2
<1>4. ToSet(q.shared) = ToSet(p.shared) \cup {b} BY <1>1, <1>2, AppendIs
<1> HIDE DEF k
<1>5. ASSUME NEW i \in 1 .. k + 1
      PROVE  q.shared[i].prefix = SubSeq(q.prompt, 1, i * BlockSize)
  <2>1. CASE i = k + 1 BY <1>2, <1>3, <2>1
  <2>2. CASE i # k + 1
    <3>1. i \in 1 .. k BY <1>1, <2>2
    <3> QED BY <1>1, <1>2, <1>3, <3>1
  <2> QED BY <2>1, <2>2
<1>6. OwnBlocks(q) BY <1>1, <1>2, <1>3, <1>5 DEF OwnBlocks
<1>7. q.shared # <<>> BY <1>1, <1>3
<1> QED BY <1>1, <1>3, <1>4, <1>6, <1>7 DEF k

\* One block more of the private ones becomes shared, or none does.
LEMMA SharedPrivate ==
    ASSUME NEW p, NEW x, Holds(p, x), NEW q, NEW y, Holds(q, y), p.pending = 0, q.pending = 0
    PROVE  /\ PrivateBlocks(p) = BlocksForLength(p.length) - Len(p.shared)
           /\ PrivateBlocks(q) = BlocksForLength(q.length) - Len(q.shared)
           /\ PrivateBlocks(p) \in Nat /\ PrivateBlocks(q) \in Nat
           /\ Len(p.shared) \in Nat /\ Len(q.shared) \in Nat
           /\ BlocksForLength(p.length) \in Nat /\ BlocksForLength(q.length) \in Nat
<1>1. TableLength(p) = p.length /\ TableLength(q) = q.length BY DEF TableLength
<1> QED BY <1>1, PrivateIs DEF PrivateBlocks

\* The fields that adopting a block changes.
LEMMA AdoptedFields ==
    ASSUME NEW S, NEW p, RequestShape(p), NEW id, NEW q, q = AdoptedOf(S, p, id)
    PROVE  /\ q.shared = Append(p.shared, S.index.entries[id].block) /\ q.tip = id
           /\ q.cursor = p.cursor + BlockSize
           /\ q.length = (Len(p.shared) + 1) * BlockSize
           /\ q.prompt = p.prompt /\ q.linked = p.linked /\ q.pending = p.pending
           /\ q.state = p.state /\ q.deferred = p.deferred
  BY DEF AdoptedOf, RequestShape

\* What adopting entry id makes of a request, as far as the trie goes.
LEMMA AdoptedHolds ==
    ASSUME NEW S, NEW p, Trie(S.index), Holds(p, S.index), RequestShape(p), Rest(p),
           p.state = "admitted", p.linked, NEW id \in Adoptable(S, p)
    PROVE  LET q == AdoptedOf(S, p, id)
           IN  /\ Holds(q, S.index) /\ PrivateBlocks(q) <= PrivateBlocks(p)
               /\ ToSet(q.shared) = ToSet(p.shared) \cup {S.index.entries[id].block}
               /\ id \in Listed(S.index) /\ q.pending = 0
<1> DEFINE q == AdoptedOf(S, p, id)
           x == S.index
           k == Len(p.shared)
           b == x.entries[id].block
<1>0. q = AdoptedOf(S, p, id) OBVIOUS
<1>3. Rest(q) BY AdoptedRests
<1> HIDE DEF q
<1>1. /\ q.shared = Append(p.shared, b) /\ q.tip = id
      /\ q.length = (k + 1) * BlockSize
      /\ q.prompt = p.prompt /\ q.linked = p.linked /\ q.pending = p.pending
      /\ q.state = p.state
  <2>1. RequestShape(p) OBVIOUS
  <2>2. /\ q.shared = Append(p.shared, S.index.entries[id].block) /\ q.tip = id
        /\ q.length = (Len(p.shared) + 1) * BlockSize
        /\ q.prompt = p.prompt /\ q.linked = p.linked /\ q.pending = p.pending
        /\ q.state = p.state
    BY ONLY <1>0, <2>1, AdoptedFields
  <2> QED BY <2>2
<1>2. /\ id \in Listed(x) /\ x.entries[id].parent = p.tip
      /\ x.entries[id].tokens = BlockTokens(p.prompt, p.cursor)
  BY DEF Adoptable, Find
<1>4. p.pending = 0 /\ p.cursor = p.length /\ p.length = k * BlockSize
  BY DEF Rest, Progress, Active
<1>5. (k + 1) * BlockSize <= Len(p.prompt) /\ "admitted" \in Active
  <2>1. q.state = "admitted" /\ "admitted" \in Active BY <1>1 DEF Active
  <2>2. q.cursor = q.length /\ q.cursor < Len(q.prompt) /\ q.length \in Nat
    BY <1>3, <2>1 DEF Rest, Progress, Numbers
  <2>3. Len(q.prompt) \in Nat BY <1>1 DEF Holds, OwnBlocks
  <2> QED BY <1>1, <2>1, <2>2, <2>3
<1>6. /\ PrefixOf(x, p.tip) = SubSeq(p.prompt, 1, k * BlockSize)
      /\ p.shared = <<>> <=> p.tip = Root
      /\ p.shared # <<>> => p.tip \in Listed(x) /\ x.entries[p.tip].block = p.shared[k]
  <2>1. /\ p.tip \in Listed(x) \cup {Root}
        /\ PrefixOf(x, p.tip) = SubSeq(p.prompt, 1, k * BlockSize)
        /\ p.shared = <<>> <=> p.tip = Root
        /\ p.shared # <<>> => x.entries[p.tip].block = p.shared[Len(p.shared)]
    BY TipPrefix
  <2> QED BY <2>1
<1>7. OwnBlocks(p) /\ PathHeld(p, x) BY DEF Holds
<1>8. p.prompt \in Seq(Nat) /\ p.shared \in Seq(BlockIds) /\ k \in Nat BY <1>7 DEF OwnBlocks
<1>9. (k + 1) * BlockSize = k * BlockSize + BlockSize /\ k * BlockSize \in Nat
  BY <1>8, ConfigAssumption, NextMultiple
<1>10. b \in BlockIds /\ b.prefix = SubSeq(p.prompt, 1, (k + 1) * BlockSize)
  <2>1. Hangs(x, id) /\ b \in BlockIds BY <1>2, EntryFields DEF Trie
  <2>2. b.prefix = PrefixOf(x, p.tip) \o BlockTokens(p.prompt, k * BlockSize)
    BY <1>2, <1>4, <2>1 DEF Hangs
  <2> HIDE DEF k, b
  <2> QED BY <1>5, <1>6, <1>8, <1>9, <2>1, <2>2, PromptParts
<1>11. Extends(p, q, b) BY <1>1, <1>5, <1>10 DEF Extends
<1>12. /\ OwnBlocks(q) /\ Len(q.shared) = k + 1 /\ q.shared[k + 1] = b
       /\ \A i \in 1 .. k : q.shared[i] = p.shared[i]
       /\ q.shared # <<>> /\ ToSet(q.shared) = ToSet(p.shared) \cup {b}
  BY <1>7, <1>11, ExtendsOwn
<1>13. PathHeld(q, x)
  <2>1. SUFFICES ASSUME NEW i \in 1 .. Len(q.shared), NEW o \in Listed(x),
                        x.entries[o].block = q.shared[i]
                 PROVE  IF i = 1 THEN x.entries[o].parent = Root
                        ELSE /\ x.entries[o].parent \in Listed(x)
                             /\ x.entries[x.entries[o].parent].block = q.shared[i - 1]
    BY DEF PathHeld
  <2>2. CASE i = k + 1
    <3>1. x.entries[o].block = x.entries[id].block BY <1>12, <2>1, <2>2
    <3>2. o = id BY <1>2, <2>1, <3>1 DEF Trie, Distinct
    <3>3. CASE k = 0
      <4>1. p.shared = <<>> BY <1>8, <3>3
      <4> QED BY <1>2, <1>6, <2>2, <3>2, <3>3, <4>1
    <3>4. CASE k # 0
      <4>1. p.shared # <<>> /\ k \in 1 .. k /\ i # 1 /\ i - 1 = k BY <1>8, <2>2, <3>4
      <4> QED BY <1>2, <1>6, <1>12, <3>2, <4>1
    <3> QED BY <3>3, <3>4
  <2>3. CASE i # k + 1
    <3>1. i \in 1 .. k /\ (i # 1 => i - 1 \in 1 .. k) BY <1>8, <1>12, <2>1, <2>3
    <3>2. x.entries[o].block = p.shared[i] BY <1>12, <2>1, <3>1
    <3>3. IF i = 1 THEN x.entries[o].parent = Root
          ELSE /\ x.entries[o].parent \in Listed(x)
               /\ x.entries[x.entries[o].parent].block = p.shared[i - 1]
      BY <1>7, <2>1, <3>1, <3>2 DEF PathHeld
    <3> QED BY <1>12, <3>1, <3>3
  <2> QED BY <2>2, <2>3
<1>14. TipHeld(q, x) BY <1>1, <1>2, <1>12 DEF TipHeld
<1>15. Sized(q)
  <2>1. (k + 1) * BlockSize \in Nat BY SMTT(30), <1>9, ConfigAssumption
  <2>2. q.state \in Live BY <1>1, <1>5 DEF Live
  <2>3. q.length = Len(q.shared) * BlockSize /\ q.length \in Nat BY <1>1, <1>12, <2>1
  <2> QED BY <1>1, <1>4, <2>2, <2>3 DEF Sized
<1>16. Holds(q, x) BY <1>12, <1>13, <1>14, <1>15 DEF Holds
<1>17. PrivateBlocks(q) <= PrivateBlocks(p)
  <2>1. PrivateBlocks(q) = BlocksForLength(q.length) - Len(q.shared) /\ PrivateBlocks(p) \in Nat
    BY <1>1, <1>4, <1>16, SharedPrivate
  <2>2. BlocksForLength(q.length) = k + 1 BY <1>1, <1>8, WholeBlocks
  <2> QED BY <1>8, <1>12, <2>1, <2>2
<1> QED BY <1>1, <1>2, <1>4, <1>12, <1>16, <1>17 DEF q

\* Adopting a listed block.
LEMMA AdoptThrifty ==
    ASSUME NEW S, Shape(S), NEW r \in RequestIds, NEW T, NEW id, Adopts(S, T, r, id),
           Rest(S.req[r]), S.req[r].state = "admitted", S.req[r].linked
    PROVE  Thrifty(S, T)
<1> DEFINE p == S.req[r]
           b == S.index.entries[id].block
<1>1. SUFFICES ASSUME Cached(S) PROVE Cached(T) /\ FreeBlocks(S) <= FreeBlocks(T)
  BY DEF Thrifty
<1>2. /\ T.index = S.index /\ id \in Adoptable(S, p) /\ T.req[r] = AdoptedOf(S, p, id)
      /\ \A o \in RequestIds \ {r} : T.req[o] = S.req[o]
      /\ T.suspect = S.suspect
  BY DEF Adopts, Moves, SameQueues
<1>3. Trie(S.index) /\ Holds(p, S.index) /\ RequestShape(p) BY <1>1 DEF Cached, Shape
<1>4. /\ Holds(T.req[r], S.index) /\ PrivateBlocks(T.req[r]) <= PrivateBlocks(p)
      /\ ToSet(T.req[r].shared) = ToSet(p.shared) \cup {b} /\ id \in Listed(S.index)
  BY <1>2, <1>3, AdoptedHolds
<1>5. Cached(T)
  <2>1. \A o \in RequestIds : Holds(T.req[o], T.index) BY <1>1, <1>2, <1>4 DEF Cached
  <2> QED BY <1>1, <1>2, <2>1 DEF Cached
<1>6. SharedBlocks(T) \subseteq SharedBlocks(S)
  <2>1. b \in ListedBlocks(S.index) BY <1>4 DEF ListedBlocks
  <2>2. HeldBlocks(T) \subseteq HeldBlocks(S) \cup {b}
    <3>1. \A o \in RequestIds : ToSet(T.req[o].shared) \subseteq ToSet(S.req[o].shared) \cup {b}
      BY <1>2, <1>4
    <3> QED BY <3>1 DEF HeldBlocks
  <2> QED BY <1>2, <2>1, <2>2 DEF SharedBlocks
<1>7. \A o \in RequestIds : PrivateBlocks(T.req[o]) <= PrivateBlocks(S.req[o])
  <2>1. SUFFICES ASSUME NEW o \in RequestIds
                 PROVE  PrivateBlocks(T.req[o]) <= PrivateBlocks(S.req[o])
    OBVIOUS
  <2>2. PrivateBlocks(S.req[o]) \in Nat BY <1>1, PrivateIs DEF Cached
  <2>3. CASE o = r BY <1>4, <2>3
  <2>4. CASE o # r BY <1>2, <2>2, <2>4
  <2> QED BY <2>3, <2>4
<1> QED BY <1>1, <1>5, <1>6, <1>7, FewerBlocks

\* A request of a committed plan whose prompt is processed up to its cursor.
MayList(q) ==
    /\ q.cursor \in Nat /\ q.cursor <= q.length /\ q.cursor <= Len(q.prompt)
    /\ q.pending = 0 /\ q.state \in Live

\* T is S after request r listed block b, for which there was room.
ListsInto(S, T, r, b) ==
    LET p == S.req[r]
    IN  /\ HasRoom(S.index) /\ Find(S.index, p.tip, NextTokens(p)) = {}
        /\ RequestShape(p) /\ p.linked /\ MayList(p)
        /\ ~(Len(p.shared) >= p.cursor \div BlockSize)
        /\ b = NewSharedBlock(S, SubSeq(p.prompt, 1, (Len(p.shared) + 1) * BlockSize))
        /\ T.index = Insert(S.index, p.tip, NextTokens(p), b)
        /\ T.req[r] = [p EXCEPT !.shared = Append(@, b), !.tip = NextEntry(S.index)]
        /\ \A o \in RequestIds \ {r} : T.req[o] = S.req[o]
        /\ T.suspect = S.suspect

\* The block a request lists is new, and so is its key.
LEMMA ListsFresh ==
    ASSUME NEW S, Cached(S), NEW r \in RequestIds, NEW T, NEW b, ListsInto(S, T, r, b)
    PROVE  /\ Extends(S.req[r], T.req[r], b) /\ b \notin SharedBlocks(S) \cup S.suspect
           /\ (Len(S.req[r].shared) + 1) * BlockSize <= S.req[r].length
           /\ Gains(S.index, T.index, NextEntry(S.index),
                    NewEntry(S.req[r].tip, NextTokens(S.req[r]), b))
<1> DEFINE p == S.req[r]
           x == S.index
           k == Len(p.shared)
           prefix == SubSeq(p.prompt, 1, (k + 1) * BlockSize)
<1>1. /\ HasRoom(x) /\ Find(x, p.tip, NextTokens(p)) = {}
      /\ RequestShape(p) /\ p.linked /\ MayList(p)
      /\ ~(k >= p.cursor \div BlockSize)
      /\ b = NewSharedBlock(S, prefix)
      /\ T.index = Insert(x, p.tip, NextTokens(p), b)
      /\ T.req[r] = [p EXCEPT !.shared = Append(@, b), !.tip = NextEntry(x)]
  BY SMTT(30) DEF ListsInto
<1>2. Trie(x) /\ Holds(p, x) /\ IsFiniteSet(SharedBlocks(S)) /\ IsFiniteSet(S.suspect)
  BY SMTT(30), BlocksFinite DEF Cached
<1>3. /\ p.prompt \in Seq(Nat) /\ k \in Nat /\ p.length \in Nat /\ Len(p.prompt) \in Nat
      /\ p.cursor \in Nat /\ p.cursor <= p.length /\ p.cursor <= Len(p.prompt)
  BY SMTT(30), <1>1, <1>2 DEF Holds, OwnBlocks, Sized, MayList
<1>4. /\ (k + 1) * BlockSize <= p.cursor /\ k * BlockSize \in Nat
      /\ (k + 1) * BlockSize = k * BlockSize + BlockSize
  <2> DEFINE m == p.cursor \div BlockSize
             v == BlockSize * m
             w == k * BlockSize
  <2>1. BlockSize \in Nat \ {0} BY ConfigAssumption
  <2>2. m \in Nat /\ v <= p.cursor BY <1>3, <2>1, QuotientIs
  <2>3. ~(k >= m) BY <1>1
  <2> HIDE DEF m, k
  <2>4. k < m BY <1>3, <2>2, <2>3
  <2>5. (k + 1) * BlockSize <= m * BlockSize /\ m * BlockSize = v
    BY <1>3, <2>1, <2>2, <2>4, NextMultiple
  <2>6. (k + 1) * BlockSize = w + BlockSize /\ w \in Nat BY <1>3, <2>1, NextMultiple
  <2> HIDE DEF v
  <2>7. v \in Int
    <3>1. BlockSize \in Int /\ m \in Int BY <2>1, <2>2
    <3> QED BY <3>1 DEF v
  <2> HIDE DEF w
  <2>8. w + BlockSize <= p.cursor BY SMTT(30), <1>3, <2>1, <2>2, <2>5, <2>6, <2>7
  <2> QED BY <2>6, <2>8 DEF w
<1>5. (k + 1) * BlockSize <= Len(p.prompt) /\ (k + 1) * BlockSize <= p.length
  <2> DEFINE w == k * BlockSize
  <2> HIDE DEF w
  <2>1. w + BlockSize <= p.cursor /\ w \in Nat BY <1>4 DEF w
  <2>2. w + BlockSize <= Len(p.prompt) /\ w + BlockSize <= p.length
    <3>1. BlockSize \in Nat BY SMTT(30), ConfigAssumption
    <3> HIDE DEF p
    <3> QED BY SMTT(30), <1>3, <2>1, <3>1
  <2> QED BY <1>4, <2>2 DEF w
<1>6. /\ SubSeq(p.prompt, 1, k * BlockSize) \o NextTokens(p) = prefix
      /\ NextTokens(p) \in Seq(Nat) /\ Len(NextTokens(p)) = BlockSize /\ prefix \in Seq(Nat)
  <2> DEFINE w == k * BlockSize
  <2>1. prefix = SubSeq(p.prompt, 1, w + BlockSize) /\ w \in Nat /\ w + BlockSize <= Len(p.prompt)
    BY ZenonT(60), <1>4, <1>5
  <2>2. NextTokens(p) = BlockTokens(p.prompt, w) BY DEF NextTokens
  <2> HIDE DEF w, prefix
  <2>3. /\ SubSeq(p.prompt, 1, w) \o BlockTokens(p.prompt, w) = SubSeq(p.prompt, 1, w + BlockSize)
        /\ BlockTokens(p.prompt, w) \in Seq(Nat) /\ Len(BlockTokens(p.prompt, w)) = BlockSize
        /\ SubSeq(p.prompt, 1, w + BlockSize) \in Seq(Nat)
    BY <1>3, <2>1, PromptParts
  <2> QED BY <2>1, <2>2, <2>3 DEF w
<1>7. b \in BlockIds /\ b.prefix = prefix /\ b \notin SharedBlocks(S) \cup S.suspect
  <2> HIDE DEF prefix
  <2> QED BY <1>1, <1>2, <1>6, NewBlockIs
<1>8. T.req[r].shared = Append(p.shared, b) /\ T.req[r].prompt = p.prompt
  BY SMTT(30), <1>1 DEF RequestShape
<1>9. Extends(p, T.req[r], b) BY SMTT(30), <1>5, <1>7, <1>8 DEF Extends
<1>10. p.tip \in Listed(x) \cup {Root} /\ PrefixOf(x, p.tip) = SubSeq(p.prompt, 1, k * BlockSize)
  BY SMTT(30), <1>1, <1>2, TipPrefix
<1>11. Insertable(x, p.tip, NextTokens(p), b)
  <2>1. b \notin ListedBlocks(x) BY SMTT(30), <1>7 DEF SharedBlocks
  <2>2. b.prefix = PrefixOf(x, p.tip) \o NextTokens(p) BY <1>6, <1>7, <1>10
  <2> QED BY ZenonT(60), <1>1, <1>6, <1>7, <1>10, <2>1, <2>2 DEF Insertable
<1>12. Gains(x, T.index, NextEntry(x), NewEntry(p.tip, NextTokens(p), b))
  BY <1>1, <1>2, <1>11, InsertGains
<1> QED BY <1>5, <1>7, <1>9, <1>12

\* A request that does not have the new block keeps what it holds.
LEMMA GainHolds ==
    ASSUME NEW x, NEW y, NEW id, NEW e, Gains(x, y, id, e), NEW q, Holds(q, x),
           \A i \in 1 .. Len(q.shared) : q.shared[i] # e.block
    PROVE  Holds(q, y)
<1>1. /\ id \in EntryIds \ Listed(x) /\ Listed(y) = Listed(x) \cup {id}
      /\ y.entries[id].block = e.block /\ y.entries[id].parent = e.parent
      /\ \A o \in Listed(x) : /\ y.entries[o].block = x.entries[o].block
                              /\ y.entries[o].parent = x.entries[o].parent
  BY DEF Gains, SamePlace
<1>2. PathHeld(q, x) /\ TipHeld(q, x) /\ OwnBlocks(q) /\ Sized(q) BY DEF Holds
<1>3. PathHeld(q, y)
  <2>1. SUFFICES ASSUME NEW i \in 1 .. Len(q.shared), NEW o \in Listed(y),
                        y.entries[o].block = q.shared[i]
                 PROVE  IF i = 1 THEN y.entries[o].parent = Root
                        ELSE /\ y.entries[o].parent \in Listed(y)
                             /\ y.entries[y.entries[o].parent].block = q.shared[i - 1]
    BY DEF PathHeld
  <2>2. o \in Listed(x) /\ x.entries[o].block = q.shared[i] BY <1>1, <2>1
  <2>3. IF i = 1 THEN x.entries[o].parent = Root
        ELSE /\ x.entries[o].parent \in Listed(x)
             /\ x.entries[x.entries[o].parent].block = q.shared[i - 1]
    BY <1>2, <2>2 DEF PathHeld
  <2> QED BY <1>1, <2>2, <2>3
<1>4. TipHeld(q, y) BY <1>1, <1>2 DEF TipHeld
<1> QED BY <1>2, <1>3, <1>4 DEF Holds

\* A request that has listed its next block holds it.
LEMMA ListedHolds ==
    ASSUME NEW x, NEW y, Trie(x), NEW id, NEW e, Gains(x, y, id, e), NEW p, Holds(p, x), p.linked,
           NEW q, Extends(p, q, e.block), e.block \notin ListedBlocks(x), e.parent = p.tip,
           q.tip = id, q.length = p.length, q.pending = p.pending, q.state = p.state,
           q.state \in Live, p.pending = 0, (Len(p.shared) + 1) * BlockSize <= p.length,
           \A i \in 1 .. Len(p.shared) : p.shared[i] # e.block
    PROVE  Holds(q, y)
<1> DEFINE k == Len(p.shared)
           b == e.block
<1>1. /\ id \in EntryIds \ Listed(x) /\ Listed(y) = Listed(x) \cup {id}
      /\ y.entries[id].block = b /\ y.entries[id].parent = p.tip
      /\ \A o \in Listed(x) : /\ y.entries[o].block = x.entries[o].block
                              /\ y.entries[o].parent = x.entries[o].parent
  BY DEF Gains, SamePlace
<1>2. PathHeld(p, x) /\ OwnBlocks(p) /\ Sized(p) BY DEF Holds
<1>3. /\ OwnBlocks(q) /\ Len(q.shared) = k + 1 /\ k \in Nat
      /\ q.shared[k + 1] = b /\ q.shared # <<>>
      /\ \A i \in 1 .. k : q.shared[i] = p.shared[i]
  BY <1>2, ExtendsOwn
<1>4. /\ p.shared = <<>> <=> p.tip = Root
      /\ p.shared # <<>> => p.tip \in Listed(x) /\ x.entries[p.tip].block = p.shared[k]
  <2>1. /\ p.tip \in Listed(x) \cup {Root}
        /\ p.shared = <<>> <=> p.tip = Root
        /\ p.shared # <<>> => x.entries[p.tip].block = p.shared[Len(p.shared)]
    BY TipPrefix
  <2> QED BY <2>1
<1>5. k = 0 <=> p.shared = <<>> BY <1>2 DEF OwnBlocks
<1>6. \A o \in Listed(x) : x.entries[o].block # b BY DEF ListedBlocks
<1> HIDE DEF k, b
<1>7. PathHeld(q, y)
  <2>1. SUFFICES ASSUME NEW i \in 1 .. Len(q.shared), NEW o \in Listed(y),
                        y.entries[o].block = q.shared[i]
                 PROVE  IF i = 1 THEN y.entries[o].parent = Root
                        ELSE /\ y.entries[o].parent \in Listed(y)
                             /\ y.entries[y.entries[o].parent].block = q.shared[i - 1]
    BY DEF PathHeld
  <2>2. CASE i = k + 1
    <3>1. o = id BY <1>1, <1>3, <1>6, <2>1, <2>2
    <3>2. CASE k = 0 BY <1>1, <1>4, <1>5, <2>2, <3>1, <3>2
    <3>3. CASE k # 0
      <4>1. i # 1 /\ i - 1 = k /\ k \in 1 .. k BY <1>3, <2>2, <3>3
      <4>2. q.shared[i - 1] = p.shared[k] BY <1>3, <4>1
      <4>3. p.tip \in Listed(x) /\ x.entries[p.tip].block = p.shared[k] BY <1>4, <1>5, <3>3
      <4> QED BY <1>1, <3>1, <4>1, <4>2, <4>3
    <3> QED BY <3>2, <3>3
  <2>3. CASE i # k + 1
    <3>1. i \in 1 .. k /\ (i # 1 => i - 1 \in 1 .. k) BY <1>3, <2>1, <2>3
    <3>2. y.entries[o].block = p.shared[i] BY <1>3, <2>1, <3>1
    <3>3. o \in Listed(x) /\ x.entries[o].block = p.shared[i]
      <4>1. o # id BY <1>1, <3>1, <3>2 DEF k, b
      <4> QED BY <1>1, <3>2, <4>1
    <3>4. IF i = 1 THEN x.entries[o].parent = Root
          ELSE /\ x.entries[o].parent \in Listed(x)
               /\ x.entries[x.entries[o].parent].block = p.shared[i - 1]
      BY <1>2, <3>1, <3>3 DEF PathHeld, k
    <3> QED BY <1>1, <1>3, <3>1, <3>3, <3>4
  <2> QED BY <2>2, <2>3
<1>8. TipHeld(q, y) BY <1>1, <1>3 DEF TipHeld
<1>9. Sized(q)
  <2>1. Len(q.shared) * BlockSize <= q.length BY <1>3 DEF k
  <2> QED BY <1>2, <2>1 DEF Sized
<1> QED BY <1>3, <1>7, <1>8, <1>9 DEF Holds

\* Listing a block turns a private block into a shared one.
LEMMA InsertThrifty ==
    ASSUME NEW S, NEW r \in RequestIds, NEW T, NEW b, ListsInto(S, T, r, b)
    PROVE  Thrifty(S, T)
<1> DEFINE p == S.req[r]
           q == T.req[r]
           x == S.index
           y == T.index
           k == Len(p.shared)
<1>1. SUFFICES ASSUME Cached(S) PROVE Cached(T) /\ FreeBlocks(S) <= FreeBlocks(T)
  BY DEF Thrifty
<1>2. /\ Extends(p, q, b) /\ b \notin SharedBlocks(S) \cup S.suspect
      /\ (k + 1) * BlockSize <= p.length
      /\ Gains(x, y, NextEntry(x), NewEntry(p.tip, NextTokens(p), b))
  BY <1>1, ListsFresh
<1>3. /\ RequestShape(p) /\ p.linked /\ MayList(p) /\ T.suspect = S.suspect
      /\ q = [p EXCEPT !.shared = Append(@, b), !.tip = NextEntry(x)]
      /\ \A o \in RequestIds \ {r} : T.req[o] = S.req[o]
  BY DEF ListsInto
<1>4. /\ q.tip = NextEntry(x) /\ q.length = p.length /\ q.pending = p.pending
      /\ q.state = p.state /\ p.pending = 0 /\ q.state \in Live
  BY <1>3 DEF RequestShape, MayList
<1>5. Trie(x) /\ Trie(y) /\ \A o \in RequestIds : Holds(S.req[o], x)
  BY <1>1, <1>2 DEF Cached, Gains
<1>6. ASSUME NEW o \in RequestIds, NEW i \in 1 .. Len(S.req[o].shared)
      PROVE  S.req[o].shared[i] # b
  <2>1. S.req[o].shared \in Seq(BlockIds) BY <1>5 DEF Holds, OwnBlocks
  <2>2. i \in DOMAIN S.req[o].shared BY <2>1
  <2>3. S.req[o].shared[i] \in ToSet(S.req[o].shared) BY <2>2 DEF ToSet
  <2>4. S.req[o].shared[i] \in SharedBlocks(S) BY <2>3 DEF SharedBlocks, HeldBlocks
  <2> QED BY <1>2, <2>4
<1> DEFINE e == NewEntry(p.tip, NextTokens(p), b)
<1>7. e.block = b /\ e.parent = p.tip BY DEF NewEntry
<1>8. Gains(x, y, NextEntry(x), e) BY <1>2
<1> HIDE DEF e
<1>9. Holds(q, y)
  <2>1. e.block \notin ListedBlocks(x) BY <1>2, <1>7 DEF SharedBlocks
  <2>2. Extends(p, q, e.block) BY <1>2, <1>7
  <2>3. \A i \in 1 .. Len(p.shared) : p.shared[i] # e.block BY <1>6, <1>7
  <2>4. Holds(p, x) BY <1>5
  <2>5. (Len(p.shared) + 1) * BlockSize <= p.length BY <1>2
  <2> HIDE DEF p, q, x, y, k
  <2> QED BY <1>3, <1>4, <1>5, <1>7, <1>8, <2>1, <2>2, <2>3, <2>4, <2>5, ListedHolds
<1>10. ASSUME NEW o \in RequestIds \ {r} PROVE Holds(T.req[o], y)
  <2>1. Holds(S.req[o], x) /\ T.req[o] = S.req[o] BY <1>3, <1>5
  <2>2. \A i \in 1 .. Len(S.req[o].shared) : S.req[o].shared[i] # e.block BY <1>6, <1>7
  <2> QED BY <1>8, <2>1, <2>2, GainHolds
<1>11. ListedBlocks(y) = ListedBlocks(x) \cup {b}
  <2>1. /\ NextEntry(x) \notin Listed(x) /\ Listed(y) = Listed(x) \cup {NextEntry(x)}
        /\ y.entries[NextEntry(x)].block = b
        /\ \A o \in Listed(x) : y.entries[o].block = x.entries[o].block
    BY <1>7, <1>8 DEF Gains, SamePlace
  <2> HIDE DEF x, y
  <2> QED BY <2>1 DEF ListedBlocks
<1>12. Cached(T)
  <2>1. \A o \in RequestIds : Holds(T.req[o], T.index) BY <1>9, <1>10
  <2>2. IsFiniteSet(T.suspect) /\ T.suspect \cap ListedBlocks(T.index) = {}
    BY <1>1, <1>2, <1>3, <1>11 DEF Cached
  <2> QED BY <1>5, <2>1, <2>2 DEF Cached
<1>13. ToSet(q.shared) = ToSet(p.shared) \cup {b} /\ Len(q.shared) = k + 1 /\ k \in Nat
  <2>1. OwnBlocks(p) /\ Extends(p, q, b) BY <1>2, <1>5 DEF Holds
  <2> HIDE DEF p, q
  <2>2. /\ ToSet(q.shared) = ToSet(p.shared) \cup {b} /\ Len(q.shared) = Len(p.shared) + 1
        /\ Len(p.shared) \in Nat
    BY <2>1, ExtendsOwn
  <2> QED BY <2>2
<1>14. SharedBlocks(T) = SharedBlocks(S) \cup {b}
  <2>1. HeldBlocks(T) = HeldBlocks(S) \cup {b}
    <3>1. \A o \in RequestIds : ToSet(T.req[o].shared)
                                  = IF o = r THEN ToSet(S.req[o].shared) \cup {b}
                                             ELSE ToSet(S.req[o].shared)
      BY <1>3, <1>13
    <3> HIDE DEF p, q
    <3> QED BY <3>1 DEF HeldBlocks
  <2> QED BY <1>11, <2>1 DEF SharedBlocks
<1>15. Cardinality(SharedBlocks(T)) = Cardinality(SharedBlocks(S)) + 1
  <2>1. IsFiniteSet(SharedBlocks(S)) /\ b \notin SharedBlocks(S) BY <1>1, <1>2, BlocksFinite
  <2> QED BY <1>14, <2>1, FS_AddElement
<1>16. PrivateBlocks(p) = PrivateBlocks(q) + 1
  <2>1. Holds(p, x) /\ p.pending = 0 /\ q.pending = 0 BY <1>4, <1>5
  <2>2. /\ PrivateBlocks(p) = BlocksForLength(p.length) - Len(p.shared)
        /\ PrivateBlocks(q) = BlocksForLength(q.length) - Len(q.shared)
        /\ BlocksForLength(p.length) \in Nat
    BY <1>9, <2>1, SharedPrivate
  <2> QED BY <1>4, <1>13, <2>2
<1>17. Part(PrivateOf(S), RequestIds) = Part(PrivateOf(T), RequestIds) + 1
  <2> DEFINE f == PrivateOf(S)
             g == PrivateOf(T)
             D == RequestIds
  <2>1. \A o \in D : f[o] \in Int /\ g[o] \in Int
    <3>1. SUFFICES ASSUME NEW o \in D PROVE f[o] \in Int /\ g[o] \in Int OBVIOUS
    <3>2. f[o] \in Nat BY <1>1, BlocksFinite
    <3>3. g[o] \in Nat BY <1>12, BlocksFinite
    <3> QED BY <3>2, <3>3
  <2>2. \A o \in D \ {r} : g[o] = f[o] BY <1>3 DEF PrivateOf
  <2>3. f[r] = g[r] + 1 BY <1>16 DEF PrivateOf
  <2> HIDE DEF f, g
  <2>4. Part(f, D) = f[r] + Part(g, D \ {r}) /\ Part(g, D \ {r}) \in Int
    BY <2>1, <2>2, RequestsFinite, PartTakes
  <2>5. Part(g, D) = g[r] + Part(g, D \ {r})
    BY <2>1, RequestsFinite, PartTakes
  <2> QED BY <2>1, <2>3, <2>4, <2>5 DEF f, g
<1>18. FreeBlocks(S) <= FreeBlocks(T)
  <2>1. /\ FreeBlocks(S) = TotalBlocks - AllocatedBlocks(S) /\ FreeBlocks(S) \in Int
        /\ AllocatedBlocks(S) = Part(PrivateOf(S), RequestIds) + Cardinality(SharedBlocks(S))
        /\ Part(PrivateOf(S), RequestIds) \in Int /\ Cardinality(SharedBlocks(S)) \in Nat
    BY <1>1, BlocksFinite
  <2>2. /\ FreeBlocks(T) = TotalBlocks - AllocatedBlocks(T) /\ FreeBlocks(T) \in Int
        /\ AllocatedBlocks(T) = Part(PrivateOf(T), RequestIds) + Cardinality(SharedBlocks(T))
        /\ Part(PrivateOf(T), RequestIds) \in Int
    BY <1>12, BlocksFinite
  <2> QED BY SMTT(30), <1>15, <1>17, <2>1, <2>2, ConfigAssumption
<1> QED BY <1>12, <1>18

\* One entry less leaves room.
LEMMA LoseRoom ==
    ASSUME NEW x, Trie(x), NEW y, NEW id, Loses(x, y, id)
    PROVE  HasRoom(y) /\ Cardinality(Listed(y)) = Cardinality(Listed(x)) - 1
           /\ Cardinality(Listed(x)) \in Nat /\ Cardinality(Listed(x)) <= Capacity
<1>1. id \in Listed(x) /\ Listed(y) = Listed(x) \ {id} BY DEF Loses
<1>2. Listed(x) \in SUBSET EntryIds /\ IsFiniteSet(Listed(x)) BY ListedAre DEF Trie
<1>3. Cardinality(Listed(x)) <= Capacity BY <1>2, EntryIdsAre, FS_Subset
<1>4. Cardinality(Listed(y)) = Cardinality(Listed(x)) - 1 BY <1>1, <1>2, FS_RemoveElement
<1>5. Cardinality(Listed(x)) \in Nat BY <1>2, FS_CardinalityType
<1> QED BY <1>3, <1>4, <1>5, CapacityAssumption DEF HasRoom

\* T is S with the room publish_prompt_blocks makes.
Rooms(S, T) ==
    /\ Reindexed(S, T)
    /\ \/ T.index = S.index
       \/ \E id \in Evictable(S.index, HeldBlocks(S)) : Loses(S.index, T.index, id)

\* An index with one entry less, or the same, finds no more.
LEMMA RoomsThrifty ==
    ASSUME NEW S, Cached(S), NEW T, Rooms(S, T)
    PROVE  /\ Thrifty(S, T)
           /\ \A parent, tokens : Find(S.index, parent, tokens) = {}
                                    => Find(T.index, parent, tokens) = {}
<1>1. CASE T.index = S.index
  <2>1. Touches(S.index, T.index) BY <1>1 DEF Touches, Cached
  <2> QED BY <1>1, <2>1, TouchThrifty DEF Rooms
<1>2. ASSUME NEW id \in Evictable(S.index, HeldBlocks(S)), Loses(S.index, T.index, id)
      PROVE  /\ Thrifty(S, T)
             /\ \A parent, tokens : Find(S.index, parent, tokens) = {}
                                      => Find(T.index, parent, tokens) = {}
  <2>1. S.index.entries[id].block \notin HeldBlocks(S) BY <1>2 DEF Evictable
  <2>2. Thrifty(S, T) BY <1>2, <2>1, LoseThrifty DEF Rooms
  <2>3. \A o \in Listed(T.index) :
          /\ o \in Listed(S.index) /\ T.index.entries[o].parent = S.index.entries[o].parent
          /\ T.index.entries[o].tokens = S.index.entries[o].tokens
    BY <1>2 DEF Loses, SamePlace
  <2> QED BY <2>2, <2>3 DEF Find
<1> QED BY <1>1, <1>2 DEF Rooms

\* Publishing one more block, after making room for it.
LEMMA ListThrifty ==
    ASSUME NEW S, Shape(S), NEW r \in RequestIds, NEW T, Lists(S, T, r), MayList(S.req[r])
    PROVE  Thrifty(S, T)
<1> DEFINE U == [S EXCEPT !.index = RoomIn(S)]
           b == ListedOf(S, S.req[r])
           p == S.req[r]
<1>1. SUFFICES ASSUME Cached(S) PROVE Thrifty(S, T)
  BY DEF Thrifty
<1>2. U.req = S.req /\ U.suspect = S.suspect /\ U.index = RoomIn(S)
  BY IndexMoves DEF Reindexes, Moves, SameQueues
<1>3. b = NewSharedBlock(U, SubSeq(p.prompt, 1, (Len(p.shared) + 1) * BlockSize))
  BY DEF ListedOf
<1> HIDE DEF U, b
<1>4. /\ p.linked /\ ~(Len(p.shared) >= p.cursor \div BlockSize)
      /\ Find(S.index, p.tip, NextTokens(p)) = {}
      /\ HasRoom(S.index) \/ CanEvict(S.index, HeldBlocks(S))
      /\ T.index = Insert(RoomIn(S), p.tip, NextTokens(p), b)
      /\ T.req[r] = [p EXCEPT !.shared = Append(@, b), !.tip = NextEntry(RoomIn(S))]
      /\ \A o \in RequestIds \ {r} : T.req[o] = S.req[o]
      /\ T.suspect = S.suspect
  BY DEF Lists, Moves, SameQueues, b
<1>5. Rooms(S, U) /\ HasRoom(U.index)
  <2>1. Trie(S.index) BY <1>1 DEF Cached
  <2>2. CASE HasRoom(S.index)
    <3>1. RoomIn(S) = S.index BY <2>2 DEF RoomIn
    <3> QED BY <1>2, <2>2, <3>1 DEF Rooms, Reindexed
  <2>3. CASE ~HasRoom(S.index)
    <3>1. RoomIn(S) = EvictOne(S.index, HeldBlocks(S)) BY <2>3 DEF RoomIn
    <3>2. PICK id \in Evictable(S.index, HeldBlocks(S)) :
                 Loses(S.index, EvictOne(S.index, HeldBlocks(S)), id)
      BY <1>4, <2>1, <2>3, EvictOneLoses
    <3>3. Loses(S.index, U.index, id) BY <1>2, <3>1, <3>2
    <3>4. HasRoom(U.index) BY <2>1, <3>3, LoseRoom
    <3> QED BY <1>2, <3>3, <3>4 DEF Rooms, Reindexed
  <2> QED BY <2>2, <2>3
<1>6. Thrifty(S, U) /\ Find(U.index, p.tip, NextTokens(p)) = {}
  <2>1. /\ Thrifty(S, U)
        /\ \A parent, tokens : Find(S.index, parent, tokens) = {}
                                 => Find(U.index, parent, tokens) = {}
    BY <1>1, <1>5, RoomsThrifty
  <2> QED BY <1>4, <2>1
<1>7. ListsInto(U, T, r, b)
  <2>1. RequestShape(p) /\ U.req[r] = p BY <1>2 DEF Shape
  <2> QED BY <1>2, <1>3, <1>4, <1>5, <1>6, <2>1 DEF ListsInto
<1>8. Thrifty(U, T) BY <1>7, InsertThrifty
<1> QED BY <1>6, <1>8, ThriftyTwice

-----------------------------------------------------------------------------
(* The loops, as far as trie and blocks go.                                *)

\* A request that ends gives its blocks back.
LEMMA FinishThrifty ==
    ASSUME NEW S, Shape(S), NEW r \in RequestIds, NEW reason \in Reasons
    PROVE  Thrifty(S, Finish(S, r, reason)) /\ Shape(Finish(S, r, reason))
<1> DEFINE T == Finish(S, r, reason)
<1>1. Without(S, T, r, reason) BY FinishIs
<1> HIDE DEF T
<1>2. /\ Shape(T) /\ T.index = S.index /\ T.suspect = S.suspect
      /\ T.req[r] = Ended(reason) /\ \A o \in RequestIds \ {r} : T.req[o] = S.req[o]
  BY <1>1 DEF Without
<1>3. Bare(Ended(reason)) BY DEF Bare, Ended, NoRequest
<1>4. ASSUME Cached(S) PROVE Mild(S, T)
  <2>1. ASSUME NEW o \in RequestIds PROVE Milder(S.req[o], T.req[o])
    <3>1. Milder(S.req[o], S.req[o]) BY <1>4, MilderSelf DEF Cached
    <3>2. CASE o = r BY <1>2, <1>3, <3>2 DEF Milder
    <3>3. CASE o # r BY <1>2, <3>1, <3>3
    <3> QED BY <3>2, <3>3
  <2> QED BY <1>2, <2>1 DEF Mild
<1> QED BY <1>2, <1>4, MildThrifty DEF T

\* So do requests that end one after the other.
LEMMA FinishThoseThrifty ==
    ASSUME NEW S, Shape(S), NEW rs \in Seq(RequestIds), NEW which, NEW reason \in Reasons
    PROVE  /\ Thrifty(S, FinishThose(S, rs, which, reason))
           /\ Shape(FinishThose(S, rs, which, reason))
<1> DEFINE N == Len(rs)
<1>1. N \in Nat OBVIOUS
<1>2. PICK turn : FinishThoseTurns(turn, S, rs, which, reason) BY <1>1, FinishThoseTurnsExist
<1> DEFINE W == {n \in 0 .. N : Thrifty(S, turn[n]) /\ Shape(turn[n])}
<1>3. 0 \in W BY <1>1, <1>2, ThriftyNot DEF FinishThoseTurns
<1>4. ASSUME NEW n \in 0 .. N - 1, n \in W PROVE n + 1 \in W
  <2>1. Thrifty(S, turn[n]) /\ Shape(turn[n]) BY <1>4
  <2>2. n + 1 \in 1 .. N /\ (n + 1) - 1 = n /\ rs[n + 1] \in RequestIds BY <1>1
  <2>3. turn[n + 1] = FinishIf(turn[n], rs[n + 1], which, reason)
    BY <1>2, <2>2 DEF FinishThoseTurns
  <2>4. Thrifty(turn[n], turn[n + 1]) /\ Shape(turn[n + 1])
    BY <2>1, <2>2, <2>3, FinishThrifty, ThriftyNot DEF FinishIf
  <2>5. Thrifty(S, turn[n + 1]) BY <2>1, <2>4, ThriftyTwice
  <2> QED BY <1>1, <2>2, <2>4, <2>5
<1>5. N \in W
  <2> HIDE DEF W, N
  <2>1. \A n \in 0 .. N : n \in W BY <1>1, <1>3, <1>4, CountUp
  <2> QED BY <1>1, <2>1
<1> QED BY <1>2, <1>5 DEF FinishThoseTurns

\* Admitting a request changes nothing it holds.
LEMMA AdmitsHeadThrifty ==
    ASSUME NEW S, Shape(S), Head(S.waiting) \in RequestIds, NEW T, AdmitsHead(S, T)
    PROVE  Thrifty(S, T)
<1> DEFINE r == Head(S.waiting)
<1>1. /\ T.index = S.index /\ T.suspect = S.suspect
      /\ T.req[r] = [S.req[r] EXCEPT !.state = "admitted"]
      /\ \A o \in RequestIds \ {r} : T.req[o] = S.req[o]
  BY DEF AdmitsHead
<1>2. RequestShape(S.req[r]) BY DEF Shape
<1>3. "admitted" \in Live BY DEF Live, Active
<1> HIDE DEF r
<1>4. /\ T.req[r].shared = S.req[r].shared /\ T.req[r].tip = S.req[r].tip
      /\ T.req[r].prompt = S.req[r].prompt /\ T.req[r].linked = S.req[r].linked
      /\ T.req[r].length = S.req[r].length /\ T.req[r].pending = S.req[r].pending
      /\ T.req[r].state = "admitted"
  BY <1>1, <1>2 DEF RequestShape
<1>5. ASSUME Cached(S) PROVE Mild(S, T)
  <2>1. ASSUME NEW o \in RequestIds PROVE Milder(S.req[o], T.req[o])
    <3>1. Holds(S.req[o], S.index) BY <1>5 DEF Cached
    <3>2. CASE o = r BY <1>3, <1>4, <3>1, <3>2, MilderSelf
    <3>3. CASE o # r BY <1>1, <3>1, <3>3, MilderSelf
    <3> QED BY <3>2, <3>3
  <2> QED BY <1>1, <2>1 DEF Mild
<1> QED BY <1>5, MildThrifty

\* Nor does admit_waiting.
LEMMA AdmitWaitingThrifty ==
    ASSUME NEW S, NEW d, Control(S, d)
    PROVE  Thrifty(S, AdmitWaiting(S))
<1> DEFINE N == Len(S.waiting)
<1>1. N \in Nat
  <2>1. S.waiting \in Seq(RequestIds) BY DEF Control, Queues
  <2> QED BY <2>1
<1>2. PICK turn : AdmitWaitingTurns(turn, S) BY <1>1, AdmitWaitingTurnsExist
<1> DEFINE W == {n \in 0 .. N : Thrifty(S, turn[n]) /\ Control(turn[n], d)}
<1>3. 0 \in W BY <1>1, <1>2, ThriftyNot DEF AdmitWaitingTurns
<1>4. ASSUME NEW n \in 0 .. N - 1, n \in W PROVE n + 1 \in W
  <2> DEFINE T == turn[n]
             U == turn[n + 1]
  <2>1. Thrifty(S, T) /\ Control(T, d) /\ n + 1 \in 1 .. N /\ (n + 1) - 1 = n BY <1>1, <1>4
  <2>2. U = AdmitNext(T) BY <1>2, <2>1 DEF AdmitWaitingTurns
  <2> HIDE DEF T, U, W
  <2>3. T.waiting # <<>> => Head(T.waiting) \in RequestIds BY <2>1, HeadWaits
  <2>4. U = T \/ AdmitsHead(T, U) BY <2>1, <2>2, <2>3, AdmitNextIs DEF Control
  <2>5. CASE AdmitsHead(T, U)
    <3>1. Control(U, d) BY <2>1, <2>5, AdmitsHeadControl
    <3>2. Shape(T) /\ Head(T.waiting) \in RequestIds BY <2>1, <2>3, <2>5 DEF Control, AdmitsHead
    <3>3. Thrifty(T, U) BY <2>5, <3>2, AdmitsHeadThrifty
    <3>4. Thrifty(S, U) BY <2>1, <3>3, ThriftyTwice
    <3> QED BY <1>1, <2>1, <3>1, <3>4 DEF W, U
  <2>6. CASE U = T BY <1>1, <2>1, <2>6 DEF W, U
  <2> QED BY <2>4, <2>5, <2>6
<1>5. N \in W
  <2> HIDE DEF W, N
  <2>1. \A n \in 0 .. N : n \in W BY <1>1, <1>3, <1>4, CountUp
  <2> QED BY <1>1, <2>1
<1> QED BY <1>2, <1>5 DEF AdmitWaitingTurns

\* T is S after the path to the tip of request r was touched.
LEMMA TouchTip ==
    ASSUME NEW S, Shape(S), NEW r \in RequestIds,
           Cached(S) => S.req[r].tip \in Listed(S.index) \cup {Root}
    PROVE  Thrifty(S, [S EXCEPT !.index = TouchPath(@, S.req[r].tip)])
<1> DEFINE x == TouchPath(S.index, S.req[r].tip)
           T == [S EXCEPT !.index = x]
<1>1. SUFFICES ASSUME Cached(S) PROVE Thrifty(S, T) BY DEF Thrifty
<1>2. Reindexed(S, T) /\ T.index = x
  <2> HIDE DEF x
  <2>1. Reindexes(S, T) /\ T.index = x BY IndexMoves
  <2> HIDE DEF T
  <2> QED BY <2>1 DEF Reindexes, Reindexed, Moves, SameQueues
<1>3. Trie(S.index) /\ S.req[r].tip \in Listed(S.index) \cup {Root} BY <1>1 DEF Cached
<1>4. Touches(S.index, x) BY <1>3, TouchPathTouches
<1> HIDE DEF x, T
<1> QED BY <1>2, <1>4, TouchThrifty

\* The tip of a request that may still publish is listed, or the root.
LEMMA LinkedTip ==
    ASSUME NEW S, NEW r \in RequestIds, S.req[r].linked
    PROVE  Cached(S) => S.req[r].tip \in Listed(S.index) \cup {Root}
  BY TipPrefix DEF Cached

\* The adoption loop of a request.
LEMMA AdoptBlocksThrifty ==
    ASSUME NEW S, Shape(S), PromptsAreSeqs(S), NEW r \in RequestIds,
           Rest(S.req[r]), S.req[r].state = "admitted", S.req[r].linked
    PROVE  Thrifty(S, AdoptBlocks(S, r)) /\ AdoptBlocks(S, r).req[r].linked
<1> DEFINE N == Len(S.req[r].prompt)
<1>1. N \in Nat BY DEF PromptsAreSeqs
<1>2. PICK turn : AdoptBlocksTurns(turn, S, r) BY <1>1, AdoptBlocksTurnsExist
<1> DEFINE W == {n \in 0 .. N : /\ AdoptsIn(S, turn[n], r) /\ Thrifty(S, turn[n])
                                /\ turn[n].req[r].linked}
<1>3. 0 \in W BY <1>1, <1>2, DriftsInNot, ThriftyNot DEF AdoptBlocksTurns
<1>4. ASSUME NEW n \in 0 .. N - 1, n \in W PROVE n + 1 \in W
  <2> DEFINE T == turn[n]
             U == turn[n + 1]
  <2>1. /\ AdoptsIn(S, T, r) /\ Thrifty(S, T) /\ T.req[r].linked
        /\ n + 1 \in 1 .. N /\ (n + 1) - 1 = n
    BY <1>1, <1>4
  <2>2. U = AdoptNext(T, r) BY <1>2, <2>1 DEF AdoptBlocksTurns
  <2> HIDE DEF T, U, W
  <2>3. Shape(T) /\ Rest(T.req[r]) /\ T.req[r].state = "admitted"
    BY <2>1 DEF AdoptsIn, DriftsIn, Drifts, Moves
  <2>4. U = T \/ \E id : Adopts(T, U, r, id) BY <2>2, <2>3, AdoptNextIs
  <2>5. ASSUME NEW id, Adopts(T, U, r, id) PROVE n + 1 \in W
    <3>1. AdoptsIn(S, U, r) BY <2>1, <2>3, <2>5, StepsDriftIn, DriftsInTwice
    <3>2. Thrifty(S, U)
      <4>1. Thrifty(T, U) BY <2>1, <2>3, <2>5, AdoptThrifty
      <4> QED BY <2>1, <4>1, ThriftyTwice
    <3>3. U.req[r].linked
      <4>1. RequestShape(T.req[r]) /\ U.req[r] = AdoptedOf(T, T.req[r], id)
        BY <2>3, <2>5 DEF Adopts, Shape
      <4>2. U.req[r].linked = T.req[r].linked BY <4>1 DEF AdoptedOf, RequestShape
      <4> QED BY <2>1, <4>2
    <3> QED BY <1>1, <2>1, <3>1, <3>2, <3>3 DEF W, U
  <2>6. CASE U = T BY <1>1, <2>1, <2>6 DEF W, U
  <2> QED BY <2>4, <2>5, <2>6
<1>5. N \in W
  <2> HIDE DEF W, N
  <2>1. \A n \in 0 .. N : n \in W BY <1>1, <1>3, <1>4, CountUp
  <2> QED BY <1>1, <2>1
<1> QED BY <1>2, <1>5 DEF AdoptBlocksTurns

\* adopt_cached_prefix of a request at rest.
LEMMA AdoptCachedPrefixThrifty ==
    ASSUME NEW S, Shape(S), PromptsAreSeqs(S), NEW r \in RequestIds, Rest(S.req[r])
    PROVE  Thrifty(S, AdoptCachedPrefix(S, r))
<1>1. CASE S.req[r].state # "admitted" \/ ~S.req[r].linked
  BY <1>1, ThriftyNot DEF AdoptCachedPrefix
<1>2. CASE ~(S.req[r].state # "admitted" \/ ~S.req[r].linked)
  <2> DEFINE T == AdoptBlocks(S, r)
  <2>1. Thrifty(S, T) /\ T.req[r].linked BY <1>2, AdoptBlocksThrifty
  <2>2. Shape(T) BY AdoptBlocksDrifts DEF AdoptsIn, DriftsIn, Drifts, Moves
  <2>3. \/ AdoptCachedPrefix(S, r) = T
        \/ AdoptCachedPrefix(S, r) = [T EXCEPT !.index = TouchPath(@, T.req[r].tip)]
    BY <1>2 DEF AdoptCachedPrefix
  <2> HIDE DEF T
  <2>4. Thrifty(T, [T EXCEPT !.index = TouchPath(@, T.req[r].tip)])
    BY <2>1, <2>2, LinkedTip, TouchTip
  <2> QED BY <2>1, <2>3, <2>4, ThriftyTwice
<1> QED BY <1>1, <1>2

\* Adopting for every live request.
LEMMA AdoptCachedPrefixesThrifty ==
    ASSUME NEW S, Shape(S), PromptsAreSeqs(S), S.requests \in Seq(RequestIds), AllRest(S)
    PROVE  Thrifty(S, AdoptCachedPrefixes(S))
<1> DEFINE N == Len(S.requests)
<1>1. N \in Nat OBVIOUS
<1>2. PICK turn : AdoptTurns(turn, S) BY <1>1, AdoptTurnsExist
<1> DEFINE W == {n \in 0 .. N : /\ Drifts(S, turn[n]) /\ KeepsRest(S, turn[n])
                                /\ Thrifty(S, turn[n])}
<1>3. 0 \in W BY <1>1, <1>2, DriftsNot, ThriftyNot DEF AdoptTurns, KeepsRest
<1>4. ASSUME NEW n \in 0 .. N - 1, n \in W PROVE n + 1 \in W
  <2>1. /\ Drifts(S, turn[n]) /\ Shape(turn[n]) /\ KeepsRest(S, turn[n]) /\ Thrifty(S, turn[n])
    BY <1>4 DEF Drifts, Moves
  <2>2. PromptsAreSeqs(turn[n]) BY <2>1 DEF PromptsAreSeqs, Drifts, Moves, Alike
  <2>3. n + 1 \in 1 .. N /\ (n + 1) - 1 = n /\ S.requests[n + 1] \in RequestIds BY <1>1
  <2>4. turn[n + 1] = AdoptCachedPrefix(turn[n], S.requests[n + 1])
    BY <1>2, <2>3 DEF AdoptTurns
  <2>5. Drifts(turn[n], turn[n + 1]) /\ KeepsRest(turn[n], turn[n + 1])
    BY <2>1, <2>2, <2>3, <2>4, AdoptCachedPrefixDrifts DEF DriftsIn
  <2>6. Drifts(S, turn[n + 1]) BY <2>1, <2>5, DriftsTwice
  <2>7. KeepsRest(S, turn[n + 1]) BY <2>1, <2>5 DEF KeepsRest
  <2>8. Rest(turn[n].req[S.requests[n + 1]]) BY <2>1, <2>3 DEF KeepsRest, AllRest
  <2>9. Thrifty(turn[n], turn[n + 1])
    BY <2>1, <2>2, <2>3, <2>4, <2>8, AdoptCachedPrefixThrifty
  <2>10. Thrifty(S, turn[n + 1]) BY <2>1, <2>9, ThriftyTwice
  <2> QED BY <1>1, <2>3, <2>6, <2>7, <2>10
<1>5. N \in W
  <2> HIDE DEF W, N
  <2>1. \A n \in 0 .. N : n \in W BY <1>1, <1>3, <1>4, CountUp
  <2> QED BY <1>1, <2>1
<1> QED BY <1>2, <1>5 DEF AdoptTurns

\* What plan_iteration does before it selects.
LEMMA RefreshedThrifty ==
    ASSUME NEW S, NEW d, Control(S, d), AllRest(S), NEW expired \in 0 .. Len(S.waiting)
    PROVE  Thrifty(S, Refreshed(S, expired))
<1> DEFINE rs == SubSeq(S.waiting, 1, expired)
           A == ExpireWaiting(S, expired)
           B == AdmitWaiting(A)
           C == AdoptCachedPrefixes(B)
<1>1. rs \in Seq(RequestIds) /\ "admission_timeout" \in Reasons
  <2>1. S.waiting \in Seq(RequestIds) BY DEF Control, Queues
  <2> QED BY <2>1 DEF Reasons
<1>2. A = FinishThose(S, rs, ToSet(rs), "admission_timeout")
  BY DEF ExpireWaiting, FinishAll
<1>3. Expires(S, A, d) BY ExpireWaitingControl
<1> HIDE DEF rs, A
<1>4. Thrifty(S, A) /\ Control(A, d) /\ KeepsRest(S, A)
  BY <1>1, <1>2, <1>3, FinishThoseThrifty DEF Control, Expires
<1>5. Thrifty(A, B) /\ Admitting(A, B, d) BY <1>4, AdmitWaitingThrifty, AdmitWaitingControl
<1> HIDE DEF B
<1>6. Control(B, d) /\ KeepsRest(A, B) BY <1>4, <1>5, AdmittingRests DEF Control, Admitting
<1>7. AllRest(B) BY <1>4, <1>6 DEF AllRest, KeepsRest
<1>8. Thrifty(B, C)
  <2>1. Shape(B) /\ PromptsAreSeqs(B) /\ B.requests \in Seq(RequestIds)
    BY <1>6 DEF Control, Queues
  <2> QED BY <1>7, <2>1, AdoptCachedPrefixesThrifty
<1>9. Refreshed(S, expired) = C BY DEF Refreshed, A, B
<1> HIDE DEF C
<1>10. Thrifty(A, C) BY <1>5, <1>8, ThriftyTwice
<1> QED BY <1>4, <1>9, <1>10, ThriftyTwice

\* One request becomes milder.
LEMMA MildOne ==
    ASSUME NEW S, NEW r \in RequestIds, NEW T, T.index = S.index, T.suspect = S.suspect,
           \A o \in RequestIds \ {r} : T.req[o] = S.req[o],
           Holds(S.req[r], S.index) => Milder(S.req[r], T.req[r])
    PROVE  Thrifty(S, T)
<1>1. ASSUME Cached(S) PROVE Mild(S, T)
  <2>1. ASSUME NEW o \in RequestIds PROVE Milder(S.req[o], T.req[o])
    <3>1. Holds(S.req[o], S.index) BY <1>1 DEF Cached
    <3>2. CASE o = r BY <3>1, <3>2
    <3>3. CASE o # r BY <3>1, <3>3, MilderSelf
    <3> QED BY <3>2, <3>3
  <2> QED BY <2>1 DEF Mild
<1> QED BY <1>1, MildThrifty

\* p and q hold the same.
SameHold(p, q) ==
    /\ q.shared = p.shared /\ q.tip = p.tip /\ q.prompt = p.prompt /\ q.linked = p.linked
    /\ q.length = p.length /\ q.pending = p.pending
    /\ q.state = p.state \/ q.state \in Live

\* A request that holds the same is no less mild.
LEMMA SameHoldMilder ==
    ASSUME NEW p, NEW q, SameHold(p, q), NEW x
    PROVE  Holds(p, x) => Milder(p, q)
<1>1. SUFFICES ASSUME Holds(p, x) PROVE Milder(p, q) OBVIOUS
<1>2. /\ q.shared = p.shared /\ q.tip = p.tip /\ q.prompt = p.prompt
      /\ q.linked => p.linked
      /\ q.length = p.length /\ q.pending = p.pending
      /\ q.state = p.state \/ q.state \in Live
  BY DEF SameHold
<1> QED BY <1>1, <1>2, MilderSelf

\* The tip of request r is listed once it shares more than it did in S.
TipListed(S, T, r) ==
    \/ T.req[r].shared = S.req[r].shared
    \/ T.req[r].tip \in Listed(T.index) \cup {Root}

\* A request that loses its link holds what it held.
LEMMA UnlinkThrifty ==
    ASSUME NEW S, Shape(S), NEW r \in RequestIds, NEW T, Unlinks(S, T, r)
    PROVE  Thrifty(S, T) /\ \A R : TipListed(R, S, r) => TipListed(R, T, r)
<1>1. /\ T.index = S.index /\ T.suspect = S.suspect
      /\ T.req[r] = [S.req[r] EXCEPT !.linked = FALSE]
      /\ \A o \in RequestIds \ {r} : T.req[o] = S.req[o]
  BY DEF Unlinks, Moves, SameQueues
<1>2. RequestShape(S.req[r]) BY DEF Shape
<1>3. /\ T.req[r].shared = S.req[r].shared /\ T.req[r].tip = S.req[r].tip
      /\ T.req[r].prompt = S.req[r].prompt /\ T.req[r].linked = FALSE
      /\ T.req[r].length = S.req[r].length /\ T.req[r].pending = S.req[r].pending
      /\ T.req[r].state = S.req[r].state
  BY <1>1, <1>2 DEF RequestShape
<1>4. Holds(S.req[r], S.index) => Milder(S.req[r], T.req[r]) BY <1>3, MilderSelf
<1>5. Thrifty(S, T) BY <1>1, <1>4, MildOne
<1> QED BY <1>1, <1>3, <1>5 DEF TipListed

\* The publication loop of a request.
LEMMA PublishBlocksThrifty ==
    ASSUME NEW S, Shape(S), PromptsAreSeqs(S), NEW r \in RequestIds, MayList(S.req[r])
    PROVE  /\ Thrifty(S, PublishBlocks(S, r))
           /\ Cached(S) => TipListed(S, PublishBlocks(S, r), r)
<1> DEFINE N == Len(S.req[r].prompt)
<1>1. N \in Nat BY DEF PromptsAreSeqs
<1>2. PICK turn : PublishBlocksTurns(turn, S, r) BY <1>1, PublishBlocksTurnsExist
<1> DEFINE W == {n \in 0 .. N : /\ PublishesIn(S, turn[n], r) /\ Thrifty(S, turn[n])
                                /\ Cached(S) => TipListed(S, turn[n], r)}
<1>3. 0 \in W BY <1>1, <1>2, DriftsInNot, ThriftyNot DEF PublishBlocksTurns, TipListed
<1>4. ASSUME NEW n \in 0 .. N - 1, n \in W PROVE n + 1 \in W
  <2> DEFINE T == turn[n]
             U == turn[n + 1]
  <2>1. /\ PublishesIn(S, T, r) /\ Thrifty(S, T)
        /\ Cached(S) => TipListed(S, T, r)
        /\ n + 1 \in 1 .. N /\ (n + 1) - 1 = n
    BY <1>1, <1>4
  <2>2. U = PublishNext(T, r) BY <1>2, <2>1 DEF PublishBlocksTurns
  <2> HIDE DEF T, U, W
  <2>3. Shape(T) /\ Alike(S.req[r], T.req[r]) BY <2>1 DEF PublishesIn, DriftsIn, Drifts, Moves
  <2>4. MayList(T.req[r])
    <3>1. /\ T.req[r].state = S.req[r].state /\ T.req[r].pending = S.req[r].pending
          /\ T.req[r].cursor = S.req[r].cursor /\ T.req[r].length = S.req[r].length
          /\ T.req[r].prompt = S.req[r].prompt
      BY <2>1, <2>3 DEF PublishesIn, DriftsIn, Alike
    <3> QED BY <3>1 DEF MayList
  <2>5. U = T \/ Unlinks(T, U, r) \/ Lists(T, U, r) BY <2>2, <2>3, PublishNextIs
  <2>6. CASE U = T BY <1>1, <2>1, <2>6 DEF W, U
  <2>7. CASE Unlinks(T, U, r)
    <3>1. PublishesIn(S, U, r) BY <2>1, <2>3, <2>7, StepsDriftIn, DriftsInTwice
    <3>2. Thrifty(T, U) /\ (TipListed(S, T, r) => TipListed(S, U, r))
      BY <2>3, <2>7, UnlinkThrifty
    <3>3. Thrifty(S, U) BY <2>1, <3>2, ThriftyTwice
    <3> QED BY <1>1, <2>1, <3>1, <3>2, <3>3 DEF W, U
  <2>8. CASE Lists(T, U, r)
    <3>1. PublishesIn(S, U, r) BY <2>1, <2>3, <2>8, StepsDriftIn, DriftsInTwice
    <3>2. Thrifty(T, U) BY <2>3, <2>4, <2>8, ListThrifty
    <3>3. Thrifty(S, U) BY <2>1, <3>2, ThriftyTwice
    <3>4. U.req[r].linked
      <4>1. /\ RequestShape(T.req[r]) /\ T.req[r].linked
            /\ U.req[r] = [T.req[r] EXCEPT !.shared = Append(@, ListedOf(T, T.req[r])),
                                           !.tip = NextEntry(RoomIn(T))]
        BY <2>3, <2>8 DEF Lists, Shape
      <4>2. U.req[r].linked = T.req[r].linked BY <4>1 DEF RequestShape
      <4> QED BY <4>1, <4>2
    <3>5. Cached(S) => TipListed(S, U, r) BY <3>3, <3>4, LinkedTip DEF Thrifty, TipListed
    <3> QED BY <1>1, <2>1, <3>1, <3>3, <3>5 DEF W, U
  <2> QED BY <2>5, <2>6, <2>7, <2>8
<1>5. N \in W
  <2> HIDE DEF W, N
  <2>1. \A n \in 0 .. N : n \in W BY <1>1, <1>3, <1>4, CountUp
  <2> QED BY <1>1, <2>1
<1> QED BY <1>2, <1>5 DEF PublishBlocksTurns

\* publish_prompt_blocks.
LEMMA PublishPromptBlocksThrifty ==
    ASSUME NEW S, Shape(S), PromptsAreSeqs(S), NEW r \in RequestIds, MayList(S.req[r])
    PROVE  Thrifty(S, PublishPromptBlocks(S, r))
<1> DEFINE T == PublishBlocks(S, r)
           U == PublishPromptBlocks(S, r)
<1>1. SUFFICES ASSUME Cached(S) PROVE Thrifty(S, U) BY DEF Thrifty
<1>2. Thrifty(S, T) /\ TipListed(S, T, r) BY <1>1, PublishBlocksThrifty
<1>3. Shape(T) BY PublishBlocksDrifts DEF PublishesIn, DriftsIn, Drifts, Moves
<1>4. \/ U = S \/ U = T
      \/ T.req[r].shared # S.req[r].shared /\ U = [T EXCEPT !.index = TouchPath(@, T.req[r].tip)]
  BY DEF PublishPromptBlocks
<1> HIDE DEF T, U
<1>5. CASE T.req[r].shared # S.req[r].shared
  <2>1. Thrifty(T, [T EXCEPT !.index = TouchPath(@, T.req[r].tip)])
    BY <1>2, <1>3, <1>5, TouchTip DEF TipListed
  <2> QED BY <1>2, <1>4, <2>1, ThriftyTwice, ThriftyNot
<1>6. CASE T.req[r].shared = S.req[r].shared BY <1>2, <1>4, <1>6, ThriftyNot
<1> QED BY <1>5, <1>6

\* What publish_committed_item does before it looks at the token.
LEMMA ProcessedThrifty ==
    ASSUME NEW S, Shape(S), PromptsAreSeqs(S), NEW item, item.id \in RequestIds,
           Half(S.req[item.id], item)
    PROVE  Thrifty(S, Processed(S, item))
<1> DEFINE r == item.id
           q == S.req[r]
           p == [q EXCEPT !.cursor = item.target]
           C == [S EXCEPT !.req[r].cursor = item.target]
           T == Processed(S, item)
<1>1. CASE item.decode BY <1>1, ThriftyNot DEF Processed
<1>2. CASE ~item.decode
  <2>1. T = PublishPromptBlocks(C, r) BY <1>2 DEF Processed
  <2>2. RequestShape(q) BY DEF Shape
  <2>3. Half(q, item) OBVIOUS
  <2> HIDE DEF q
  <2>4. RequestShape(p) /\ Alike(q, p) /\ SameHold(q, p) /\ p.cursor = item.target
    BY <2>2 DEF RequestShape, Alike, SameHold
  <2>5. MayList(p)
    <3>1. /\ p.cursor = item.target /\ p.length = q.length /\ p.prompt = q.prompt
          /\ p.pending = q.pending /\ p.state = q.state
      BY <2>2 DEF RequestShape
    <3> HIDE DEF p
    <3>2. /\ q.pending = 0 /\ q.length = item.target /\ item.target <= Len(q.prompt)
          /\ q.state = "prefilling" /\ q.length \in Nat
      BY <1>2, <2>3 DEF Half, Numbers
    <3>3. "prefilling" \in Live BY DEF Live, Active
    <3> QED BY <3>1, <3>2, <3>3 DEF MayList
  <2> HIDE DEF p
  <2>6. Becomes(S, C, r, p) /\ C.index = S.index
    BY DEF Shape, SchedulerShape, SameQueues, p, q, Becomes
  <2> HIDE DEF C, T
  <2>7. Moves(S, C) /\ C.req[r] = p /\ \A o \in RequestIds \ {r} : C.req[o] = S.req[o]
    BY <2>4, <2>6, OneMoves DEF q
  <2>8. Shape(C) /\ PromptsAreSeqs(C) BY <2>7 DEF PromptsAreSeqs, Moves, Alike
  <2>9. Thrifty(S, C)
    <3>1. Holds(S.req[r], S.index) => Milder(S.req[r], C.req[r])
      BY <2>4, <2>7, SameHoldMilder DEF q
    <3> QED BY <2>6, <2>7, <3>1, MildOne DEF Moves, SameQueues
  <2>10. Thrifty(C, T) BY <2>1, <2>5, <2>7, <2>8, PublishPromptBlocksThrifty
  <2> QED BY <2>9, <2>10, ThriftyTwice DEF T
<1> QED BY <1>1, <1>2

\* A request that goes on decoding holds what it held.
LEMMA ContinuedThrifty ==
    ASSUME NEW S, Shape(S), PromptsAreSeqs(S), NEW item, item.id \in RequestIds,
           Half(S.req[item.id], item), S.req[item.id].state \in Active
    PROVE  Thrifty(S, Continued(S, item)) /\ Shape(Continued(S, item))
<1> DEFINE r == item.id
           T == Processed(S, item)
           U == Continued(S, item)
<1>1. Thrifty(S, T) BY ProcessedThrifty
<1>2. /\ Drifts(S, T) /\ \A o \in RequestIds \ {r} : T.req[o] = S.req[o]
  <2>1. Processes(S, T, item) BY ProcessedIs
  <2> QED BY <2>1 DEF Processes
<1>3. /\ Drifts(S, U) /\ \A o \in RequestIds \ {r} : U.req[o] = S.req[o]
      /\ U.req[r] = [T.req[r] EXCEPT !.generated = @ + 1, !.state = "decoding"]
  <2>1. Continues(S, U, item) BY ContinuedIs
  <2> QED BY <2>1 DEF Continues
<1>4. U = [T EXCEPT !.req[r].generated = @ + 1, !.req[r].state = "decoding"]
  BY DEF Continued
<1> HIDE DEF T, U
<1>5. Shape(T) /\ RequestShape(T.req[r]) BY SMTT(30), <1>2 DEF Drifts, Moves, Shape
<1>6. U.index = T.index /\ U.suspect = T.suspect
  BY <1>4, <1>5 DEF Shape, SchedulerShape
<1>7. SameHold(T.req[r], U.req[r])
  <2>1. "decoding" \in Live BY DEF Live, Active
  <2> QED BY <1>3, <1>5, <2>1 DEF RequestShape, SameHold
<1>8. Holds(T.req[r], T.index) => Milder(T.req[r], U.req[r]) BY <1>7, SameHoldMilder
<1>9. Thrifty(T, U)
  <2>1. \A o \in RequestIds \ {r} : U.req[o] = T.req[o] BY <1>2, <1>3
  <2> QED BY <1>6, <1>8, <2>1, MildOne
<1>10. Thrifty(S, U) BY <1>1, <1>9, ThriftyTwice
<1> QED BY <1>3, <1>10 DEF Drifts, Moves, U

\* publish_committed_item.
LEMMA PublishThrifty ==
    ASSUME NEW S, Shape(S), PromptsAreSeqs(S), NEW item, item.id \in RequestIds,
           Half(S.req[item.id], item), S.req[item.id].state \in Active, NEW stop
    PROVE  Thrifty(S, Publish(S, item, stop))
<1> DEFINE r == item.id
           T == Publish(S, item, stop)
           A == Processed(S, item)
           C == Continued(S, item)
<1>1. Thrifty(S, A) BY ProcessedThrifty
<1>2. Thrifty(S, C) /\ Shape(C) BY ContinuedThrifty
<1>3. {"cancelled", "stop", "length"} \subseteq Reasons BY DEF Reasons
<1>4. \/ T = Finish(S, r, "cancelled") \/ T = A
      \/ T = Finish(C, r, "stop") \/ T = Finish(C, r, "length") \/ T = C
  BY PublishIs
<1> HIDE DEF T, A, C
<1>5. Thrifty(S, Finish(S, r, "cancelled")) BY <1>3, FinishThrifty
<1>6. Thrifty(C, Finish(C, r, "stop")) /\ Thrifty(C, Finish(C, r, "length"))
  BY <1>2, <1>3, FinishThrifty
<1>7. Thrifty(S, Finish(C, r, "stop")) /\ Thrifty(S, Finish(C, r, "length"))
  BY <1>2, <1>6, ThriftyTwice
<1>8. Thrifty(S, T) BY <1>1, <1>2, <1>4, <1>5, <1>7
<1> QED BY <1>8 DEF T

\* complete_iteration after the commits.
LEMMA PublishAllThrifty ==
    ASSUME NEW S, NEW d, Control(S, d), NEW items, Settleable(S, items), NEW stops,
           \A i \in 1 .. Len(items) : Half(S.req[items[i].id], items[i])
    PROVE  Thrifty(S, PublishAll(S, items, stops))
<1> DEFINE N == Len(items)
<1>1. N \in Nat BY DEF Settleable
<1>2. PICK turn : PublishTurns(turn, S, items, stops) BY <1>1, PublishTurnsExist
<1> DEFINE W == {n \in 0 .. N : /\ SettledTo(S, turn[n], d, items, n, "publish")
                                /\ Thrifty(S, turn[n])}
<1>3. 0 \in W BY <1>1, <1>2, SettledNot, ThriftyNot DEF PublishTurns
<1>4. ASSUME NEW n \in 0 .. N - 1, n \in W PROVE n + 1 \in W
  <2>1. SettledTo(S, turn[n], d, items, n, "publish") /\ Thrifty(S, turn[n]) BY <1>4
  <2>2. n + 1 \in 1 .. N /\ (n + 1) - 1 = n BY <1>1
  <2>3. turn[n + 1] = Publish(turn[n], items[n + 1], items[n + 1].id \in stops)
    BY <1>2, <2>2 DEF PublishTurns
  <2>4. Control(turn[n], d) BY <2>1 DEF SettledTo
  <2>5. /\ items[n + 1].id \in RequestIds /\ items[n + 1].previous \in Active
        /\ turn[n].req[items[n + 1].id] = S.req[items[n + 1].id]
        /\ turn[n].req[items[n + 1].id].state \in Active
    BY <2>1, StillActive
  <2>6. SettlesItem(turn[n], turn[n + 1], d, items[n + 1], "publish")
    BY <2>3, <2>4, <2>5, PublishSettles
  <2>7. SettledTo(S, turn[n + 1], d, items, n + 1, "publish") BY <2>1, <2>6, SettledNext
  <2>8. Thrifty(turn[n], turn[n + 1])
    <3>1. Shape(turn[n]) /\ PromptsAreSeqs(turn[n]) BY <2>4 DEF Control
    <3>2. Half(turn[n].req[items[n + 1].id], items[n + 1]) BY <2>2, <2>5
    <3> QED BY <2>3, <2>5, <3>1, <3>2, PublishThrifty
  <2>9. Thrifty(S, turn[n + 1]) BY <2>1, <2>8, ThriftyTwice
  <2> QED BY <1>1, <2>2, <2>7, <2>9
<1>5. N \in W
  <2> HIDE DEF W, N
  <2>1. \A n \in 0 .. N : n \in W BY <1>1, <1>3, <1>4, CountUp
  <2> QED BY <1>1, <2>1
<1> QED BY <1>2, <1>5 DEF PublishTurns

-----------------------------------------------------------------------------
(* Settling and dropping, as far as trie and blocks go.                    *)

\* Every request becomes milder.
LEMMA AllMild ==
    ASSUME NEW S, NEW T, T.index = S.index, T.suspect \subseteq S.suspect,
           \A r \in RequestIds : Holds(S.req[r], S.index) => Milder(S.req[r], T.req[r])
    PROVE  Thrifty(S, T)
<1>1. ASSUME Cached(S) PROVE Mild(S, T)
  <2>1. \A r \in RequestIds : Milder(S.req[r], T.req[r]) BY <1>1 DEF Cached
  <2> QED BY <2>1 DEF Mild
<1> QED BY <1>1, MildThrifty

\* The same requests and the same index.
LEMMA SameThrifty ==
    ASSUME NEW S, NEW T, T.req = S.req, T.index = S.index, T.suspect \subseteq S.suspect
    PROVE  Thrifty(S, T)
<1>1. ASSUME NEW r \in RequestIds, Holds(S.req[r], S.index) PROVE Milder(S.req[r], T.req[r])
  BY <1>1, MilderSelf
<1> QED BY <1>1, AllMild

\* Delivering the outbox.
LEMMA DeliverThrifty ==
    ASSUME NEW S, Shape(S), Deliver(S)
    PROVE  Thrifty(S, sch')
<1> DEFINE X == S.suspect \cap SharedBlocks(S)
           T == Emptying(S, X)
<1>1. sch' = T BY DeliverIs
<1> HIDE DEF X
<1>2. T.req = S.req /\ T.index = S.index /\ T.suspect = X
  BY DEF Shape, SchedulerShape, Emptying
<1>3. X \subseteq S.suspect BY DEF X
<1> HIDE DEF T
<1> QED BY <1>1, <1>2, <1>3, SameThrifty

\* q is p without its reservation, which may have been committed.
Lighter(p, q) ==
    /\ q.shared = p.shared /\ q.tip = p.tip /\ q.prompt = p.prompt
    /\ q.linked => p.linked
    /\ q.pending = 0
    /\ q.length = p.length \/ (p.pending # 0 /\ q.length = p.pending)
    /\ q.state = p.state \/ q.state \in Live

\* Such a request is milder.
LEMMA LighterMilder ==
    ASSUME NEW p, NEW q, Lighter(p, q), NEW x
    PROVE  Holds(p, x) => Milder(p, q)
<1>1. SUFFICES ASSUME Holds(p, x) PROVE Milder(p, q) OBVIOUS
<1>2. /\ p.length \in Nat /\ p.pending \in Nat /\ Len(p.shared) * BlockSize <= p.length
      /\ p.pending # 0 => p.length <= p.pending
      /\ p.state \notin Live => p.shared = <<>>
      /\ Len(p.shared) * BlockSize \in Nat
  <2>1. Len(p.shared) \in Nat BY <1>1 DEF Holds, OwnBlocks
  <2>2. BlockSize \in Nat BY ConfigAssumption
  <2> QED BY <1>1, <2>1, <2>2, WholeBlocks DEF Holds, Sized
<1> DEFINE w == Len(p.shared) * BlockSize
<1>3. Len(q.shared) * BlockSize = w BY DEF Lighter
<1>4. q.length \in Nat /\ w <= q.length /\ q.length <= TableLength(p) /\ TableLength(p) \in Nat
      /\ TableLength(q) = q.length
  <2>1. w \in Nat /\ w <= p.length BY <1>2
  <2> HIDE DEF w
  <2> QED BY <1>2, <2>1 DEF Lighter, TableLength
<1>5. Sized(q)
  <2> HIDE DEF w
  <2>1. Len(q.shared) * BlockSize <= q.length BY <1>3, <1>4
  <2>2. q.state \notin Live => q.shared = <<>> BY <1>2 DEF Lighter
  <2> QED BY <1>4, <2>1, <2>2 DEF Sized, Lighter
<1>6. BlocksForLength(TableLength(q)) <= BlocksForLength(TableLength(p))
  BY <1>4, BlocksMonotone
<1> QED BY <1>5, <1>6 DEF Milder, Lighter

\* rollback_prepared_plan.
LEMMA RollbackThrifty ==
    ASSUME NEW S, Shape(S)
    PROVE  Thrifty(S, RollbackPrepared(S))
<1> DEFINE T == RollbackPrepared(S)
<1>1. /\ T.index = S.index /\ T.suspect = S.suspect
      /\ \A r \in RequestIds : T.req[r] = [S.req[r] EXCEPT !.pending = 0]
  BY RollbackIs DEF Moves, SameQueues
<1> HIDE DEF T
<1>2. ASSUME NEW r \in RequestIds, Holds(S.req[r], S.index) PROVE Milder(S.req[r], T.req[r])
  <2>1. RequestShape(S.req[r]) BY DEF Shape
  <2>2. Lighter(S.req[r], T.req[r]) BY <1>1, <2>1 DEF RequestShape, Lighter
  <2> QED BY <1>2, <2>2, LighterMilder
<1>3. Thrifty(S, T) BY <1>1, <1>2, AllMild
<1> QED BY <1>3 DEF T

\* The commits of complete_iteration.
LEMMA CommitThrifty ==
    ASSUME NEW S, Shape(S), \A r \in RequestIds : r \in Inflight(S) => S.req[r].pending # 0
    PROVE  Thrifty(S, [Committed(S) EXCEPT !.inflight = <<>>])
<1> DEFINE T == [Committed(S) EXCEPT !.inflight = <<>>]
<1>1. /\ T.index = S.index /\ T.suspect = S.suspect
      /\ \A r \in RequestIds :
            T.req[r] = IF r \in Inflight(S)
                       THEN [S.req[r] EXCEPT !.length = S.req[r].pending, !.pending = 0]
                       ELSE S.req[r]
  BY CommittedIs DEF Moves, SameQueues
<1> HIDE DEF T
<1>2. ASSUME NEW r \in RequestIds, Holds(S.req[r], S.index) PROVE Milder(S.req[r], T.req[r])
  <2>1. RequestShape(S.req[r]) BY DEF Shape
  <2>2. CASE r \notin Inflight(S) BY <1>1, <1>2, <2>2, MilderSelf
  <2>3. CASE r \in Inflight(S)
    <3>1. T.req[r] = [S.req[r] EXCEPT !.length = S.req[r].pending, !.pending = 0]
      BY <1>1, <2>3
    <3>2. Lighter(S.req[r], T.req[r]) BY <2>1, <2>3, <3>1 DEF RequestShape, Lighter
    <3> QED BY <1>2, <3>2, LighterMilder
  <2> QED BY <2>2, <2>3
<1>3. Thrifty(S, T) BY <1>1, <1>2, AllMild
<1> QED BY SMTT(30), <1>3 DEF T

\* The end of prepare_plan.
LEMMA DispatchThrifty ==
    ASSUME NEW S, Shape(S), \A r \in Inflight(S) : r \in RequestIds => S.req[r].state \in Active
    PROVE  Thrifty(S, Dispatch(S))
<1> DEFINE T == Dispatch(S)
<1>1. /\ T.index = S.index /\ T.suspect = S.suspect
      /\ \A r \in RequestIds :
            T.req[r] = IF r \in Inflight(S) THEN Working(S.req[r]) ELSE S.req[r]
  BY DispatchIs DEF Moves, SameQueues
<1> HIDE DEF T
<1>2. ASSUME NEW r \in RequestIds, Holds(S.req[r], S.index) PROVE Milder(S.req[r], T.req[r])
  <2>1. RequestShape(S.req[r]) BY DEF Shape
  <2>2. CASE r \notin Inflight(S) BY <1>1, <1>2, <2>2, MilderSelf
  <2>3. CASE r \in Inflight(S)
    <3>1. T.req[r] = Working(S.req[r]) BY <1>1, <2>3
    <3>2. SameHold(S.req[r], T.req[r])
      BY <2>1, <3>1 DEF RequestShape, SameHold, Working, Live, Active
    <3> QED BY <1>2, <3>2, SameHoldMilder
  <2> QED BY <2>2, <2>3
<1>3. Thrifty(S, T) BY <1>1, <1>2, AllMild
<1> QED BY <1>3 DEF T

\* Rolling an item back.
LEMMA AbortItemThrifty ==
    ASSUME NEW S, Shape(S), NEW item, item.id \in RequestIds, item.previous \in Active
    PROVE  Thrifty(S, AbortItem(S, item))
<1> DEFINE r == item.id
           q == S.req[r]
           p == [q EXCEPT !.pending = 0]
           B == [S EXCEPT !.req[r].pending = 0]
           u == [p EXCEPT !.state = item.previous]
           U == [B EXCEPT !.req[r].state = item.previous]
           T == AbortItem(S, item)
<1>1. T = Finish(B, r, "cancelled") \/ T = U BY DEF AbortItem
<1>2. RequestShape(q) BY DEF Shape
<1> HIDE DEF q
<1>3. RequestShape(p) /\ Alike(q, p) /\ Lighter(q, p)
  BY <1>2 DEF RequestShape, Alike, Lighter
<1> HIDE DEF p
<1>4. Becomes(S, B, r, p) /\ B.index = S.index
  BY DEF Shape, SchedulerShape, SameQueues, p, q, Becomes
<1> HIDE DEF B
<1>5. Moves(S, B) /\ B.req[r] = p /\ \A o \in RequestIds \ {r} : B.req[o] = S.req[o]
  BY <1>3, <1>4, OneMoves DEF q
<1>6. Shape(B) BY <1>5 DEF Moves
<1>7. Thrifty(S, B)
  <2>1. Holds(S.req[r], S.index) => Milder(S.req[r], B.req[r])
    BY <1>3, <1>5, LighterMilder DEF q
  <2> QED BY <1>4, <1>5, <2>1, MildOne DEF Moves, SameQueues
<1>8. Thrifty(S, Finish(B, r, "cancelled"))
  <2>1. "cancelled" \in Reasons BY DEF Reasons
  <2>2. Thrifty(B, Finish(B, r, "cancelled")) BY <1>6, <2>1, FinishThrifty
  <2> QED BY <1>7, <2>2, ThriftyTwice
<1>9. Thrifty(S, U)
  <2>1. RequestShape(p) BY <1>3
  <2>2. SameHold(p, u) BY <2>1, StatesAre DEF RequestShape, SameHold
  <2>3. /\ U.index = B.index /\ U.suspect = B.suspect /\ U.req[r] = u
        /\ \A o \in RequestIds \ {r} : U.req[o] = B.req[o]
    BY <1>5, <1>6 DEF Shape, SchedulerShape
  <2> HIDE DEF u, U
  <2>4. Holds(B.req[r], B.index) => Milder(B.req[r], U.req[r])
    BY <1>5, <2>2, <2>3, SameHoldMilder
  <2>5. Thrifty(B, U) BY <2>3, <2>4, MildOne
  <2> QED BY <1>7, <2>5, ThriftyTwice
<1>10. Thrifty(S, T) BY <1>1, <1>8, <1>9
<1> QED BY <1>10 DEF T

\* A plan that never reached the device is rolled back.
LEMMA AbortNotDispatchedThrifty ==
    ASSUME NEW S, NEW d, Control(S, d), Planned(S)
    PROVE  Thrifty(S, AbortNotDispatched(S))
<1> DEFINE E == Emptied(S)
           items == S.inflight
           N == Len(items)
<1>1. /\ Moves(S, E) /\ E.req = S.req /\ E.inflight = <<>> /\ E.index = S.index
      /\ E.suspect = S.suspect
  BY EmptiedIs DEF Control, Moves, SameQueues
<1>2. Control(E, d) BY <1>1, MovesControl
<1>3. Settleable(E, items) BY <1>1, PlannedSettleable DEF Settleable
<1>4. N \in Nat BY <1>3 DEF Settleable
<1>5. PICK turn : AbortTurns(turn, S) BY <1>4, AbortTurnsExist
<1> HIDE DEF E
<1> DEFINE W == {n \in 0 .. N : SettledTo(E, turn[n], d, items, n, "abort") /\ Thrifty(E, turn[n])}
<1>6. 0 \in W
  <2>1. turn[0] = E BY <1>5 DEF AbortTurns, Emptied, E
  <2> QED BY <1>2, <1>4, <2>1, SettledNot, ThriftyNot
<1>7. ASSUME NEW n \in 0 .. N - 1, n \in W PROVE n + 1 \in W
  <2>1. SettledTo(E, turn[n], d, items, n, "abort") /\ Thrifty(E, turn[n]) BY <1>7
  <2>2. n + 1 \in 1 .. N /\ (n + 1) - 1 = n BY <1>4
  <2>3. turn[n + 1] = AbortItem(turn[n], items[n + 1]) BY <1>5, <2>2 DEF AbortTurns
  <2>4. Control(turn[n], d) BY <2>1 DEF SettledTo
  <2>5. /\ items[n + 1].id \in RequestIds /\ items[n + 1].previous \in Active
        /\ turn[n].req[items[n + 1].id].state \in Active
    BY <1>3, <2>1, StillActive
  <2>6. SettlesItem(turn[n], turn[n + 1], d, items[n + 1], "abort")
    BY <2>3, <2>4, <2>5, AbortItemSettles
  <2>7. SettledTo(E, turn[n + 1], d, items, n + 1, "abort") BY <1>3, <2>1, <2>6, SettledNext
  <2>8. Thrifty(turn[n], turn[n + 1]) BY <2>3, <2>4, <2>5, AbortItemThrifty DEF Control
  <2>9. Thrifty(E, turn[n + 1]) BY <2>1, <2>8, ThriftyTwice
  <2> QED BY <1>4, <2>2, <2>7, <2>9
<1>8. N \in W
  <2> HIDE DEF W, N
  <2>1. \A n \in 0 .. N : n \in W BY <1>4, <1>6, <1>7, CountUp
  <2> QED BY <1>4, <2>1
<1>9. Thrifty(E, AbortNotDispatched(S)) BY <1>5, <1>8 DEF AbortTurns
<1>10. Thrifty(S, E) BY <1>1, SameThrifty
<1> QED BY <1>9, <1>10, ThriftyTwice

\* R is S, but for its plan and its suspect blocks.
SameCache(S, R) ==
    /\ Shape(R) /\ R.req = S.req /\ R.requests = S.requests /\ R.index = S.index
    /\ IsFiniteSet(R.suspect)

\* Dropping the entries of the cache clears the index.
LEMMA DropClears ==
    ASSUME NEW S, NEW d, Control(S, d), Cached(S), NEW R, SameCache(S, R)
    PROVE  Clears(S, DropPrefixCacheEntries(R))
<1> DEFINE T == DropPrefixCacheEntries(R)
<1>1. \A r \in RequestIds : Holds(S.req[r], S.index) /\ RequestShape(S.req[r])
  BY DEF Cached, Control, Shape
<1>2. CASE Capacity = 0
  <2>1. T = R BY <1>2 DEF DropPrefixCacheEntries
  <2>2. Listed(S.index) = {} BY <1>2 DEF Listed, EntryIds
  <2>3. ASSUME NEW r \in RequestIds
        PROVE  /\ Milder(S.req[r], S.req[r])
               /\ S.req[r].linked => S.req[r].shared = <<>> /\ S.req[r].tip = Root
    BY <1>1, <2>2, MilderSelf DEF Holds, TipHeld
  <2>4. Clears(S, R) BY <2>2, <2>3 DEF Clears, SameCache, Cached
  <2> QED BY <2>1, <2>4
<1>3. CASE Capacity # 0
  <2>1. /\ T.index = ClearIndex(S.index) /\ T.suspect = R.suspect
        /\ \A r \in RequestIds :
             T.req[r] = IF r \in LiveRequests(S) THEN [S.req[r] EXCEPT !.linked = FALSE]
                                                 ELSE S.req[r]
    BY <1>3, DropIs DEF SameCache, Moves, SameQueues, LiveRequests
  <2> HIDE DEF T
  <2>2. Trie(T.index) /\ Listed(T.index) = {} BY <2>1, ClearIndexIs DEF Cached
  <2>3. ASSUME NEW r \in RequestIds
        PROVE  /\ Milder(S.req[r], T.req[r])
               /\ T.req[r].linked => T.req[r].shared = <<>> /\ T.req[r].tip = Root
    <3>1. CASE r \in LiveRequests(S)
      <4>1. /\ T.req[r].shared = S.req[r].shared /\ T.req[r].tip = S.req[r].tip
            /\ T.req[r].prompt = S.req[r].prompt /\ T.req[r].linked = FALSE
            /\ T.req[r].length = S.req[r].length /\ T.req[r].pending = S.req[r].pending
            /\ T.req[r].state = S.req[r].state
        BY <1>1, <2>1, <3>1 DEF RequestShape
      <4> QED BY <1>1, <4>1, MilderSelf
    <3>2. CASE r \notin LiveRequests(S)
      <4>1. T.req[r] = S.req[r] /\ S.req[r].state \notin Live BY <2>1, <3>2, LiveIs
      <4>2. S.req[r].shared = <<>> BY <1>1, <4>1 DEF Holds, Sized
      <4> QED BY <1>1, <4>1, <4>2, MilderSelf DEF Holds, TipHeld
    <3> QED BY <3>1, <3>2
  <2>4. Clears(S, T) BY <2>1, <2>2, <2>3 DEF Clears, SameCache
  <2> QED BY <2>4 DEF T
<1> QED BY <1>2, <1>3

\* A plan whose device state is unknown.
LEMMA AbortMutationUnknownThrifty ==
    ASSUME NEW S, NEW d, Control(S, d), Planned(S)
    PROVE  Thrifty(S, AbortMutationUnknown(S))
<1> DEFINE X == [S EXCEPT !.inflight = <<>>, !.suspect = SharedBlocks(S)]
           D == DropPrefixCacheEntries(X)
           ids == [i \in DOMAIN S.inflight |-> S.inflight[i].id]
           T == FinishAll(D, ids, "executor_failure")
<1>1. SUFFICES ASSUME Cached(S) PROVE Thrifty(S, AbortMutationUnknown(S)) BY DEF Thrifty
<1>2. AbortMutationUnknown(S) = T BY DEF AbortMutationUnknown
<1>3. /\ SchedulerShape(X) /\ X.req = S.req /\ X.requests = S.requests /\ X.index = S.index
      /\ X.suspect = SharedBlocks(S)
  BY DEF Control, Shape, SchedulerShape
<1> HIDE DEF X
<1>4. SameCache(S, X)
  <2>1. IsFiniteSet(SharedBlocks(S)) BY <1>1, BlocksFinite
  <2> QED BY <1>3, <2>1 DEF SameCache, Control, Shape
<1>5. Thrifty(S, D) BY <1>1, <1>4, DropClears, ClearThrifty
<1>6. Shape(D)
  <2>1. Shape(X) BY <1>4 DEF SameCache
  <2> QED BY <2>1, DropDrifts DEF Drifts, Moves
<1> HIDE DEF D
<1>7. ids \in Seq(RequestIds)
  <2> DEFINE n == Len(S.inflight)
  <2>1. n \in Nat /\ DOMAIN S.inflight = 1 .. n /\ \A i \in 1 .. n : S.inflight[i].id \in RequestIds
    BY PlannedSettleable DEF Settleable
  <2> HIDE DEF n
  <2>2. ids \in [1 .. n -> RequestIds] BY <2>1
  <2> HIDE DEF ids
  <2> QED BY <2>1, <2>2
<1> HIDE DEF ids
<1>8. Thrifty(D, T)
  <2>1. "executor_failure" \in Reasons BY DEF Reasons
  <2> QED BY <1>6, <1>7, <2>1, FinishThoseThrifty DEF FinishAll
<1> QED BY <1>2, <1>5, <1>8, ThriftyTwice

\* Shutting down.
LEMMA ShutDownThrifty ==
    ASSUME NEW S, NEW d, Control(S, d)
    PROVE  /\ Thrifty(S, ShutDown(S))
           /\ Cached(S) => Listed(ShutDown(S).index) = {}
<1> DEFINE rs == Reverse(S.requests)
           F == FinishAll(S, rs, "cancelled")
           D == DropPrefixCacheEntries(F)
           T == [D EXCEPT !.accepting = FALSE]
<1>1. ShutDown(S) = T BY DEF ShutDown
<1>2. rs \in Seq(RequestIds) /\ IsInjectiveSeq(rs) /\ ToSet(rs) = LiveRequests(S)
  BY ReverseInjective DEF Control, Queues, LiveRequests
<1>3. "cancelled" \in Reasons BY DEF Reasons
<1> HIDE DEF rs
<1>4. Control(F, d)
  <2>1. AllEnd(S, F, d, rs) BY <1>2, <1>3, FinishAllControl
  <2> QED BY <2>1 DEF AllEnd
<1>5. Thrifty(S, F) BY <1>2, <1>3, FinishThoseThrifty DEF FinishAll, Control
<1> HIDE DEF F
<1>6. Cached(F) => Clears(F, D)
  <2>1. SUFFICES ASSUME Cached(F) PROVE Clears(F, D) OBVIOUS
  <2>2. SameCache(F, F) BY <1>4, <2>1 DEF SameCache, Control, Cached
  <2> HIDE DEF D
  <2>3. Clears(F, DropPrefixCacheEntries(F)) BY <1>4, <2>1, <2>2, DropClears
  <2> QED BY <2>3 DEF D
<1>7. Shape(D)
  <2>1. Shape(F) BY <1>4 DEF Control
  <2> QED BY <2>1, DropDrifts DEF Drifts, Moves
<1> HIDE DEF D
<1>8. Thrifty(F, D) BY <1>6, ClearThrifty
<1>9. T.req = D.req /\ T.index = D.index /\ T.suspect = D.suspect
  BY <1>7 DEF Shape, SchedulerShape
<1> HIDE DEF T
<1>10. Thrifty(D, T) BY <1>9, SameThrifty
<1>11. Thrifty(S, T) BY <1>5, <1>8, <1>10, ThriftyTwice
<1>12. Cached(S) => Listed(T.index) = {} BY <1>5, <1>6, <1>9 DEF Thrifty, Clears
<1> QED BY <1>1, <1>11, <1>12

-----------------------------------------------------------------------------
(* Making room for a plan.                                                 *)

\* The eviction loop has nothing more to do.
EnoughOf(S, needed) == FreeBlocks(S) >= needed \/ ~CanEvict(S.index, HeldBlocks(S))

\* One turn of the eviction loop.
LEMMA EvictNextThrifty ==
    ASSUME NEW S, Shape(S), Cached(S), NEW needed
    PROVE  /\ Thrifty(S, EvictNext(S, needed))
           /\ \/ EvictNext(S, needed) = S /\ EnoughOf(S, needed)
              \/ Cardinality(Listed(EvictNext(S, needed).index))
                   = Cardinality(Listed(S.index)) - 1
<1> DEFINE T == EvictNext(S, needed)
<1>1. CASE T = S /\ EnoughOf(S, needed) BY <1>1, ThriftyNot
<1>2. CASE /\ Reindexes(S, T) /\ CanEvict(S.index, HeldBlocks(S))
           /\ T.index = EvictOne(S.index, HeldBlocks(S))
  <2>1. Trie(S.index) BY DEF Cached
  <2>2. PICK id \in Evictable(S.index, HeldBlocks(S)) : Loses(S.index, T.index, id)
    BY <1>2, <2>1, EvictOneLoses
  <2> HIDE DEF T
  <2>3. Reindexed(S, T) BY <1>2 DEF Reindexes, Reindexed, Moves, SameQueues
  <2>4. S.index.entries[id].block \notin HeldBlocks(S) BY DEF Evictable
  <2>5. Thrifty(S, T) BY <2>2, <2>3, <2>4, LoseThrifty
  <2>6. Cardinality(Listed(T.index)) = Cardinality(Listed(S.index)) - 1
    BY <2>1, <2>2, LoseRoom
  <2> QED BY <2>5, <2>6 DEF T
<1>3. \/ T = S /\ EnoughOf(S, needed)
      \/ /\ Reindexes(S, T) /\ CanEvict(S.index, HeldBlocks(S))
         /\ T.index = EvictOne(S.index, HeldBlocks(S))
  BY EvictNextIs DEF EnoughOf
<1> QED BY <1>1, <1>2, <1>3

\* The eviction loop ends with enough free blocks or nothing to evict.
LEMMA EvictUntilThrifty ==
    ASSUME NEW S, Shape(S), Cached(S), NEW needed
    PROVE  Thrifty(S, EvictUntil(S, needed)) /\ EnoughOf(EvictUntil(S, needed), needed)
<1>1. PICK turn : EvictTurns(turn, S, needed) BY EvictTurnsExist
<1> DEFINE Left(T) == Cardinality(Listed(T.index))
           W == {n \in 0 .. Capacity :
                    /\ Shape(turn[n]) /\ Cached(turn[n]) /\ Thrifty(S, turn[n])
                    /\ Left(turn[n]) \in Nat
                    /\ Left(turn[n]) <= Capacity - n \/ EnoughOf(turn[n], needed)}
<1>2. Capacity \in Nat BY CapacityAssumption
<1>3. ASSUME NEW T, Cached(T) PROVE Left(T) \in Nat /\ Left(T) <= Capacity
  <2>1. Listed(T.index) \in SUBSET EntryIds /\ IsFiniteSet(Listed(T.index))
    BY <1>3, ListedAre DEF Cached, Trie
  <2> QED BY <2>1, EntryIdsAre, FS_Subset, FS_CardinalityType
<1>4. 0 \in W BY <1>1, <1>2, <1>3, ThriftyNot DEF EvictTurns
<1>5. ASSUME NEW n \in 0 .. Capacity - 1, n \in W PROVE n + 1 \in W
  <2> DEFINE T == turn[n]
             U == turn[n + 1]
  <2>1. /\ Shape(T) /\ Cached(T) /\ Thrifty(S, T) /\ Left(T) \in Nat
        /\ Left(T) <= Capacity - n \/ EnoughOf(T, needed)
    BY <1>5
  <2>2. n + 1 \in 1 .. Capacity /\ (n + 1) - 1 = n /\ n + 1 \in 0 .. Capacity BY <1>2
  <2>3. U = EvictNext(T, needed) BY <1>1, <2>2 DEF EvictTurns
  <2>4. CASE EnoughOf(T, needed)
    <3>1. EvictNext(T, needed) = T BY <2>4 DEF EvictNext, EnoughOf
    <3> QED BY <2>1, <2>2, <2>3, <2>4, <3>1
  <2>5. CASE ~EnoughOf(T, needed)
    <3> HIDE DEF T, U
    <3>1. /\ Thrifty(T, U)
          /\ \/ U = T /\ EnoughOf(T, needed)
             \/ Cardinality(Listed(U.index)) = Cardinality(Listed(T.index)) - 1
      BY <2>1, <2>3, EvictNextThrifty
    <3>2. Left(U) = Left(T) - 1 BY <2>5, <3>1
    <3>3. Cached(U) BY <2>1, <3>1 DEF Thrifty
    <3>4. Shape(U)
      <4>1. Reindexes(T, U) \/ U = T BY <2>1, <2>3, EvictNextIs
      <4> QED BY <2>1, <4>1 DEF Reindexes, Moves
    <3>5. Thrifty(S, U) BY <2>1, <3>1, ThriftyTwice
    <3>6. Left(U) \in Nat BY <1>3, <3>3
    <3> HIDE DEF Left
    <3>7. Left(U) <= Capacity - (n + 1) BY <1>2, <2>1, <2>5, <3>2, <3>6
    <3> QED BY <2>2, <3>3, <3>4, <3>5, <3>6, <3>7 DEF U, Left
  <2> QED BY <2>4, <2>5
<1>6. Capacity \in W
  <2> HIDE DEF W
  <2>1. \A n \in 0 .. Capacity : n \in W BY <1>2, <1>4, <1>5, CountUp
  <2> QED BY <1>2, <2>1
<1> DEFINE T == EvictUntil(S, needed)
<1>7. T = turn[Capacity] BY <1>1 DEF EvictTurns
<1>8. Cached(T) /\ Thrifty(S, T) /\ (Left(T) <= 0 \/ EnoughOf(T, needed))
  BY <1>2, <1>6, <1>7
<1> HIDE DEF T, W
<1>9. ASSUME Left(T) <= 0 PROVE EnoughOf(T, needed)
  <2>1. Left(T) = 0 BY <1>3, <1>8, <1>9
  <2>2. IsFiniteSet(Listed(T.index)) BY <1>8, ListedAre DEF Cached, Trie
  <2>3. Listed(T.index) = {} BY <2>1, <2>2, FS_EmptySet
  <2> QED BY <2>3 DEF EnoughOf, CanEvict, Evictable
<1> QED BY <1>8, <1>9 DEF T

-----------------------------------------------------------------------------
(* Counting blocks against promises.                                       *)

\* Terms that are zero do not count.
LEMMA PartZero ==
    ASSUME NEW A, IsFiniteSet(A), NEW B, B \subseteq A, NEW f, \A x \in A : f[x] \in Int,
           \A x \in A \ B : f[x] = 0
    PROVE  Part(f, A) = Part(f, B)
<1>1. \A s \in SUBSET A : /\ Part(f, s) \in Int
                          /\ \A x \in s : Part(f, s) = f[x] + Part(f, s \ {x})
  BY PartSplit
<1> DEFINE T == {s \in SUBSET A : B \subseteq s /\ Part(f, s) # Part(f, B)}
<1>2. T = {}
  <2>1. SUFFICES ASSUME T # {} PROVE FALSE OBVIOUS
  <2>2. PICK s \in T : \A t \in T : Cardinality(s) <= Cardinality(t)
    <3>1. T \subseteq SUBSET A OBVIOUS
    <3> HIDE DEF T
    <3> QED BY <2>1, <3>1, HasSmallest
  <2>3. IsFiniteSet(s) /\ s \in SUBSET A /\ B \subseteq s /\ Part(f, s) # Part(f, B)
    BY FS_Subset
  <2>4. PICK x \in s : x \notin B BY <2>3
  <2> DEFINE t == s \ {x}
  <2>5. Part(f, s) = f[x] + Part(f, t) /\ f[x] = 0 /\ t \in SUBSET A /\ B \subseteq t
    BY <1>1, <2>3, <2>4
  <2>6. Cardinality(t) = Cardinality(s) - 1 /\ Cardinality(s) \in Nat
    BY <2>3, <2>4, FS_RemoveElement, FS_CardinalityType
  <2> HIDE DEF t
  <2>7. t \notin T
    <3>1. ~(Cardinality(s) <= Cardinality(t)) BY <2>6
    <3> HIDE DEF T
    <3> QED BY <2>2, <3>1
  <2>8. Part(f, t) = Part(f, B) BY <2>5, <2>7
  <2>9. Part(f, t) \in Int BY <1>1, <2>5
  <2>10. Part(f, s) = Part(f, t) BY <2>5, <2>9
  <2> QED BY <2>3, <2>8, <2>10
<1>3. A \in SUBSET A OBVIOUS
<1> QED BY <1>2, <1>3

\* What x \in s have in common is at most as much as they have together.
LEMMA UnionCounts ==
    ASSUME NEW D, IsFiniteSet(D), NEW f, NEW g,
           \A x \in D : g[x] \in Int /\ IsFiniteSet(f[x]) /\ Cardinality(f[x]) <= g[x]
    PROVE  Cardinality(UNION {f[x] : x \in D}) <= Part(g, D)
<1>1. \A s \in SUBSET D : /\ Part(g, s) \in Int
                          /\ \A x \in s : Part(g, s) = g[x] + Part(g, s \ {x})
  BY PartSplit
<1> DEFINE Of(s) == UNION {f[x] : x \in s}
           Good(s) == IsFiniteSet(Of(s)) /\ Cardinality(Of(s)) <= Part(g, s)
           T == {s \in SUBSET D : ~Good(s)}
<1>2. T = {}
  <2>1. SUFFICES ASSUME T # {} PROVE FALSE OBVIOUS
  <2>2. PICK s \in T : \A t \in T : Cardinality(s) <= Cardinality(t)
    <3>1. T \subseteq SUBSET D OBVIOUS
    <3> HIDE DEF T
    <3> QED BY <2>1, <3>1, HasSmallest
  <2>3. IsFiniteSet(s) /\ s \in SUBSET D BY FS_Subset
  <2>4. CASE s = {}
    <3>1. Part(g, s) = 0 BY <2>3, <2>4, PartStep
    <3>2. Of(s) = {} BY <2>4
    <3> HIDE DEF Of
    <3>3. Good(s) BY <3>1, <3>2, FS_EmptySet
    <3> QED BY <3>3
  <2>5. CASE s # {}
    <3>1. PICK x \in s : TRUE BY <2>5
    <3> DEFINE t == s \ {x}
    <3>2. Part(g, s) = g[x] + Part(g, t) /\ t \in SUBSET D /\ x \in D BY <1>1, <2>3, <3>1
    <3>3. Cardinality(t) = Cardinality(s) - 1 /\ Cardinality(s) \in Nat
      BY <2>3, <3>1, FS_RemoveElement, FS_CardinalityType
    <3>4. Of(s) = Of(t) \cup f[x] BY <3>1
    <3> HIDE DEF t, Of
    <3>5. t \notin T
      <4>1. ~(Cardinality(s) <= Cardinality(t)) BY <3>3
      <4> HIDE DEF T
      <4> QED BY <2>2, <4>1
    <3>6. Good(t) BY <3>2, <3>5
    <3>7. g[x] \in Int /\ IsFiniteSet(f[x]) /\ Cardinality(f[x]) <= g[x] BY <3>2
    <3>8. /\ IsFiniteSet(Of(s))
          /\ Cardinality(Of(s)) = Cardinality(Of(t)) + Cardinality(f[x])
                                    - Cardinality(Of(t) \cap f[x])
      BY SMTT(30), <3>4, <3>6, <3>7, FS_Union
    <3>9. /\ Cardinality(Of(s)) \in Nat /\ Cardinality(Of(t)) \in Nat
          /\ Cardinality(f[x]) \in Nat /\ Cardinality(Of(t) \cap f[x]) \in Nat
      BY <3>6, <3>7, <3>8, FS_CardinalityType, FS_Intersection
    <3>10. Part(g, s) \in Int /\ Part(g, t) \in Int BY <1>1, <2>3, <3>2
    <3>11. Good(s) BY <3>2, <3>6, <3>7, <3>8, <3>9, <3>10
    <3> QED BY <3>11
  <2> QED BY <2>4, <2>5
<1>3. D \in SUBSET D OBVIOUS
<1> QED BY <1>2, <1>3

\* Sums add up.
LEMMA PartAdds ==
    ASSUME NEW D, IsFiniteSet(D), NEW f, NEW g, NEW h,
           \A x \in D : f[x] \in Int /\ g[x] \in Int /\ h[x] = f[x] + g[x]
    PROVE  Part(h, D) = Part(f, D) + Part(g, D)
<1>1. \A s \in SUBSET D : /\ Part(f, s) \in Int
                          /\ \A x \in s : Part(f, s) = f[x] + Part(f, s \ {x})
  BY PartSplit
<1>2. \A s \in SUBSET D : /\ Part(g, s) \in Int
                          /\ \A x \in s : Part(g, s) = g[x] + Part(g, s \ {x})
  BY PartSplit
<1>3. \A s \in SUBSET D : /\ Part(h, s) \in Int
                          /\ \A x \in s : Part(h, s) = h[x] + Part(h, s \ {x})
  <2>1. IsFiniteSet(D) /\ \A x \in D : h[x] \in Int OBVIOUS
  <2> QED BY ONLY <2>1, PartSplit
<1> DEFINE T == {s \in SUBSET D : Part(h, s) # Part(f, s) + Part(g, s)}
<1>4. T = {}
  <2>1. SUFFICES ASSUME T # {} PROVE FALSE OBVIOUS
  <2>2. PICK s \in T : \A t \in T : Cardinality(s) <= Cardinality(t)
    <3>1. T \subseteq SUBSET D OBVIOUS
    <3> HIDE DEF T
    <3> QED BY <2>1, <3>1, HasSmallest
  <2>3. IsFiniteSet(s) /\ s \in SUBSET D BY FS_Subset
  <2>4. CASE s = {}
    <3>1. Part(f, s) = 0 /\ Part(g, s) = 0 /\ Part(h, s) = 0 BY <2>3, <2>4, PartStep
    <3> QED BY <3>1
  <2>5. CASE s # {}
    <3>1. PICK x \in s : TRUE BY <2>5
    <3> DEFINE t == s \ {x}
    <3>2. /\ Part(f, s) = f[x] + Part(f, t) /\ Part(g, s) = g[x] + Part(g, t)
          /\ Part(h, s) = h[x] + Part(h, t) /\ t \in SUBSET D /\ x \in D
      BY <1>1, <1>2, <1>3, <2>3, <3>1
    <3>3. Cardinality(t) = Cardinality(s) - 1 /\ Cardinality(s) \in Nat
      BY <2>3, <3>1, FS_RemoveElement, FS_CardinalityType
    <3> HIDE DEF t
    <3>4. t \notin T
      <4>1. ~(Cardinality(s) <= Cardinality(t)) BY <3>3
      <4> HIDE DEF T
      <4> QED BY <2>2, <4>1
    <3>5. Part(h, t) = Part(f, t) + Part(g, t) BY <3>2, <3>4
    <3>6. /\ Part(f, t) \in Int /\ Part(g, t) \in Int /\ f[x] \in Int /\ g[x] \in Int
          /\ h[x] = f[x] + g[x]
      BY <1>1, <1>2, <3>2
    <3>7. Part(h, s) = Part(f, s) + Part(g, s) BY <3>2, <3>5, <3>6
    <3> QED BY <3>7
  <2> QED BY <2>4, <2>5
<1>5. D \in SUBSET D OBVIOUS
<1> QED BY <1>4, <1>5

\* What request q holds or has reserved stays within what it was promised.
Within(q) ==
    IF q.state \in Active THEN BlocksForLength(TableLength(q)) <= Promise(q)
                          ELSE TableLength(q) = 0

TableOf(S) == [r \in RequestIds |-> BlocksForLength(TableLength(S.req[r]))]

\* So does what all requests hold.
LEMMA TablesWithinPromises ==
    ASSUME NEW S, Cached(S), Accounts(S), \A r \in RequestIds : Within(S.req[r])
    PROVE  /\ Part(TableOf(S), RequestIds) <= S.promised
           /\ Part(TableOf(S), RequestIds) \in Int /\ S.promised \in Int
<1> DEFINE f == TableOf(S)
           g == [r \in RequestIds |-> IF S.req[r].state \in Active THEN Promise(S.req[r]) ELSE 0]
           B == StateIn(S, Active)
<1>1. \A r \in RequestIds : f[r] \in Int BY PrivateIs DEF Cached, TableOf
<1>2. ASSUME NEW r \in RequestIds PROVE g[r] \in Int /\ f[r] <= g[r]
  <2>1. CASE S.req[r].state \in Active
    <3>1. Promise(S.req[r]) \in Int BY PromiseIs DEF Accounts
    <3> QED BY <2>1, <3>1 DEF Within, TableOf
  <2>2. CASE S.req[r].state \notin Active
    <3>1. TableLength(S.req[r]) = 0 BY <2>2 DEF Within
    <3>2. BlocksForLength(0) = 0
      <4>1. 0 * BlockSize = 0 BY ConfigAssumption
      <4>2. BlocksForLength(0 * BlockSize) = 0 BY WholeBlocks
      <4> QED BY <4>1, <4>2
    <3> QED BY <2>2, <3>1, <3>2 DEF TableOf
  <2> QED BY <2>1, <2>2
<1>3. B \subseteq RequestIds /\ IsFiniteSet(RequestIds) BY RequestsFinite DEF StateIn
<1>4. \A r \in RequestIds \ B : g[r] = 0 BY DEF StateIn
<1>5. \A r \in B : PromiseOf(S)[r] = g[r] BY DEF StateIn, PromiseOf
<1>6. S.promised = Part(PromiseOf(S), B) BY DEF Accounts
<1> HIDE DEF f, g, B
<1>7. Part(f, RequestIds) <= Part(g, RequestIds) /\ Part(f, RequestIds) \in Int
      /\ Part(g, RequestIds) \in Int
  BY <1>1, <1>2, <1>3, PartMonotone
<1>8. Part(g, RequestIds) = Part(g, B) BY <1>2, <1>3, <1>4, PartZero
<1>9. Part(PromiseOf(S), B) = Part(g, B) BY <1>5, PartSame
<1> QED BY <1>6, <1>7, <1>8, <1>9 DEF f

\* While every listed block is held, the tables of the requests cover all blocks in use.
LEMMA NothingUnheld ==
    ASSUME NEW S, Cached(S), ListedBlocks(S.index) \subseteq HeldBlocks(S)
    PROVE  AllocatedBlocks(S) <= Part(TableOf(S), RequestIds)
<1> DEFINE f == PrivateOf(S)
           g == [r \in RequestIds |-> Len(S.req[r].shared)]
           h == TableOf(S)
           s == [r \in RequestIds |-> ToSet(S.req[r].shared)]
<1>1. ASSUME NEW r \in RequestIds
      PROVE  /\ f[r] \in Int /\ g[r] \in Int /\ h[r] \in Int /\ h[r] = f[r] + g[r]
             /\ IsFiniteSet(s[r]) /\ Cardinality(s[r]) <= g[r]
  <2>1. Holds(S.req[r], S.index) BY DEF Cached
  <2>2. /\ PrivateBlocks(S.req[r]) \in Nat /\ Len(S.req[r].shared) \in Nat
        /\ BlocksForLength(TableLength(S.req[r])) \in Nat
    BY <2>1, PrivateIs
  <2>3. S.req[r].shared \in Seq(BlockIds) BY <2>1 DEF Holds, OwnBlocks
  <2>4. IsFiniteSet(s[r]) /\ Cardinality(s[r]) <= g[r] BY <2>3, ElementsFinite
  <2> QED BY <2>2, <2>4 DEF PrivateOf, TableOf, PrivateBlocks
<1>2. HeldBlocks(S) = UNION {s[r] : r \in RequestIds} BY DEF HeldBlocks
<1>3. SharedBlocks(S) = HeldBlocks(S) BY DEF SharedBlocks
<1>4. AllocatedBlocks(S) = Part(f, RequestIds) + Cardinality(HeldBlocks(S))
      /\ Cardinality(HeldBlocks(S)) \in Nat /\ Part(f, RequestIds) \in Int
  BY <1>3, BlocksFinite
<1> HIDE DEF f, g, h, s
<1>5. Cardinality(UNION {s[r] : r \in RequestIds}) <= Part(g, RequestIds)
  BY <1>1, RequestsFinite, UnionCounts
<1>6. Part(h, RequestIds) = Part(f, RequestIds) + Part(g, RequestIds)
  BY <1>1, RequestsFinite, PartAdds
<1>7. Part(g, RequestIds) \in Int
  <2>1. \A r \in RequestIds : g[r] \in Int BY <1>1
  <2>2. RequestIds \in SUBSET RequestIds OBVIOUS
  <2> QED BY <2>1, <2>2, RequestsFinite, PartSplit
<1>8. Cardinality(HeldBlocks(S)) <= Part(g, RequestIds) BY <1>2, <1>5
<1>9. AllocatedBlocks(S) <= Part(h, RequestIds) BY <1>4, <1>6, <1>7, <1>8
<1> QED BY <1>9 DEF h

\* Then all of it fits.
LEMMA AlwaysFits ==
    ASSUME NEW S, Cached(S), Accounts(S), \A r \in RequestIds : Within(S.req[r]),
           ListedBlocks(S.index) \subseteq HeldBlocks(S)
    PROVE  FreeBlocks(S) >= 0
<1>1. AllocatedBlocks(S) <= Part(TableOf(S), RequestIds) BY NothingUnheld
<1>2. /\ Part(TableOf(S), RequestIds) <= S.promised
      /\ Part(TableOf(S), RequestIds) \in Int /\ S.promised \in Int
  BY TablesWithinPromises
<1>3. S.promised <= MaxPromised BY DEF Accounts
<1>4. AllocatedBlocks(S) \in Int /\ FreeBlocks(S) = TotalBlocks - AllocatedBlocks(S)
  BY BlocksFinite
<1>5. MaxPromised \in Nat /\ TotalBlocks \in Nat /\ MaxPromised <= TotalBlocks
  BY ConfigAssumption
<1> QED BY <1>1, <1>2, <1>3, <1>4, <1>5

\* A request with a reservation.
LEMMA ReservedHolds ==
    ASSUME NEW p, NEW x, Holds(p, x), RequestShape(p), p.pending = 0, p.state \in Active,
           NEW t \in Nat, t # 0, p.length <= t, NEW q, q = [p EXCEPT !.pending = t]
    PROVE  /\ Holds(q, x) /\ q.shared = p.shared
           /\ PrivateBlocks(q)
                = PrivateBlocks(p) + (BlocksForLength(t) - BlocksForLength(TableLength(p)))
<1>1. /\ q.shared = p.shared /\ q.tip = p.tip /\ q.prompt = p.prompt /\ q.linked = p.linked
      /\ q.pending = t /\ q.length = p.length /\ q.state = p.state
  BY DEF RequestShape
<1>2. Sized(q) BY <1>1, StatesAre DEF Holds, Sized
<1>3. Holds(q, x) BY <1>1, <1>2 DEF Holds, OwnBlocks, PathHeld, TipHeld
<1>4. TableLength(q) = t BY <1>1 DEF TableLength
<1>5. /\ BlocksForLength(t) \in Nat /\ BlocksForLength(TableLength(p)) \in Nat
      /\ Len(p.shared) \in Nat
  BY <1>3, <1>4, PrivateIs
<1>6. /\ PrivateBlocks(q) = BlocksForLength(t) - Len(p.shared)
      /\ PrivateBlocks(p) = BlocksForLength(TableLength(p)) - Len(p.shared)
  BY <1>1, <1>4 DEF PrivateBlocks
<1> QED BY <1>1, <1>3, <1>5, <1>6

\* T is S with a reservation for item.
Charges(S, T, item) ==
    /\ T.index = S.index /\ T.suspect = S.suspect
    /\ T.req[item.id] = [S.req[item.id] EXCEPT !.pending = item.target]
    /\ \A o \in RequestIds \ {item.id} : T.req[o] = S.req[o]

\* What a reservation may ask for.
Reservable(S, item) ==
    /\ item.id \in RequestIds /\ S.req[item.id].pending = 0 /\ S.req[item.id].state \in Active
    /\ item.target \in Nat /\ item.target # 0 /\ S.req[item.id].length <= item.target

NeededFor(S, item) ==
    BlocksForLength(item.target) - BlocksForLength(TableLength(S.req[item.id]))

\* It takes as many free blocks as it needs.
LEMMA ChargesFree ==
    ASSUME NEW S, Shape(S), Cached(S), NEW T, NEW item, Reservable(S, item), Charges(S, T, item)
    PROVE  /\ Cached(T) /\ HeldBlocks(T) = HeldBlocks(S)
           /\ FreeBlocks(T) = FreeBlocks(S) - NeededFor(S, item)
<1> DEFINE r == item.id
           p == S.req[r]
           q == T.req[r]
           n == NeededFor(S, item)
<1>1. r \in RequestIds BY DEF Reservable
<1>2. Holds(q, S.index) /\ q.shared = p.shared /\ PrivateBlocks(q) = PrivateBlocks(p) + n
  <2>1. Holds(p, S.index) /\ RequestShape(p) BY <1>1 DEF Cached, Shape
  <2>2. q = [p EXCEPT !.pending = item.target] BY DEF Charges
  <2>3. p.pending = 0 /\ p.state \in Active /\ item.target \in Nat /\ item.target # 0
        /\ p.length <= item.target
    BY DEF Reservable
  <2> HIDE DEF p, q
  <2>4. /\ Holds(q, S.index) /\ q.shared = p.shared
        /\ PrivateBlocks(q)
             = PrivateBlocks(p) + (BlocksForLength(item.target) - BlocksForLength(TableLength(p)))
    BY <2>1, <2>2, <2>3, ReservedHolds
  <2> QED BY <2>4 DEF NeededFor, p
<1>3. \A o \in RequestIds : T.req[o].shared = S.req[o].shared BY <1>2 DEF Charges
<1>4. HeldBlocks(T) = HeldBlocks(S) BY <1>3 DEF HeldBlocks
<1>5. SharedBlocks(T) = SharedBlocks(S) BY <1>4 DEF SharedBlocks, Charges
<1>6. Cached(T)
  <2>1. \A o \in RequestIds : Holds(T.req[o], S.index) BY <1>2 DEF Charges, Cached
  <2> QED BY <2>1 DEF Cached, Charges
<1> DEFINE f == PrivateOf(S)
           g == PrivateOf(T)
<1>7. /\ \A o \in RequestIds : f[o] \in Int /\ g[o] \in Int
      /\ FreeBlocks(S) = TotalBlocks - (Part(f, RequestIds) + Cardinality(SharedBlocks(S)))
      /\ FreeBlocks(T) = TotalBlocks - (Part(g, RequestIds) + Cardinality(SharedBlocks(S)))
      /\ Cardinality(SharedBlocks(S)) \in Nat
  BY <1>5, <1>6, BlocksFinite
<1>8. \A o \in RequestIds \ {r} : g[o] = f[o] BY DEF PrivateOf, Charges
<1>9. g[r] = f[r] + n BY <1>1, <1>2 DEF PrivateOf
<1> HIDE DEF f, g, n
<1>10. /\ Part(f, RequestIds) = f[r] + Part(g, RequestIds \ {r})
       /\ Part(g, RequestIds \ {r}) \in Int
  BY <1>1, <1>7, <1>8, RequestsFinite, PartTakes
<1>11. Part(g, RequestIds) = g[r] + Part(g, RequestIds \ {r})
  <2>1. \A o \in RequestIds : g[o] \in Int BY <1>7
  <2> QED BY <1>1, <2>1, RequestsFinite, PartTakes
<1>12. n \in Int
  <2>1. item.target \in Nat /\ BlocksForLength(item.target) \in Nat
    BY BlocksMonotone DEF Reservable
  <2>2. BlocksForLength(TableLength(p)) \in Nat BY <1>1, PrivateIs DEF Cached
  <2> QED BY <2>1, <2>2 DEF n, NeededFor
<1>13. f[r] \in Int /\ g[r] \in Int /\ TotalBlocks \in Nat BY <1>1, <1>7, ConfigAssumption
<1>14. FreeBlocks(T) = FreeBlocks(S) - n BY <1>7, <1>9, <1>10, <1>11, <1>12, <1>13
<1> QED BY <1>4, <1>6, <1>14 DEF n

\* Evicting makes enough room for a reservation within the promises.
LEMMA ReserveFits ==
    ASSUME NEW S, Shape(S), Cached(S), NEW item, Reservable(S, item),
           NEW T, T = Reserve(S, item), Accounts(T), \A r \in RequestIds : Within(T.req[r])
    PROVE  Cached(T) /\ FreeBlocks(T) >= 0
<1> DEFINE needed == NeededFor(S, item)
           U == EvictUntil(S, needed)
<1>1. Thrifty(S, U) /\ EnoughOf(U, needed) BY EvictUntilThrifty
<1>2. Reindexes(S, U) BY EvictUntilReindexes
<1>3. Shape(U) /\ U.req = S.req BY <1>2 DEF Reindexes, Moves
<1>4. Cached(U) BY <1>1 DEF Thrifty
<1>5. Reserves(S, T, item)
  <2>1. item.id \in RequestIds BY DEF Reservable
  <2> QED BY <2>1, ReserveMoves
<1>6. Charges(U, T, item)
  <2>1. /\ Moves(U, T) /\ T.index = U.index
        /\ T.req[item.id] = [U.req[item.id] EXCEPT !.pending = item.target]
        /\ \A o \in RequestIds \ {item.id} : T.req[o] = U.req[o]
    BY <1>5 DEF Reserves, NeededFor
  <2> QED BY SMTT(30), <2>1 DEF Charges, Moves, SameQueues
<1>7. Reservable(U, item) /\ NeededFor(U, item) = needed BY <1>3 DEF Reservable, NeededFor
<1> HIDE DEF U, needed
<1>8. /\ Cached(T) /\ HeldBlocks(T) = HeldBlocks(U)
      /\ FreeBlocks(T) = FreeBlocks(U) - needed
  <2>1. /\ Cached(T) /\ HeldBlocks(T) = HeldBlocks(U)
        /\ FreeBlocks(T) = FreeBlocks(U) - NeededFor(U, item)
    BY <1>3, <1>4, <1>6, <1>7, ChargesFree
  <2> QED BY <1>7, <2>1
<1>9. CASE FreeBlocks(U) >= needed
  <2>1. FreeBlocks(U) \in Int BY <1>4, BlocksFinite
  <2>2. needed \in Int
    <3>1. BlocksForLength(item.target) \in Nat BY BlocksMonotone DEF Reservable
    <3>2. BlocksForLength(TableLength(S.req[item.id])) \in Nat
      BY PrivateIs DEF Cached, Reservable
    <3> QED BY <3>1, <3>2 DEF needed, NeededFor
  <2> QED BY <1>8, <1>9, <2>1, <2>2
<1>10. CASE ~CanEvict(U.index, HeldBlocks(U))
  <2>1. ListedBlocks(U.index) \subseteq HeldBlocks(U)
    <3>1. Trie(U.index) /\ ClosedUp(U.index, HeldBlocks(U)) BY <1>4, HeldClosedUp DEF Cached
    <3>2. \A e \in Listed(U.index) : U.index.entries[e].block \in HeldBlocks(U)
      BY <1>10, <3>1, UnheldLeaf
    <3> QED BY <3>2 DEF ListedBlocks
  <2>2. ListedBlocks(T.index) \subseteq HeldBlocks(T) BY <1>6, <1>8, <2>1 DEF Charges
  <2> QED BY <1>8, <2>2, AlwaysFits
<1> QED BY <1>1, <1>8, <1>9, <1>10 DEF EnoughOf

\* The loop of prepare_plan, one candidate further.
LEMMA PrepareNext ==
    ASSUME NEW S, NEW ids, NEW tokens, NEW n \in Nat
    PROVE  /\ Prepare(S, ids, tokens, 0) = S
           /\ Prepare(S, ids, tokens, n + 1)
                = Reserve(Prepare(S, ids, tokens, n), WorkItem(S, ids[n + 1], tokens[n + 1]))
<1>1. Prepare(S, ids, tokens, 0) = S
  <2>1. PICK turn : PrepareTurns(turn, S, ids, tokens, 0) BY PrepareTurnsExist
  <2> QED BY <2>1 DEF PrepareTurns
<1>2. n + 1 \in Nat /\ n + 1 \in 1 .. n + 1 /\ (n + 1) - 1 = n OBVIOUS
<1>3. PICK t : PrepareTurns(t, S, ids, tokens, n) BY PrepareTurnsExist
<1>4. PICK u : PrepareTurns(u, S, ids, tokens, n + 1) BY <1>2, PrepareTurnsExist
<1> DEFINE W == {k \in 0 .. n : t[k] = u[k]}
<1>5. 0 \in W BY <1>3, <1>4 DEF PrepareTurns
<1>6. ASSUME NEW k \in 0 .. n - 1, k \in W PROVE k + 1 \in W
  <2>1. /\ k + 1 \in 1 .. n /\ k + 1 \in 1 .. n + 1 /\ (k + 1) - 1 = k /\ k + 1 \in 0 .. n
        /\ t[k] = u[k]
    BY <1>6
  <2>2. t[k + 1] = Reserve(t[k], WorkItem(S, ids[k + 1], tokens[k + 1]))
    BY <1>3, <2>1 DEF PrepareTurns
  <2>3. u[k + 1] = Reserve(u[k], WorkItem(S, ids[k + 1], tokens[k + 1]))
    BY <1>4, <2>1 DEF PrepareTurns
  <2> QED BY <2>1, <2>2, <2>3
<1>7. t[n] = u[n]
  <2> HIDE DEF W
  <2>1. \A k \in 0 .. n : k \in W BY <1>5, <1>6, CountUp
  <2>2. n \in W BY <2>1
  <2> QED BY <2>2 DEF W
<1>8. u[n + 1] = Reserve(u[n], WorkItem(S, ids[n + 1], tokens[n + 1]))
  BY <1>2, <1>4 DEF PrepareTurns
<1>9. t[n] = Prepare(S, ids, tokens, n) BY <1>3 DEF PrepareTurns
<1>10. u[n + 1] = Prepare(S, ids, tokens, n + 1) BY <1>4 DEF PrepareTurns
<1> QED BY <1>1, <1>7, <1>8, <1>9, <1>10

\* A request at rest stays within its promise.
LEMMA RestWithin ==
    ASSUME NEW q, Rest(q)
    PROVE  Within(q)
<1>1. CASE q.state \in Active BY <1>1, WithinPromise DEF Within
<1>2. CASE q.state \notin Active
  <2>1. q.length = 0 /\ q.pending = 0 BY <1>2 DEF Rest, Progress
  <2> QED BY <1>2, <2>1 DEF Within, TableLength
<1> QED BY <1>1, <1>2

\* A request that was picked, before it is dispatched.
LEMMA PickedWithin ==
    ASSUME NEW S, NEW r, Rest(S.req[r]), S.req[r].state \in Active, RequestShape(S.req[r]),
           NEW t \in 1 .. WorkLimit(S.req[r]), NEW item, item = WorkItem(S, r, t)
    PROVE  /\ Within([S.req[r] EXCEPT !.pending = item.target])
           /\ item.target \in Nat /\ item.target # 0 /\ S.req[r].length <= item.target
<1> DEFINE p == S.req[r]
           q == [p EXCEPT !.pending = item.target]
           w == Working(q)
<1>1. t \in Nat /\ 1 <= t /\ (p.state # "decoding" => t <= Len(p.prompt) - p.cursor)
  BY ShareIs
<1>2. Busy(w, item) BY <1>1, PickedIsBusy
<1>3. item.target = IF p.state = "decoding" THEN p.length + 1 ELSE p.cursor + t
  BY WorkItemIs
<1>4. Rest(p) /\ p.state \in Active /\ RequestShape(p) OBVIOUS
<1> HIDE DEF p
<1>5. /\ q.state = p.state /\ q.pending = item.target /\ q.length = p.length
      /\ q.prompt = p.prompt /\ q.maxNew = p.maxNew
  BY <1>4 DEF RequestShape
<1>6. RequestShape(q) BY <1>4 DEF RequestShape
<1> HIDE DEF q
<1>7. /\ w.pending = q.pending /\ w.length = q.length /\ w.prompt = q.prompt
      /\ w.maxNew = q.maxNew /\ w.state \in {"decoding", "prefilling"}
  BY <1>6 DEF RequestShape, Working
<1> HIDE DEF w
<1>8. BlocksForLength(TableLength(w)) <= Promise(w)
  BY <1>2, <1>7, WithinPromise DEF Active
<1>9. TableLength(w) = TableLength(q) /\ Promise(w) = Promise(q)
  BY <1>7 DEF TableLength, Promise
<1>10. Within(q) BY <1>4, <1>5, <1>8, <1>9 DEF Within
<1>11. p.length \in Nat /\ p.cursor \in Nat /\ (p.state # "decoding" => p.cursor = p.length)
  BY <1>4 DEF Rest, Numbers, Progress
<1>12. item.target \in Nat /\ item.target # 0 /\ p.length <= item.target BY <1>1, <1>3, <1>11
<1> QED BY <1>10, <1>12 DEF q, p

\* prepare_plan finds a free block for all it reserves.
LEMMA PrepareFits ==
    ASSUME NEW S, NEW d, Control(S, d), AllRest(S), S.inflight = <<>>, Cached(S),
           FreeBlocks(S) >= 0, NEW ids \in Seq(RequestIds), IsInjectiveSeq(ids),
           NEW tokens, Picks(S, ids, tokens), NEW m \in 0 .. Len(ids)
    PROVE  Cached(Prepare(S, ids, tokens, m)) /\ FreeBlocks(Prepare(S, ids, tokens, m)) >= 0
<1> DEFINE P(n) == Prepare(S, ids, tokens, n)
           W == {n \in 0 .. m : Cached(P(n)) /\ FreeBlocks(P(n)) >= 0}
<1>1. m \in Nat /\ Len(ids) \in Nat /\ \A i \in 1 .. Len(ids) : ids[i] \in RequestIds
  OBVIOUS
<1>2. Shape(S) BY DEF Control
<1>3. P(0) = S BY PrepareNext
<1>4. 0 \in W BY <1>1, <1>3
<1>5. ASSUME NEW n \in 0 .. m, NEW T, T = P(n)
      PROVE  /\ PreparedTo(S, T, ids, tokens, n) /\ Shape(T) /\ Accounts(T)
             /\ \A r \in RequestIds : Within(T.req[r])
  <2>1. n \in 0 .. Len(ids) BY <1>1
  <2>2. PreparedTo(S, T, ids, tokens, n) BY <1>2, <1>5, <2>1, PrepareIs
  <2>3. Control(T, d) BY <2>2, MovesControl DEF PreparedTo
  <2>4. ASSUME NEW r \in RequestIds PROVE Within(T.req[r])
    <3>1. Rest(S.req[r]) /\ RequestShape(S.req[r]) BY <1>2 DEF AllRest, Shape
    <3>2. CASE \A i \in 1 .. n : ids[i] # r
      <4>1. T.req[r] = S.req[r] BY <2>2, <3>2 DEF PreparedTo
      <4> QED BY <3>1, <4>1, RestWithin
    <3>3. ASSUME NEW i \in 1 .. n, ids[i] = r PROVE Within(T.req[r])
      <4>1. i \in 1 .. Len(ids) BY <2>1
      <4> DEFINE t == tokens[i]
                 item == WorkItem(S, r, t)
      <4>2. S.req[r].state \in Active /\ t \in 1 .. WorkLimit(S.req[r])
        BY <3>3, <4>1 DEF Picks
      <4>3. T.req[r] = [S.req[r] EXCEPT !.pending = item.target]
        BY <2>2, <3>3 DEF PreparedTo
      <4> HIDE DEF t
      <4>4. Within([S.req[r] EXCEPT !.pending = item.target]) BY <3>1, <4>2, PickedWithin
      <4> QED BY <4>3, <4>4
    <3> QED BY <3>2, <3>3
  <2> QED BY <2>2, <2>3, <2>4 DEF Control
<1>6. ASSUME NEW n \in 0 .. m - 1, n \in W PROVE n + 1 \in W
  <2> DEFINE T == P(n)
             U == P(n + 1)
             r == ids[n + 1]
             t == tokens[n + 1]
             item == WorkItem(S, r, t)
  <2>1. /\ n \in 0 .. m /\ n + 1 \in 0 .. m /\ n \in Nat /\ n + 1 \in 1 .. Len(ids)
        /\ Cached(T) /\ FreeBlocks(T) >= 0
    BY <1>1, <1>6
  <2>2. PreparedTo(S, T, ids, tokens, n) /\ Shape(T) BY <1>5, <2>1
  <2>3. Accounts(U) /\ \A o \in RequestIds : Within(U.req[o]) BY <1>5, <2>1
  <2>4. U = Reserve(T, item) BY <2>1, PrepareNext
  <2>5. r \in RequestIds /\ S.req[r].state \in Active /\ t \in 1 .. WorkLimit(S.req[r])
    BY <1>1, <2>1 DEF Picks
  <2>6. item.id = r BY WorkItemIs
  <2>7. Rest(S.req[r]) /\ RequestShape(S.req[r]) BY <1>2, <2>5 DEF AllRest, Shape
  <2>8. T.req[r] = S.req[r]
    <3>1. \A i \in 1 .. n : i \in DOMAIN ids /\ n + 1 \in DOMAIN ids /\ i # n + 1 BY <1>1, <2>1
    <3>2. \A i \in 1 .. n : ids[i] # r BY <3>1 DEF IsInjectiveSeq
    <3> HIDE DEF T, r
    <3> QED BY <2>2, <2>5, <3>2 DEF PreparedTo
  <2> HIDE DEF T, U, r, t, P
  <2>9. item.target \in Nat /\ item.target # 0 /\ S.req[r].length <= item.target
    BY <2>5, <2>7, PickedWithin
  <2> HIDE DEF item
  <2>10. Reservable(T, item) BY <2>5, <2>6, <2>7, <2>8, <2>9 DEF Reservable, Rest
  <2>11. Cached(U) /\ FreeBlocks(U) >= 0 BY <2>1, <2>2, <2>3, <2>4, <2>10, ReserveFits
  <2> QED BY <2>1, <2>11 DEF U
<1>7. m \in W
  <2> HIDE DEF W
  <2>1. \A n \in 0 .. m : n \in W BY <1>1, <1>4, <1>6, CountUp
  <2> QED BY <1>1, <2>1
<1> QED BY <1>7

-----------------------------------------------------------------------------
(* Every call keeps trie and requests in agreement, and within the pool.   *)

\* Trie and requests agree, and the pool is not overdrawn.
Sound(S) == Cached(S) /\ FreeBlocks(S) >= 0

\* Thrifty steps keep that.
LEMMA SoundKept ==
    ASSUME NEW S, NEW T, Sound(S), Thrifty(S, T)
    PROVE  Sound(T)
<1>1. Cached(S) /\ Cached(T) /\ FreeBlocks(S) >= 0 /\ FreeBlocks(S) <= FreeBlocks(T)
  BY DEF Sound, Thrifty
<1>2. FreeBlocks(S) \in Int /\ FreeBlocks(T) \in Int BY <1>1, BlocksFinite
<1>3. FreeBlocks(T) >= 0 BY <1>1, <1>2
<1> QED BY <1>1, <1>3 DEF Sound

\* What reaches the caller takes no block.
LEMMA DeliverSound ==
    ASSUME NEW S, Shape(S), Sound(S), Deliver(S)
    PROVE  Sound(sch')
<1>1. PICK T : T = sch' OBVIOUS
<1>2. Thrifty(S, T) BY <1>1, DeliverThrifty
<1>3. Sound(T) BY <1>2, SoundKept
<1> QED BY <1>1, <1>3

\* submit: a new request holds nothing.
LEMMA SubmitSound ==
    ASSUME IInv, Sound(sch), NEW prompt \in Prompts, NEW maxNew \in MaxNewTokens,
           Submit(prompt, maxNew)
    PROVE  Sound(sch') /\ phase' = phase
<1>1. Shape(sch) BY DEF IInv, Control
<1>2. Submits(sch, sch', prompt, maxNew) /\ sch.next \in RequestIds /\ phase' = phase
  BY <1>1, SubmitIs
<1>3. prompt \in Seq(Nat) BY ConfigAssumption
<1>4. PICK T : T = sch' OBVIOUS
<1>5. /\ T.index = sch.index /\ T.suspect = sch.suspect
      /\ \E state : T.req = [sch.req EXCEPT ![sch.next] = Newcomer(prompt, maxNew, state)]
  BY <1>2, <1>4 DEF Submits
<1>6. PICK state : T.req = [sch.req EXCEPT ![sch.next] = Newcomer(prompt, maxNew, state)] BY <1>5
<1> DEFINE q == Newcomer(prompt, maxNew, state)
<1>7. Bare(q)
  <2>1. IsNewcomer(q, prompt, maxNew, state) BY NewcomerIs
  <2> HIDE DEF q
  <2> QED BY <1>3, <2>1 DEF IsNewcomer, Bare
<1> HIDE DEF q
<1>8. T.req[sch.next] = q /\ \A o \in RequestIds \ {sch.next} : T.req[o] = sch.req[o]
  <2>1. DOMAIN sch.req = RequestIds BY <1>1 DEF Shape
  <2>2. T.req = [sch.req EXCEPT ![sch.next] = q] BY <1>6 DEF q
  <2> QED BY <1>2, <2>1, <2>2
<1>9. Milder(sch.req[sch.next], T.req[sch.next]) BY <1>7, <1>8 DEF Milder
<1>10. Thrifty(sch, T)
  <2>1. /\ sch.next \in RequestIds /\ T.index = sch.index /\ T.suspect = sch.suspect
        /\ \A o \in RequestIds \ {sch.next} : T.req[o] = sch.req[o]
        /\ Holds(sch.req[sch.next], sch.index) => Milder(sch.req[sch.next], T.req[sch.next])
    BY <1>2, <1>5, <1>8, <1>9
  <2>2. PICK r : r = sch.next OBVIOUS
  <2>3. PICK S : S = sch OBVIOUS
  <2>4. /\ r \in RequestIds /\ T.index = S.index /\ T.suspect = S.suspect
        /\ \A o \in RequestIds \ {r} : T.req[o] = S.req[o]
        /\ Holds(S.req[r], S.index) => Milder(S.req[r], T.req[r])
    BY <2>1, <2>2, <2>3
  <2>5. Thrifty(S, T) BY ONLY <2>4, MildOne
  <2> QED BY <2>3, <2>5
<1>11. Sound(T) BY <1>10, SoundKept
<1> QED BY <1>2, <1>4, <1>11

\* The selection of a plan, made after expiring, admitting and adopting.
Selects(S, d, ids, tokens) ==
    /\ Control(S, d) /\ AllRest(S) /\ S.inflight = <<>> /\ Sound(S)
    /\ ids \in Seq(RequestIds) /\ IsInjectiveSeq(ids) /\ Len(ids) \in Nat
    /\ Picks(S, ids, tokens)

\* What plan_iteration selects from.
LEMMA RefreshedSound ==
    ASSUME IInv, Sound(sch), sch.inflight = <<>>, NEW expired \in 0 .. Len(sch.waiting),
           NEW S, S = Refreshed(sch, expired),
           NEW ids \in SetToAllKPermutations(Ready(S)), NEW tokens, Selection(S, ids, tokens)
    PROVE  Selects(S, delivered, ids, tokens)
<1>1. Control(sch, delivered) /\ AllRest(sch) BY SteadyEmpty DEF IInv
<1>2. Control(S, delivered) /\ S.inflight = <<>> /\ AllRest(S)
  <2>1. Refreshes(sch, S, delivered) BY <1>1, RefreshedControl
  <2> QED BY <1>1, <2>1 DEF Refreshes, KeepsRest, AllRest
<1>3. Sound(S)
  <2>1. Thrifty(sch, S) BY <1>1, RefreshedThrifty
  <2> QED BY <2>1, SoundKept
<1>4. Ready(S) \subseteq RequestIds BY <1>2, LiveIs DEF Ready
<1>5. /\ ids \in Seq(RequestIds) /\ IsInjectiveSeq(ids) /\ Len(ids) \in Nat
      /\ DOMAIN ids = 1 .. Len(ids) /\ \A i \in 1 .. Len(ids) : ids[i] \in Ready(S)
  BY <1>4, SelectionIs
<1>6. Picks(S, ids, tokens) BY <1>5 DEF Selection, Picks, Ready
<1> QED BY <1>2, <1>3, <1>5, <1>6 DEF Selects

\* prepare_plan never overdraws the pool.
LEMMA PrepareSound ==
    ASSUME NEW S, NEW d, NEW ids, NEW tokens, Selects(S, d, ids, tokens), NEW m \in 0 .. Len(ids)
    PROVE  Sound(Prepare(S, ids, tokens, m))
<1>1. /\ Control(S, d) /\ AllRest(S) /\ S.inflight = <<>> /\ Cached(S) /\ FreeBlocks(S) >= 0
      /\ ids \in Seq(RequestIds) /\ IsInjectiveSeq(ids) /\ Picks(S, ids, tokens)
  BY DEF Selects, Sound
<1>2. /\ Cached(Prepare(S, ids, tokens, m)) /\ FreeBlocks(Prepare(S, ids, tokens, m)) >= 0
  BY ONLY <1>1, PrepareFits, m \in 0 .. Len(ids)
<1> QED BY <1>2 DEF Sound

\* plan_iteration finds room for its reservations.
LEMMA PlanIterationSound ==
    ASSUME IInv, Sound(sch), NEW expired \in 0 .. Len(sch.waiting),
           NEW ids \in SetToAllKPermutations(Ready(Refreshed(sch, expired))), NEW tokens,
           PlanIteration(expired, ids, tokens)
    PROVE  Sound(sch') /\ phase' = phase
<1> DEFINE S == Refreshed(sch, expired)
           T == Prepare(S, ids, tokens, Len(ids))
<1>1. /\ sch.inflight = <<>> /\ Selection(S, ids, tokens)
      /\ ~OutOfBlocks(T) => Deliver(Dispatch(T)) /\ phase' = phase
  BY DEF PlanIteration, Callable
<1>2. Selects(S, delivered, ids, tokens)
  <2>1. ids \in SetToAllKPermutations(Ready(S)) OBVIOUS
  <2>2. S = Refreshed(sch, expired) OBVIOUS
  <2> HIDE DEF S
  <2> QED BY <1>1, <2>1, <2>2, RefreshedSound
<1>3. Sound(T) /\ Len(ids) \in 0 .. Len(ids)
  <2> HIDE DEF S
  <2>1. Len(ids) \in 0 .. Len(ids) BY <1>2 DEF Selects
  <2> QED BY <1>2, <2>1, PrepareSound
<1>4. Control(T, delivered) /\ Planned(T)
  <2>1. ids \in SetToAllKPermutations(Ready(S)) OBVIOUS
  <2> HIDE DEF S
  <2>2. Control(S, delivered) /\ S.inflight = <<>> BY <1>2 DEF Selects
  <2> QED BY <1>3, <2>1, <2>2, PrepareControl DEF Prepares
<1> HIDE DEF S, T
<1>5. ~OutOfBlocks(T)
  <2>1. FreeBlocks(T) >= 0 /\ FreeBlocks(T) \in Int BY <1>3, BlocksFinite DEF Sound
  <2> QED BY <2>1 DEF OutOfBlocks
<1>6. Shape(T) /\ \A r \in Inflight(T) : r \in RequestIds => T.req[r].state \in Active
  BY <1>4 DEF Planned, Inflight, Control
<1>7. Sound(Dispatch(T)) /\ Shape(Dispatch(T))
  <2>1. Thrifty(T, Dispatch(T)) BY <1>6, DispatchThrifty
  <2>2. Moves(T, Dispatch(T)) BY <1>6, DispatchIs
  <2> QED BY <1>3, <2>1, <2>2, SoundKept DEF Moves
<1>8. Sound(sch') BY <1>1, <1>5, <1>7, DeliverSound
<1> QED BY <1>1, <1>5, <1>8

\* plan_iteration that the host cannot finish.
LEMMA PlanIterationFailsSound ==
    ASSUME IInv, Sound(sch), NEW expired \in 0 .. Len(sch.waiting),
           NEW ids \in SetToAllKPermutations(Ready(Refreshed(sch, expired))), NEW tokens,
           NEW prepared \in 1 .. Len(ids), PlanIterationFails(expired, ids, tokens, prepared)
    PROVE  Sound(sch') /\ phase' = phase
<1> DEFINE S == Refreshed(sch, expired)
           T == Prepare(S, ids, tokens, prepared)
<1>1. /\ sch.inflight = <<>> /\ Selection(S, ids, tokens)
      /\ sch' = RollbackPrepared(T) /\ phase' = phase
  BY DEF PlanIterationFails, Callable
<1>2. Selects(S, delivered, ids, tokens)
  <2>1. ids \in SetToAllKPermutations(Ready(S)) OBVIOUS
  <2>2. S = Refreshed(sch, expired) OBVIOUS
  <2> HIDE DEF S
  <2> QED BY <1>1, <2>1, <2>2, RefreshedSound
<1>3. Sound(T) /\ prepared \in 0 .. Len(ids)
  <2> HIDE DEF S
  <2>1. prepared \in 0 .. Len(ids) BY <1>2 DEF Selects
  <2> QED BY <1>2, <2>1, PrepareSound
<1>4. Shape(T)
  <2>1. ids \in SetToAllKPermutations(Ready(S)) OBVIOUS
  <2> HIDE DEF S
  <2>2. Control(S, delivered) /\ S.inflight = <<>> BY <1>2 DEF Selects
  <2> QED BY <1>3, <2>1, <2>2, PrepareControl DEF Prepares, Control
<1> HIDE DEF S, T
<1>5. Thrifty(T, RollbackPrepared(T)) BY <1>4, RollbackThrifty
<1>6. Sound(RollbackPrepared(T)) BY <1>3, <1>5, SoundKept
<1> QED BY <1>1, <1>6

\* complete_iteration.
LEMMA CompleteIterationSound ==
    ASSUME IInv, Sound(sch), NEW stops, CompleteIteration(stops)
    PROVE  Sound(sch') /\ phase' = phase
<1> DEFINE items == sch.inflight
           T == [Committed(sch) EXCEPT !.inflight = <<>>]
           U == PublishAll(T, items, stops)
<1>1. Deliver(U) /\ phase' = phase BY SMTT(30) DEF CompleteIteration
<1>2. Control(sch, delivered) /\ Shape(sch) /\ Planned(sch) /\ Steady(sch) BY SMTT(30) DEF IInv, Control
<1>3. Moves(sch, T) /\ T.inflight = <<>> /\ Commits(sch, T)
  BY <1>2, CommittedIs DEF Commits
<1>4. Settleable(sch, items) BY <1>2, PlannedSettleable
<1>5. \A r \in RequestIds : r \in Inflight(sch) => sch.req[r].pending # 0
  BY SteadyPending DEF PendingExactlyInflight
<1>6. Thrifty(sch, T) BY <1>2, <1>5, CommitThrifty
<1> HIDE DEF T
<1>7. Control(T, delivered) BY <1>2, <1>3, MovesControl
<1>8. Settleable(T, items) BY <1>3, <1>4 DEF Settleable, Moves, Alike
<1>9. ASSUME NEW i \in 1 .. Len(items)
      PROVE  Half(T.req[items[i].id], items[i])
  <2> DEFINE r == items[i].id
             q == [sch.req[r] EXCEPT !.length = sch.req[r].pending, !.pending = 0]
  <2>1. i \in DOMAIN items /\ r \in RequestIds BY SMTT(30), <1>4 DEF Settleable
  <2>2. r \in Inflight(sch) BY SMTT(30), <2>1 DEF Inflight
  <2>3. T.req[r] = q BY <1>3, <2>1, <2>2 DEF Commits
  <2>4. Busy(sch.req[r], items[i]) BY <1>2, <2>1 DEF Steady
  <2>5. RequestShape(sch.req[r]) BY SMTT(30), <1>2, <2>1 DEF Shape
  <2>6. Half(q, items[i]) BY <2>4, <2>5, CommittedIsHalf
  <2> QED BY <2>3, <2>6
<1>10. Thrifty(T, U) BY <1>7, <1>8, <1>9, PublishAllThrifty
<1>11. Shape(U)
  <2>1. SettledTo(T, U, delivered, items, Len(items), "publish") BY <1>7, <1>8, PublishAllSettles
  <2> HIDE DEF U
  <2> QED BY <2>1 DEF SettledTo, Control
<1> HIDE DEF U
<1>12. Sound(U) BY <1>6, <1>10, SoundKept
<1> QED BY <1>1, <1>11, <1>12, DeliverSound

\* complete_iteration when a commit fails.
LEMMA CompleteIterationFaultedSound ==
    ASSUME IInv, Sound(sch), NEW failed, CompleteIterationFaulted(failed)
    PROVE  Sound(sch') /\ phase' = phase
<1> DEFINE items == sch.inflight
           ids   == [i \in DOMAIN items |-> items[i].id]
           A     == [sch EXCEPT !.inflight = <<>>]
           lost  == FinishThose(A, ids, failed, "executor_failure")
           U     == FinishThose(lost, ids, Inflight(sch) \ failed, "executor_failure")
<1>1. Deliver(U) /\ phase' = phase BY DEF CompleteIterationFaulted
<1>2. ids \in Seq(RequestIds)
  <2>1. Settleable(sch, items) BY PlannedSettleable DEF IInv
  <2>2. /\ Len(items) \in Nat /\ DOMAIN items = 1 .. Len(items)
        /\ \A i \in 1 .. Len(items) : items[i].id \in RequestIds
    BY <2>1 DEF Settleable
  <2> QED BY <2>2
<1> HIDE DEF ids
<1>3. Shape(A) /\ Thrifty(sch, A)
  <2>1. Shape(sch) BY DEF IInv, Control
  <2>2. Moves(sch, A) /\ A.req = sch.req /\ A.index = sch.index
    BY <2>1, EmptiedIs DEF Emptied
  <2> HIDE DEF A
  <2>3. Shape(A) /\ A.suspect = sch.suspect BY <2>2 DEF Moves, SameQueues
  <2> QED BY <2>2, <2>3, SameThrifty
<1> HIDE DEF A
<1>4. "executor_failure" \in Reasons BY DEF Reasons
<1>5. Thrifty(A, lost) /\ Shape(lost) BY <1>2, <1>3, <1>4, FinishThoseThrifty
<1> HIDE DEF lost
<1>6. Thrifty(lost, U) /\ Shape(U) BY <1>2, <1>4, <1>5, FinishThoseThrifty
<1> HIDE DEF U
<1>7. Sound(U)
  <2>1. Sound(A) BY <1>3, SoundKept
  <2>2. Sound(lost) BY <1>5, <2>1, SoundKept
  <2> QED BY <1>6, <2>2, SoundKept
<1> QED BY <1>1, <1>6, <1>7, DeliverSound

\* Either way to abort an iteration.
LEMMA AbortsSound ==
    ASSUME IInv, Sound(sch), NEW unknown \in BOOLEAN, NEW U,
           U = IF unknown THEN AbortMutationUnknown(sch) ELSE AbortNotDispatched(sch)
    PROVE  Sound(U) /\ Control(U, delivered) /\ U.inflight = <<>> /\ AllRest(U)
<1>1. Control(sch, delivered) /\ Planned(sch) /\ Steady(sch) BY DEF IInv
<1>2. Thrifty(sch, U) BY <1>1, AbortNotDispatchedThrifty, AbortMutationUnknownThrifty
<1>3. Unplanned(sch, U, delivered) BY <1>1, AbortUnplans
<1>4. Sound(U) BY <1>2, SoundKept
<1> QED BY <1>1, <1>3, <1>4 DEF Unplanned

\* abort_iteration.
LEMMA AbortIterationSound ==
    ASSUME IInv, Sound(sch), NEW unknown \in BOOLEAN, AbortIteration(unknown)
    PROVE  Sound(sch') /\ phase' = phase
<1>1. PICK U : U = IF unknown THEN AbortMutationUnknown(sch) ELSE AbortNotDispatched(sch)
  OBVIOUS
<1>2. Deliver(U) /\ phase' = phase BY <1>1 DEF AbortIteration
<1>3. Sound(U) /\ Control(U, delivered) BY <1>1, AbortsSound
<1> QED BY <1>2, <1>3, DeliverSound DEF Control

\* cancel, at once or deferred.
LEMMA CancelSound ==
    ASSUME IInv, Sound(sch), NEW r \in RequestIds, Cancel(r)
    PROVE  Sound(sch') /\ phase' = phase
<1>1. phase' = phase /\ Shape(sch) /\ r \in LiveRequests(sch) BY DEF Cancel, IInv, Control
<1>2. CASE r \in Inflight(sch)
  <2> DEFINE T == [sch EXCEPT !.req[r].deferred = TRUE]
             q == [sch.req[r] EXCEPT !.deferred = TRUE]
  <2>1. sch' = T BY <1>2 DEF Cancel
  <2>2. /\ T.req = [sch.req EXCEPT ![r] = q] /\ T.index = sch.index /\ T.suspect = sch.suspect
    BY <1>1 DEF Shape, SchedulerShape
  <2> HIDE DEF T
  <2>3. SameHold(sch.req[r], q) BY <1>1 DEF Shape, RequestShape, SameHold
  <2> HIDE DEF q
  <2>4. T.req[r] = q /\ \A o \in RequestIds \ {r} : T.req[o] = sch.req[o]
    <3>1. DOMAIN sch.req = RequestIds BY <1>1 DEF Shape
    <3> QED BY <2>2, <3>1
  <2>5. Holds(sch.req[r], sch.index) => Milder(sch.req[r], T.req[r])
    BY <2>3, <2>4, SameHoldMilder
  <2>6. Thrifty(sch, T)
    <3>1. T.index = sch.index /\ T.suspect = sch.suspect BY <2>2
    <3> QED BY <2>4, <2>5, <3>1, MildOne
  <2>7. Sound(T) BY <2>6, SoundKept
  <2> QED BY <1>1, <2>1, <2>7
<1>3. CASE r \notin Inflight(sch)
  <2> DEFINE U == Finish(sch, r, "cancelled")
  <2>1. Deliver(U) BY <1>3 DEF Cancel
  <2>2. "cancelled" \in Reasons BY DEF Reasons
  <2>3. Thrifty(sch, U) /\ Shape(U) BY <1>1, <2>2, FinishThrifty
  <2> HIDE DEF U
  <2>4. Sound(U) BY <2>3, SoundKept
  <2> QED BY <1>1, <2>1, <2>3, <2>4, DeliverSound
<1> QED BY <1>2, <1>3

\* Popping a completion and begin_shutdown touch neither trie nor requests.
LEMMA PopAndBeginSound ==
    ASSUME IInv, Sound(sch), PopPendingCompletion \/ BeginShutdown
    PROVE  Sound(sch') /\ phase' = phase
<1>1. Shape(sch) BY DEF IInv, Control
<1>2. /\ sch'.req = sch.req /\ sch'.index = sch.index /\ sch'.suspect = sch.suspect
      /\ phase' = phase
  BY <1>1 DEF Shape, SchedulerShape, PopPendingCompletion, BeginShutdown
<1>3. PICK T : T = sch' OBVIOUS
<1>4. Thrifty(sch, T) BY <1>2, <1>3, SameThrifty
<1>5. Sound(T) BY <1>4, SoundKept
<1> QED BY <1>2, <1>3, <1>5

\* T is S after shutdown.
IsShutDown(S, T, d) ==
    /\ Sound(T) /\ Control(T, d) /\ Listed(T.index) = {} /\ T.inflight = S.inflight
    /\ \A r \in RequestIds : T.req[r].state \notin Live
    /\ KeepsRest(S, T)

\* What shutdown leaves.
LEMMA ShutDownSound ==
    ASSUME NEW S, NEW d, Control(S, d), Sound(S)
    PROVE  IsShutDown(S, ShutDown(S), d)
<1>1. ShutsDown(S, ShutDown(S), d) BY ShutDownControl
<1>2. Thrifty(S, ShutDown(S)) /\ (Cached(S) => Listed(ShutDown(S).index) = {})
  BY ShutDownThrifty
<1>3. Sound(ShutDown(S)) BY <1>2, SoundKept
<1> QED BY <1>1, <1>2, <1>3 DEF ShutsDown, IsShutDown, Sound

\* shutdown.
LEMMA ShutdownSound ==
    ASSUME IInv, Sound(sch), Shutdown
    PROVE  Sound(sch') /\ phase' = phase
<1>1. Deliver(ShutDown(sch)) /\ phase' = phase BY DEF Shutdown
<1>2. IsShutDown(sch, ShutDown(sch), delivered) BY ShutDownSound DEF IInv
<1> QED BY <1>1, <1>2, DeliverSound DEF IsShutDown, Control

\* Without live requests, the allocated blocks are the listed ones.
LEMMA NothingHeld ==
    ASSUME NEW S, Cached(S), AllRest(S), \A r \in RequestIds : S.req[r].state \notin Live
    PROVE  AllocatedBlocks(S) = Cardinality(Listed(S.index))
<1>1. \A r \in RequestIds : S.req[r].shared = <<>> /\ TableLength(S.req[r]) = 0
  <2> SUFFICES ASSUME NEW r \in RequestIds
               PROVE  S.req[r].shared = <<>> /\ TableLength(S.req[r]) = 0
    OBVIOUS
  <2>1. Rest(S.req[r]) /\ S.req[r].state \notin Active BY StatesAre DEF AllRest
  <2> QED BY <2>1 DEF Rest, Progress, TableLength
<1>2. Part(PrivateOf(S), RequestIds) = 0
  <2>1. ASSUME NEW r \in RequestIds PROVE PrivateOf(S)[r] = 0
    <3>1. Holds(S.req[r], S.index) BY DEF Cached
    <3>2. PrivateBlocks(S.req[r]) = 0 BY <1>1, <3>1, PrivateIs
    <3> QED BY <3>2 DEF PrivateOf
  <2>2. IsFiniteSet(RequestIds) /\ IsFiniteSet({}) BY RequestsFinite, FS_EmptySet
  <2>3. Part(PrivateOf(S), {}) = 0 BY <2>2, PartStep
  <2>4. \A r \in RequestIds : PrivateOf(S)[r] \in Int BY <2>1
  <2>5. Part(PrivateOf(S), RequestIds) = Part(PrivateOf(S), {})
    BY <2>1, <2>2, <2>4, PartZero
  <2> QED BY <2>3, <2>5
<1>3. SharedBlocks(S) = ListedBlocks(S.index)
  <2>1. \A r \in RequestIds : ToSet(S.req[r].shared) = {} BY <1>1 DEF ToSet
  <2>2. HeldBlocks(S) = {} BY <2>1 DEF HeldBlocks
  <2> QED BY <2>2 DEF SharedBlocks
<1>4. Cardinality(ListedBlocks(S.index)) = Cardinality(Listed(S.index))
  <2> DEFINE x == S.index
             f == [id \in Listed(x) |-> x.entries[id].block]
  <2>1. Trie(x) /\ IsFiniteSet(Listed(x)) BY ListedAre DEF Cached, Trie
  <2>2. \A i, j \in Listed(x) : f[i] = f[j] => i = j BY <2>1 DEF Trie, Distinct
  <2>3. f \in Surjection(Listed(x), ListedBlocks(x)) BY DEF Surjection, ListedBlocks
  <2>4. f \in Injection(Listed(x), ListedBlocks(x))
    BY <2>2, <2>3 DEF Surjection, Injection, IsInjective
  <2> HIDE DEF f, x
  <2>5. Cardinality(ListedBlocks(x)) = Cardinality(Listed(x))
    BY <2>1, <2>3, <2>4, FS_Surjection
  <2> QED BY <2>5 DEF x
<1>5. /\ AllocatedBlocks(S) = Part(PrivateOf(S), RequestIds) + Cardinality(SharedBlocks(S))
      /\ Cardinality(SharedBlocks(S)) \in Nat
  BY BlocksFinite
<1> QED BY <1>2, <1>3, <1>4, <1>5

\* The check of close succeeds once every request ended and nothing is listed.
LEMMA ReleasedThen ==
    ASSUME NEW S, NEW d, Control(S, d), Cached(S), AllRest(S), Listed(S.index) = {},
           S.inflight = <<>>, \A r \in RequestIds : S.req[r].state \notin Live
    PROVE  Released(S)
<1>1. AllocatedBlocks(S) = 0 BY NothingHeld, FS_EmptySet
<1>2. StateIn(S, Active) = {} /\ StateIn(S, {"waiting"}) = {} BY StatesAre DEF StateIn, Live
<1>3. /\ Cardinality({}) = 0 /\ Part(PromiseOf(S), {}) = 0 /\ Part(LengthOf(S), {}) = 0
  BY FS_EmptySet, PartStep
<1>4. S.active = 0 /\ S.promised = 0 /\ S.waitingTokens = 0
  BY <1>2, <1>3 DEF Control, Accounts
<1>5. S.requests = <<>>
  <2>1. S.requests \in Seq(RequestIds) BY DEF Control, Queues
  <2>2. ASSUME S.requests # <<>> PROVE FALSE
    <3>1. 1 \in DOMAIN S.requests /\ S.requests[1] \in RequestIds BY <2>1, <2>2
    <3>2. S.requests[1] \in ToSet(S.requests) BY <3>1 DEF ToSet
    <3> QED BY <3>1, <3>2 DEF Control, Queues
  <2> QED BY <2>2
<1>6. S.waiting = <<>>
  <2>1. S.waiting \in Seq(RequestIds) BY DEF Control, Queues
  <2>2. ASSUME S.waiting # <<>> PROVE FALSE
    <3>1. 1 \in DOMAIN S.waiting /\ S.waiting[1] \in RequestIds BY <2>1, <2>2
    <3>2. S.waiting[1] \in ToSet(S.waiting) BY <3>1 DEF ToSet
    <3>3. S.req[S.waiting[1]].state = "waiting" BY <3>1, <3>2 DEF Control, Queues
    <3> QED BY <3>1, <3>3 DEF Live
  <2> QED BY <2>2
<1> QED BY <1>1, <1>4, <1>5, <1>6 DEF Released

\* close finds everything released.
LEMMA CloseSound ==
    ASSUME IInv, Sound(sch), NEW unknown \in BOOLEAN, Close(unknown)
    PROVE  Sound(sch') /\ phase' = "closed"
<1> DEFINE settled == IF sch.inflight = <<>> THEN sch
                      ELSE IF unknown THEN AbortMutationUnknown(sch)
                      ELSE AbortNotDispatched(sch)
           U == ShutDown(settled)
<1>1. Deliver(U) /\ (Released(U) => phase' = "closed") BY DEF Close
<1>2. /\ Control(settled, delivered) /\ settled.inflight = <<>> /\ AllRest(settled)
      /\ Sound(settled)
  <2>1. CASE sch.inflight = <<>> BY <2>1, SteadyEmpty DEF IInv
  <2>2. CASE sch.inflight # <<>>
    <3>1. settled = IF unknown THEN AbortMutationUnknown(sch) ELSE AbortNotDispatched(sch)
      BY <2>2
    <3> HIDE DEF settled
    <3> QED BY <3>1, AbortsSound
  <2> QED BY <2>1, <2>2
<1> HIDE DEF settled
<1>3. IsShutDown(settled, U, delivered) BY <1>2, ShutDownSound
<1> HIDE DEF U
<1>4. /\ Control(U, delivered) /\ Cached(U) /\ AllRest(U) /\ Listed(U.index) = {}
      /\ U.inflight = <<>> /\ \A r \in RequestIds : U.req[r].state \notin Live
  BY <1>2, <1>3 DEF IsShutDown, Sound, KeepsRest, AllRest
<1>5. Released(U) BY ONLY <1>4, ReleasedThen
<1>6. Sound(U) /\ Shape(U) BY <1>3 DEF IsShutDown, Control
<1> QED BY <1>1, <1>5, <1>6, DeliverSound

-----------------------------------------------------------------------------
(* The invariant of the cache. *)

CInv == IInv /\ Sound(sch) /\ phase \notin {"out_of_blocks", "not_released"}

\* A new scheduler has an empty index and all its blocks.
LEMMA InitCInv ==
    ASSUME Init
    PROVE  CInv
<1>1. IInv BY InitIInv
<1>2. /\ sch = [req |-> [r \in RequestIds |-> NoRequest], next |-> 1, requests |-> <<>>,
                waiting |-> <<>>, waitingTokens |-> 0, active |-> 0, promised |-> 0,
                outbox |-> <<>>, inflight |-> <<>>, index |-> EmptyIndex, accepting |-> TRUE,
                suspect |-> {}]
      /\ phase = "open"
  BY DEF Init
<1>3. /\ \A r \in RequestIds : sch.req[r] = NoRequest
      /\ sch.index = EmptyIndex /\ sch.suspect = {} /\ sch.inflight = <<>>
  BY <1>2
<1>4. Trie(EmptyIndex) /\ Listed(EmptyIndex) = {} BY EmptyIndexIs
<1>5. /\ NoRequest.shared = <<>> /\ NoRequest.tip = Root /\ NoRequest.length = 0
      /\ NoRequest.pending = 0 /\ NoRequest.prompt = <<>> /\ NoRequest.state = "unborn"
  BY DEF NoRequest
<1>6. Holds(NoRequest, EmptyIndex)
  <2>1. OwnBlocks(NoRequest)
    <3>1. <<>> \in Seq(BlockIds) /\ <<>> \in Seq(Nat) /\ Len(<<>>) = 0 OBVIOUS
    <3>2. 0 * BlockSize = 0 BY ConfigAssumption
    <3> QED BY <1>5, <3>1, <3>2 DEF OwnBlocks
  <2>2. PathHeld(NoRequest, EmptyIndex) BY <1>4 DEF PathHeld
  <2>3. TipHeld(NoRequest, EmptyIndex) BY <1>5 DEF TipHeld
  <2>4. Sized(NoRequest)
    <3>1. Len(<<>>) = 0 /\ 0 * BlockSize = 0 BY ConfigAssumption
    <3> QED BY <1>5, <3>1 DEF Sized
  <2> QED BY <2>1, <2>2, <2>3, <2>4 DEF Holds
<1>7. Cached(sch)
  <2>1. IsFiniteSet({}) BY FS_EmptySet
  <2> QED BY <1>3, <1>4, <1>6, <2>1 DEF Cached
<1>8. FreeBlocks(sch) >= 0
  <2>1. AllRest(sch) BY <1>1, <1>3, SteadyEmpty DEF IInv
  <2>2. \A r \in RequestIds : sch.req[r].state \notin Live BY <1>3, <1>5, StatesAre DEF Live, Active
  <2>3. AllocatedBlocks(sch) = 0 BY <1>3, <1>4, <1>7, <2>1, <2>2, NothingHeld, FS_EmptySet
  <2> QED BY <2>3, ConfigAssumption DEF FreeBlocks
<1> QED BY <1>1, <1>2, <1>7, <1>8 DEF CInv, Sound

\* A step keeps it.
LEMMA NextKeepsCInv ==
    ASSUME CInv, [Next]_vars
    PROVE  CInv'
<1>0. IInv /\ Sound(sch) /\ phase \notin {"out_of_blocks", "not_released"} BY DEF CInv
<1>1. CASE UNCHANGED vars
  <2>1. sch' = sch /\ phase' = phase BY <1>1 DEF vars
  <2>2. Sound(sch') BY <1>0, <2>1
  <2>3. IInv' BY <1>0, NextKeeps
  <2> QED BY <1>0, <2>1, <2>2, <2>3 DEF CInv
<1>2. ASSUME Sound(sch') /\ (phase' = phase \/ phase' = "closed")
      PROVE  CInv'
  <2>1. IInv' BY <1>0, NextKeeps
  <2> QED BY <1>0, <1>2, <2>1 DEF CInv, Sound
<1>3. ASSUME NEW prompt \in Prompts, NEW maxNew \in MaxNewTokens, Submit(prompt, maxNew)
      PROVE  CInv'
  BY <1>0, <1>2, <1>3, SubmitSound
<1>4. ASSUME NEW expired \in 0 .. Len(sch.waiting),
             NEW ids \in SetToAllKPermutations(Ready(Refreshed(sch, expired))),
             NEW tokens, PlanIteration(expired, ids, tokens)
      PROVE  CInv'
  BY <1>0, <1>2, <1>4, PlanIterationSound
<1>5. ASSUME NEW expired \in 0 .. Len(sch.waiting),
             NEW ids \in SetToAllKPermutations(Ready(Refreshed(sch, expired))),
             NEW tokens, NEW prepared \in 1 .. Len(ids),
             PlanIterationFails(expired, ids, tokens, prepared)
      PROVE  CInv'
  BY <1>0, <1>2, <1>5, PlanIterationFailsSound
<1>6. ASSUME NEW stops, CompleteIteration(stops)
      PROVE  CInv'
  BY <1>0, <1>2, <1>6, CompleteIterationSound
<1>7. ASSUME NEW failed, CompleteIterationFaulted(failed)
      PROVE  CInv'
  BY <1>0, <1>2, <1>7, CompleteIterationFaultedSound
<1>8. ASSUME NEW unknown \in BOOLEAN, AbortIteration(unknown) \/ Close(unknown)
      PROVE  CInv'
  BY <1>0, <1>2, <1>8, AbortIterationSound, CloseSound
<1>9. ASSUME NEW r \in RequestIds, Cancel(r)
      PROVE  CInv'
  BY <1>0, <1>2, <1>9, CancelSound
<1>10. CASE PopPendingCompletion \/ BeginShutdown BY <1>0, <1>2, <1>10, PopAndBeginSound
<1>11. CASE Shutdown BY <1>0, <1>2, <1>11, ShutdownSound
<1> QED BY <1>1, <1>3, <1>4, <1>5, <1>6, <1>7, <1>8, <1>9, <1>10, <1>11 DEF Next

\* Queues, plan, reports, trie and free blocks, whatever the order of the calls.
THEOREM CacheInvariantHolds == Spec => []CInv
<1>1. Init => CInv BY InitCInv
<1>2. CInv /\ [Next]_vars => CInv' BY NextKeepsCInv
<1> QED BY <1>1, <1>2, PTL DEF Spec

\* The trie, the tips under which requests publish and the eviction order agree after every
\* insert, evict_one, touch_path and clear.
THEOREM CacheStaysSound == Spec => []CacheSound
<1>1. CInv => CacheSound
  <2>1. CInv => Cached(sch) BY DEF CInv, Sound
  <2> QED BY <2>1, TrieConsistent, TipsCurrent, UnheldReached DEF CacheSound
<1> QED BY <1>1, CacheInvariantHolds, PTL

\* A request only ever computes with the keys and values of its own prompt, and never with
\* blocks that were shared when the device failed.
THEOREM AdoptedStaySound == Spec => []AdoptedPrefixesSound
<1>1. CInv => ReusedBlocksMatchPrompt
  <2> SUFFICES ASSUME CInv, NEW r \in InState(Active), NEW i \in DOMAIN sch.req[r].shared
               PROVE  sch.req[r].shared[i].prefix = SubSeq(sch.req[r].prompt, 1, i * BlockSize)
    BY DEF ReusedBlocksMatchPrompt
  <2>1. r \in RequestIds BY DEF InState
  <2>2. OwnBlocks(sch.req[r]) BY <2>1 DEF CInv, Sound, Cached, Holds
  <2>3. i \in 1 .. Len(sch.req[r].shared) BY <2>2 DEF OwnBlocks
  <2> QED BY <2>2, <2>3 DEF OwnBlocks
<1>2. CInv => SuspectBlocksStayUnlisted
  BY DEF CInv, Sound, Cached, SuspectBlocksStayUnlisted
<1> QED BY <1>1, <1>2, CacheInvariantHolds, PTL DEF AdoptedPrefixesSound

\* Without live requests every allocated block is a listed one, and close always succeeds,
\* having reported every request.
THEOREM NothingIsLeaked == Spec => []NothingLeaks
<1>1. CInv => phase # "not_released" BY DEF CInv
<1>2. CInv => (sch.requests = <<>> => AllocatedBlocks(sch) = Cardinality(Listed(sch.index)))
  <2> SUFFICES ASSUME CInv, sch.requests = <<>>
               PROVE  AllocatedBlocks(sch) = Cardinality(Listed(sch.index))
    OBVIOUS
  <2>1. Queues(sch) /\ Planned(sch) /\ Steady(sch) /\ Cached(sch)
    BY DEF CInv, IInv, Control, Sound
  <2>2. \A r \in RequestIds : sch.req[r].state \notin Live
    <3>1. \A r : r \notin ToSet(<<>>) BY DEF ToSet
    <3> QED BY <2>1, <3>1 DEF Queues
  <2>3. Inflight(sch) = {} BY <2>1, <2>2, StatesAre DEF Planned, Inflight, Live
  <2>4. AllRest(sch) BY <2>1, <2>3 DEF Steady, AllRest
  <2> QED BY <2>1, <2>2, <2>4, NothingHeld
<1>3. CInv => (phase = "closed" => \A r \in 1 .. sch.next - 1 : delivered[r] = 1)
  <2> SUFFICES ASSUME CInv, phase = "closed", NEW r \in 1 .. sch.next - 1
               PROVE  delivered[r] = 1
    OBVIOUS
  <2>1. sch.next \in 1 .. MaxRequests + 1 /\ ClosedReported
    BY DEF CInv, IInv, Control, Queues
  <2>2. MaxRequests \in Nat BY ConfigAssumption
  <2>3. r \in RequestIds /\ r < sch.next BY <2>1, <2>2 DEF RequestIds
  <2> QED BY <2>1, <2>3 DEF ClosedReported
<1> QED BY <1>1, <1>2, <1>3, CacheInvariantHolds, PTL DEF NothingLeaks

\* Held blocks stay within the promises and the promises within the pool, and evicting makes
\* enough room for every reservation: plan_iteration never runs out of blocks.
THEOREM PromisesAreKept == Spec => []PromisesKept
<1>1. CInv => ReservationsAlwaysFit BY DEF CInv, Sound, ReservationsAlwaysFit
<1> QED BY <1>1, PromisesCover, CacheInvariantHolds, PTL DEF PromisesKept
=============================================================================
