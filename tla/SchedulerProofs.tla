--------------------------- MODULE SchedulerProofs ---------------------------
(***************************************************************************)
(* What the scheduler promises its callers, for every configuration, any   *)
(* requests and any order of calls.                                        *)
(***************************************************************************)
EXTENDS Scheduler, FiniteSetTheorems, SequenceTheorems, WellFoundedInduction, TLAPS

-----------------------------------------------------------------------------
(* Counting up, and least numbers. *)

\* The order of the naturals is well-founded.
LEMMA LessWellFounded == IsWellFoundedOn({p \in Nat \X Nat : p[1] < p[2]}, Nat)
  BY NatLessThanWellFounded DEF OpToRel

\* A nonempty set of naturals has a least element.
LEMMA HasLeast ==
    ASSUME NEW T, T \subseteq Nat, T # {}
    PROVE  \E x \in T : \A y \in T : x <= y
<1> DEFINE R == {p \in Nat \X Nat : p[1] < p[2]}
<1>1. IsWellFoundedOn(R, Nat) BY LessWellFounded
<1> HIDE DEF R
<1>2. PICK x \in T : \A y \in T : ~(<<y, x>> \in R) BY <1>1, WFMin
<1>3. ASSUME NEW y \in T PROVE x <= y
  <2>1. ~(y < x) BY <1>2 DEF R
  <2> QED BY <2>1
<1> QED BY <1>3

\* What holds of 0, and of n + 1 when it holds of n, holds up to N.
LEMMA CountUp ==
    ASSUME NEW N \in Nat, NEW W, 0 \in W, \A n \in 0 .. N - 1 : n \in W => n + 1 \in W
    PROVE  \A n \in 0 .. N : n \in W
<1> DEFINE T == {n \in 0 .. N : n \notin W}
<1>1. SUFFICES ASSUME T # {} PROVE FALSE OBVIOUS
<1>2. PICK x \in T : \A y \in T : x <= y
  <2>1. T \subseteq Nat OBVIOUS
  <2> HIDE DEF T
  <2> QED BY <1>1, <2>1, HasLeast
<1>3. x # 0 /\ x - 1 \in 0 .. N - 1 OBVIOUS
<1>4. x - 1 \in W
  <2>1. x - 1 \notin T BY <1>2, <1>3
  <2> QED BY <1>3, <2>1
<1> QED BY <1>3, <1>4

\* Min is the least element.
LEMMA MinIsLeast ==
    ASSUME NEW T, T \subseteq Nat, T # {}
    PROVE  Min(T) \in T /\ \A y \in T : Min(T) <= y
  BY HasLeast DEF Min

\* A finite family of sets has a smallest member.
LEMMA HasSmallest ==
    ASSUME NEW D, IsFiniteSet(D), NEW T, T \subseteq SUBSET D, T # {}
    PROVE  \E s \in T : \A t \in T : Cardinality(s) <= Cardinality(t)
<1> DEFINE C == {Cardinality(s) : s \in T}
<1>1. C \subseteq Nat /\ C # {} BY FS_Subset, FS_CardinalityType
<1>2. PICK k \in C : \A y \in C : k <= y BY <1>1, HasLeast
<1> QED BY <1>2

-----------------------------------------------------------------------------
(* Sums. *)

\* The sum of f over a part of its domain.
Part(f, s) == SumOf([x \in s |-> f[x]])

\* What SumOf iterates.
Iterates(it, f, D) ==
    it = [s \in SUBSET D |-> IF s = {} THEN 0
                             ELSE LET x == CHOOSE x \in s : TRUE IN f[x] + it[s \ {x}]]

\* A recursion over the parts of a finite set has a value at each of them.
LEMMA IterateExists ==
    ASSUME NEW f, NEW D, IsFiniteSet(D)
    PROVE  \E it : Iterates(it, f, D)
<1> DEFINE Small(k) == {s \in SUBSET D : Cardinality(s) <= k}
           Good(g, k) == g = [s \in Small(k) |-> IF s = {} THEN 0
                              ELSE LET x == CHOOSE x \in s : TRUE IN f[x] + g[s \ {x}]]
           W == {k \in Nat : \E g : Good(g, k)}
           N == Cardinality(D)
<1>1. N \in Nat BY FS_CardinalityType DEF N
<1> HIDE DEF Small, Good, W, N
<1>2. ASSUME NEW s \in SUBSET D
      PROVE  /\ IsFiniteSet(s) /\ Cardinality(s) \in Nat /\ Cardinality(s) <= N
             /\ s # {} => LET x == CHOOSE x \in s : TRUE
                          IN x \in s /\ Cardinality(s \ {x}) = Cardinality(s) - 1
             /\ Cardinality(s) = 0 => s = {}
  BY FS_Subset, FS_CardinalityType, FS_RemoveElement, FS_EmptySet DEF N
<1>3. 0 \in W
  <2> DEFINE g == [s \in Small(0) |-> 0]
  <2>1. ASSUME NEW s \in Small(0) PROVE s = {}
    <3>1. s \in SUBSET D /\ Cardinality(s) <= 0 BY DEF Small
    <3>2. Cardinality(s) \in Nat BY <1>2, <3>1
    <3>3. Cardinality(s) = 0 BY <3>1, <3>2
    <3> QED BY <1>2, <3>1, <3>3
  <2>2. Good(g, 0) BY <2>1 DEF Good
  <2> QED BY <2>2 DEF W
<1>4. ASSUME NEW k \in 0 .. N - 1, k \in W PROVE k + 1 \in W
  <2>1. PICK g : Good(g, k) BY <1>4 DEF W
  <2> DEFINE h == [s \in Small(k + 1) |-> IF s = {} THEN 0
                     ELSE LET x == CHOOSE x \in s : TRUE IN f[x] + g[s \ {x}]]
  <2> HIDE DEF h
  <2>2. ASSUME NEW s \in Small(k) PROVE g[s] = h[s]
    <3>1. s \in Small(k + 1)
      <4>1. k \in Nat /\ Cardinality(s) <= k /\ s \in SUBSET D BY <1>1 DEF Small
      <4>2. Cardinality(s) \in Nat BY <1>2, <4>1
      <4> QED BY <4>1, <4>2 DEF Small
    <3>2. h[s] = IF s = {} THEN 0 ELSE LET x == CHOOSE x \in s : TRUE IN f[x] + g[s \ {x}]
      BY <3>1 DEF h
    <3>3. g[s] = IF s = {} THEN 0 ELSE LET x == CHOOSE x \in s : TRUE IN f[x] + g[s \ {x}]
      BY <2>1 DEF Good
    <3> QED BY <3>2, <3>3
  <2>3. ASSUME NEW s \in Small(k + 1), s # {}
        PROVE  s \ {CHOOSE x \in s : TRUE} \in Small(k)
    <3>1. k \in Nat /\ Cardinality(s) <= k + 1 /\ s \in SUBSET D BY <1>1 DEF Small
    <3> DEFINE x == CHOOSE x \in s : TRUE
    <3>2. Cardinality(s \ {x}) = Cardinality(s) - 1 /\ Cardinality(s) \in Nat
      BY <1>2, <2>3, <3>1
    <3> HIDE DEF x
    <3>3. s \ {x} \in SUBSET D /\ Cardinality(s \ {x}) <= k BY <3>1, <3>2
    <3>4. s \ {x} \in Small(k) BY <3>3 DEF Small
    <3> QED BY <3>4 DEF x
  <2>4. Good(h, k + 1)
    <3>1. \A s \in Small(k + 1) : s # {} =>
            g[s \ {CHOOSE x \in s : TRUE}] = h[s \ {CHOOSE x \in s : TRUE}]
      BY <2>2, <2>3
    <3>2. \A s \in Small(k + 1) :
             (IF s = {} THEN 0 ELSE LET x == CHOOSE x \in s : TRUE IN f[x] + g[s \ {x}])
             = (IF s = {} THEN 0 ELSE LET x == CHOOSE x \in s : TRUE IN f[x] + h[s \ {x}])
      BY <3>1
    <3>3. [s \in Small(k + 1) |-> IF s = {} THEN 0
             ELSE LET x == CHOOSE x \in s : TRUE IN f[x] + g[s \ {x}]]
          = [s \in Small(k + 1) |-> IF s = {} THEN 0
             ELSE LET x == CHOOSE x \in s : TRUE IN f[x] + h[s \ {x}]]
      BY <3>2
    <3> QED BY <3>3 DEF Good, h
  <2>5. k + 1 \in Nat BY <1>1
  <2> QED BY <2>4, <2>5 DEF W
<1>5. N \in W BY <1>1, <1>3, <1>4, CountUp
<1>6. PICK g : Good(g, N) BY <1>5 DEF W
<1>7. Small(N) = SUBSET D BY <1>2 DEF Small
<1> QED BY ZenonT(60), <1>6, <1>7 DEF Iterates, Good

\* SumOf iterates.
LEMMA SumIs ==
    ASSUME NEW f, IsFiniteSet(DOMAIN f)
    PROVE  \E it : Iterates(it, f, DOMAIN f) /\ SumOf(f) = it[DOMAIN f]
<1> DEFINE it0 == CHOOSE it : Iterates(it, f, DOMAIN f)
<1>1. Iterates(it0, f, DOMAIN f) BY IterateExists
<1>2. SumOf(f) = it0[DOMAIN f] BY DEF SumOf, MapThenSumSet, MapThenFoldSet, Iterates
<1> QED BY <1>1, <1>2

\* What a sum over a part iterates.
LEMMA PartStep ==
    ASSUME NEW f, NEW s, IsFiniteSet(s)
    PROVE  /\ s = {} => Part(f, s) = 0
           /\ s # {} => LET x == CHOOSE x \in s : TRUE
                        IN  x \in s /\ Part(f, s) = f[x] + Part(f, s \ {x})
<1> DEFINE g == [x \in s |-> f[x]]
<1>1. PICK it : Iterates(it, g, s) /\ Part(f, s) = it[s]
  <2>1. DOMAIN g = s OBVIOUS
  <2>2. Part(f, s) = SumOf(g) BY DEF Part
  <2> HIDE DEF g
  <2>3. \E it : Iterates(it, g, DOMAIN g) /\ SumOf(g) = it[DOMAIN g] BY <2>1, SumIs
  <2> QED BY <2>1, <2>2, <2>3
<1>2. CASE s = {} BY <1>1, <1>2 DEF Iterates
<1>3. CASE s # {}
  <2> DEFINE x == CHOOSE x \in s : TRUE
             h == [y \in s \ {x} |-> f[y]]
  <2>1. x \in s BY <1>3
  <2>2. IsFiniteSet(s \ {x}) BY FS_Subset
  <2>3. PICK jt : Iterates(jt, h, s \ {x}) /\ Part(f, s \ {x}) = jt[s \ {x}]
    <3>1. DOMAIN h = s \ {x} OBVIOUS
    <3>2. Part(f, s \ {x}) = SumOf(h) BY DEF Part
    <3> HIDE DEF h, x
    <3>3. \E jt : Iterates(jt, h, DOMAIN h) /\ SumOf(h) = jt[DOMAIN h] BY <2>2, <3>1, SumIs
    <3> QED BY <3>1, <3>2, <3>3
  <2> DEFINE T == {t \in SUBSET (s \ {x}) : it[t] # jt[t]}
  <2>4. T = {}
    <3>1. SUFFICES ASSUME T # {} PROVE FALSE OBVIOUS
    <3>2. T \subseteq SUBSET (s \ {x}) OBVIOUS
    <3>3. PICK t \in T : \A u \in T : Cardinality(t) <= Cardinality(u)
      <4> HIDE DEF T, x
      <4> QED BY <2>2, <3>1, <3>2, HasSmallest
    <3>4. t \in SUBSET (s \ {x}) /\ t \in SUBSET s /\ it[t] # jt[t] OBVIOUS
    <3> DEFINE c == CHOOSE c \in t : TRUE
    <3>5. t # {} BY <1>1, <2>3, <3>4 DEF Iterates
    <3>6. c \in t BY <3>5
    <3>7. it[t] = g[c] + it[t \ {c}] /\ jt[t] = h[c] + jt[t \ {c}]
      BY <1>1, <2>3, <3>4, <3>5 DEF Iterates
    <3>8. g[c] = f[c] /\ h[c] = f[c] BY <3>4, <3>6
    <3>9. it[t \ {c}] = jt[t \ {c}]
      <4>1. IsFiniteSet(t) BY <2>2, <3>4, FS_Subset
      <4>2. Cardinality(t \ {c}) = Cardinality(t) - 1 /\ Cardinality(t) \in Nat
        BY <3>6, <4>1, FS_RemoveElement, FS_CardinalityType
      <4>3. ~(Cardinality(t) <= Cardinality(t \ {c})) BY <4>2
      <4>4. t \ {c} \notin T BY <3>3, <4>3
      <4> QED BY <3>4, <4>4
    <3> QED BY <3>4, <3>7, <3>8, <3>9
  <2>5. it[s \ {x}] = jt[s \ {x}] BY <2>4
  <2>6. it[s] = g[x] + it[s \ {x}] BY <1>1, <1>3 DEF Iterates
  <2> QED BY <1>1, <1>3, <2>1, <2>3, <2>5, <2>6
<1> QED BY <1>2, <1>3

\* A sum of naturals is a natural, whatever comes first.
LEMMA PartSplit ==
    ASSUME NEW D, IsFiniteSet(D), NEW f, \A x \in D : f[x] \in Int
    PROVE  \A s \in SUBSET D : /\ Part(f, s) \in Int
                               /\ \A x \in s : Part(f, s) = f[x] + Part(f, s \ {x})
<1> DEFINE Good(s) == /\ Part(f, s) \in Int
                      /\ \A x \in s : Part(f, s) = f[x] + Part(f, s \ {x})
           T == {s \in SUBSET D : ~Good(s)}
<1> HIDE DEF Good
<1>1. SUFFICES ASSUME T # {} PROVE FALSE BY DEF Good
<1>2. PICK s \in T : \A t \in T : Cardinality(s) <= Cardinality(t)
  <2>1. T \subseteq SUBSET D OBVIOUS
  <2> HIDE DEF T
  <2> QED BY <1>1, <2>1, HasSmallest
<1>3. s \in SUBSET D /\ IsFiniteSet(s) /\ ~Good(s) BY FS_Subset
<1>4. \A x \in s : Good(s \ {x})
  <2>1. ASSUME NEW x \in s PROVE Good(s \ {x})
    <3>1. Cardinality(s \ {x}) = Cardinality(s) - 1 /\ Cardinality(s) \in Nat
      BY <1>3, FS_RemoveElement, FS_CardinalityType
    <3>2. ~(Cardinality(s) <= Cardinality(s \ {x})) BY <3>1
    <3> QED BY <1>2, <1>3, <3>2
  <2> QED BY <2>1
<1>5. CASE s = {}
  <2>1. Part(f, s) = 0 BY <1>3, <1>5, PartStep
  <2>2. Good(s) BY <1>5, <2>1 DEF Good
  <2> QED BY <1>3, <2>2
<1>6. CASE s # {}
  <2>1. PICK c \in s : Part(f, s) = f[c] + Part(f, s \ {c}) BY <1>3, <1>6, PartStep
  <2>2. Part(f, s \ {c}) \in Int /\ f[c] \in Int BY <1>3, <1>4 DEF Good
  <2>3. ASSUME NEW x \in s PROVE Part(f, s) = f[x] + Part(f, s \ {x})
    <3>1. CASE x = c BY <2>1, <3>1
    <3>2. CASE x # c
      <4>1. Part(f, s \ {c}) = f[x] + Part(f, (s \ {c}) \ {x})
        BY <1>4, <3>2 DEF Good
      <4>2. Part(f, s \ {x}) = f[c] + Part(f, (s \ {x}) \ {c})
        BY <1>4, <3>2 DEF Good
      <4>3. (s \ {c}) \ {x} = (s \ {x}) \ {c} OBVIOUS
      <4>4. Part(f, (s \ {c}) \ {x}) \in Int
        <5>1. c \in s \ {x} BY <3>2
        <5>2. Part(f, s \ {x}) \in Int /\ f[x] \in Int BY <1>3, <1>4 DEF Good
        <5> DEFINE u == (s \ {c}) \ {x}
        <5>3. IsFiniteSet(u) /\ u \in SUBSET D BY <1>3, FS_Subset
        <5>4. Cardinality(u) < Cardinality(s)
          <6>1. Cardinality(s \ {c}) = Cardinality(s) - 1 /\ IsFiniteSet(s \ {c})
            BY <1>3, FS_RemoveElement
          <6>2. x \in s \ {c} BY <3>2
          <6>3. Cardinality(u) = Cardinality(s \ {c}) - 1
            BY <6>1, <6>2, FS_RemoveElement
          <6> QED BY <1>3, <6>1, <6>3, FS_CardinalityType
        <5>5. ~(Cardinality(s) <= Cardinality(u))
          BY <1>3, <5>3, <5>4, FS_CardinalityType
        <5> HIDE DEF u
        <5>6. Good(u) BY <1>2, <5>3, <5>5
        <5> QED BY <5>6 DEF Good, u
      <4>5. f[x] \in Int BY <1>3
      <4> DEFINE z == Part(f, (s \ {c}) \ {x})
      <4>6. /\ Part(f, s \ {c}) = f[x] + z /\ Part(f, s \ {x}) = f[c] + z /\ z \in Int
        BY <4>1, <4>2, <4>3, <4>4
      <4> HIDE DEF z
      <4> QED BY <2>1, <2>2, <4>5, <4>6
    <3> QED BY <3>1, <3>2
  <2>4. Part(f, s) \in Int BY <2>1, <2>2
  <2>5. Good(s) BY <2>3, <2>4 DEF Good
  <2> QED BY <1>3, <2>5
<1> QED BY <1>5, <1>6
-----------------------------------------------------------------------------
(* Sequences. *)

IsInjectiveSeq(s) == \A i, j \in DOMAIN s : s[i] = s[j] => i = j

Increasing(s) == \A i, j \in DOMAIN s : i < j => s[i] < s[j]

\* Where an element of a sequence stands first.
LEMMA FirstIndex ==
    ASSUME NEW X, NEW s \in Seq(X), NEW e \in ToSet(s)
    PROVE  \E i \in 1 .. Len(s) : /\ s[i] = e
                                  /\ i = SelectInSeq(s, LAMBDA x : x = e)
<1> DEFINE I == {i \in 1 .. Len(s) : s[i] = e}
<1>1. I # {} /\ I \subseteq Nat BY DEF ToSet
<1>2. Min(I) \in I BY <1>1, MinIsLeast
<1>3. SelectInSeq(s, LAMBDA x : x = e) = Min(I) BY <1>1 DEF SelectInSeq
<1> QED BY <1>2, <1>3

\* RemoveFirst takes one element out of a sequence without repetition.
LEMMA RemoveFirstIs ==
    ASSUME NEW X, NEW s \in Seq(X), NEW e \in ToSet(s)
    PROVE  \E i \in 1 .. Len(s) :
             /\ s[i] = e
             /\ RemoveFirst(s, e) \in Seq(X)
             /\ Len(RemoveFirst(s, e)) = Len(s) - 1
             /\ \A k \in 1 .. Len(s) - 1 :
                    RemoveFirst(s, e)[k] = IF k < i THEN s[k] ELSE s[k + 1]
<1>1. PICK i \in 1 .. Len(s) : s[i] = e /\ i = SelectInSeq(s, LAMBDA x : x = e)
  BY FirstIndex
<1>2. RemoveFirst(s, e) = SubSeq(s, 1, i - 1) \o SubSeq(s, i + 1, Len(s))
  BY <1>1 DEF RemoveFirst, RemoveAt
<1>3. /\ SubSeq(s, 1, i - 1) \in Seq(X) /\ Len(SubSeq(s, 1, i - 1)) = i - 1
      /\ \A k \in 1 .. i - 1 : SubSeq(s, 1, i - 1)[k] = s[k]
  OBVIOUS
<1>4. /\ SubSeq(s, i + 1, Len(s)) \in Seq(X) /\ Len(SubSeq(s, i + 1, Len(s))) = Len(s) - i
      /\ \A k \in 1 .. Len(s) - i : SubSeq(s, i + 1, Len(s))[k] = s[i + k]
  OBVIOUS
<1> DEFINE a == SubSeq(s, 1, i - 1)
           b == SubSeq(s, i + 1, Len(s))
<1> HIDE DEF a, b
<1>5. /\ a \o b \in Seq(X) /\ Len(a \o b) = Len(s) - 1
      /\ \A k \in 1 .. Len(s) - 1 : (a \o b)[k] = IF k < i THEN s[k] ELSE s[k + 1]
  <2>1. /\ a \in Seq(X) /\ Len(a) = i - 1 /\ \A k \in 1 .. i - 1 : a[k] = s[k] BY <1>3 DEF a
  <2>2. /\ b \in Seq(X) /\ Len(b) = Len(s) - i /\ \A k \in 1 .. Len(s) - i : b[k] = s[i + k]
    BY <1>4 DEF b
  <2>3. Len(s) \in Nat /\ i \in 1 .. Len(s) OBVIOUS
  <2>4. /\ a \o b \in Seq(X) /\ Len(a \o b) = Len(a) + Len(b)
        /\ \A k \in 1 .. Len(a) + Len(b) :
               (a \o b)[k] = IF k <= Len(a) THEN a[k] ELSE b[k - Len(a)]
    BY <2>1, <2>2, ConcatProperties
  <2>5. Len(a) + Len(b) = Len(s) - 1 BY <2>1, <2>2, <2>3
  <2>6. ASSUME NEW k \in 1 .. Len(s) - 1
        PROVE  (a \o b)[k] = IF k < i THEN s[k] ELSE s[k + 1]
    <3>1. CASE k < i
      <4>1. k \in 1 .. i - 1 BY <2>3, <3>1
      <4> QED BY <2>1, <2>3, <2>4, <2>5, <3>1, <4>1
    <3>2. CASE ~(k < i)
      <4>1. k - (i - 1) \in 1 .. Len(s) - i /\ i + (k - (i - 1)) = k + 1 BY <2>3, <3>2
      <4>2. b[k - (i - 1)] = s[k + 1] BY <2>2, <4>1
      <4>3. (a \o b)[k] = b[k - (i - 1)] BY SMTT(30), <2>1, <2>3, <2>4, <2>5, <3>2
      <4> QED BY <3>2, <4>2, <4>3
    <3> QED BY <3>1, <3>2
  <2> QED BY <2>4, <2>5, <2>6
<1> QED BY <1>1, <1>2, <1>5 DEF a, b

\* What remains of an injective sequence without one of its elements.
LEMMA RemoveFirstInjective ==
    ASSUME NEW X, NEW s \in Seq(X), NEW e \in ToSet(s), IsInjectiveSeq(s)
    PROVE  /\ RemoveFirst(s, e) \in Seq(X)
           /\ Len(RemoveFirst(s, e)) = Len(s) - 1
           /\ IsInjectiveSeq(RemoveFirst(s, e))
           /\ ToSet(RemoveFirst(s, e)) = ToSet(s) \ {e}
<1>1. PICK i \in 1 .. Len(s) :
             /\ s[i] = e
             /\ RemoveFirst(s, e) \in Seq(X)
             /\ Len(RemoveFirst(s, e)) = Len(s) - 1
             /\ \A k \in 1 .. Len(s) - 1 :
                    RemoveFirst(s, e)[k] = IF k < i THEN s[k] ELSE s[k + 1]
  BY RemoveFirstIs
<1> DEFINE t == RemoveFirst(s, e)
<1> HIDE DEF t
<1>2. /\ t \in Seq(X) /\ Len(t) = Len(s) - 1 /\ Len(s) \in Nat
      /\ DOMAIN t = 1 .. Len(s) - 1 /\ DOMAIN s = 1 .. Len(s)
      /\ \A k \in 1 .. Len(s) - 1 : t[k] = IF k < i THEN s[k] ELSE s[k + 1]
  BY <1>1 DEF t
<1>3. IsInjectiveSeq(t)
  <2>1. SUFFICES ASSUME NEW j \in DOMAIN t, NEW k \in DOMAIN t, t[j] = t[k] PROVE j = k
    BY DEF IsInjectiveSeq
  <2>2. \A a, b \in 1 .. Len(s) : s[a] = s[b] => a = b BY <1>2 DEF IsInjectiveSeq
  <2> QED BY SMTT(30), <1>2, <2>1, <2>2
<1>4. \A k \in DOMAIN t : t[k] \in ToSet(s) \ {e}
  <2>1. \A a, b \in 1 .. Len(s) : s[a] = s[b] => a = b BY <1>2 DEF IsInjectiveSeq
  <2>2. SUFFICES ASSUME NEW k \in DOMAIN t PROVE t[k] \in ToSet(s) \ {e}
    OBVIOUS
  <2>3. PICK a \in 1 .. Len(s) : t[k] = s[a] /\ a # i
    <3>1. CASE k < i BY <1>2, <3>1
    <3>2. CASE ~(k < i) BY <1>2, <3>2
    <3> QED BY <3>1, <3>2
  <2>4. s[a] # e BY <1>1, <2>1, <2>3
  <2> QED BY <1>2, <2>3, <2>4 DEF ToSet
<1>5. \A a \in DOMAIN s : s[a] # e => s[a] \in ToSet(t)
  <2>1. SUFFICES ASSUME NEW a \in DOMAIN s, s[a] # e
                 PROVE  \E k \in DOMAIN t : s[a] = t[k]
    BY DEF ToSet
  <2>2. a # i BY <1>1, <2>1
  <2>3. CASE a < i
    <3>1. a \in DOMAIN t /\ t[a] = s[a] BY <1>2, <2>3
    <3> QED BY <3>1
  <2>4. CASE a > i
    <3>1. a - 1 \in DOMAIN t BY <1>2, <2>4
    <3>2. t[a - 1] = s[(a - 1) + 1] BY <1>2, <2>4, <3>1
    <3>3. (a - 1) + 1 = a BY <1>2
    <3> QED BY <3>1, <3>2, <3>3
  <2> QED BY <1>2, <2>2, <2>3, <2>4
<1>6. ToSet(t) = ToSet(s) \ {e} BY <1>4, <1>5 DEF ToSet
<1> QED BY <1>2, <1>3, <1>6 DEF t

\* What remains of an increasing sequence without one of its elements.
LEMMA RemoveFirstIncreasing ==
    ASSUME NEW s \in Seq(Nat), NEW e \in ToSet(s), Increasing(s)
    PROVE  Increasing(RemoveFirst(s, e))
<1>1. PICK i \in 1 .. Len(s) :
             /\ s[i] = e
             /\ RemoveFirst(s, e) \in Seq(Nat)
             /\ Len(RemoveFirst(s, e)) = Len(s) - 1
             /\ \A k \in 1 .. Len(s) - 1 :
                    RemoveFirst(s, e)[k] = IF k < i THEN s[k] ELSE s[k + 1]
  BY RemoveFirstIs
<1> DEFINE t == RemoveFirst(s, e)
<1> HIDE DEF t
<1>2. /\ Len(s) \in Nat
      /\ DOMAIN t = 1 .. Len(s) - 1 /\ DOMAIN s = 1 .. Len(s)
      /\ \A k \in 1 .. Len(s) - 1 : t[k] = IF k < i THEN s[k] ELSE s[k + 1]
  <2>1. t \in Seq(Nat) /\ Len(t) = Len(s) - 1 BY <1>1 DEF t
  <2> QED BY <1>1, <2>1 DEF t
<1>3. SUFFICES ASSUME NEW j \in DOMAIN t, NEW k \in DOMAIN t, j < k PROVE t[j] < t[k]
  BY DEF Increasing, t
<1>4. \A a, b \in 1 .. Len(s) : a < b => s[a] < s[b] BY <1>2 DEF Increasing
<1>5. PICK a \in 1 .. Len(s), b \in 1 .. Len(s) : t[j] = s[a] /\ t[k] = s[b] /\ a < b
  <2>1. j \in 1 .. Len(s) /\ k \in 1 .. Len(s) /\ j + 1 \in 1 .. Len(s) /\ k + 1 \in 1 .. Len(s)
    BY SMTT(30), <1>2
  <2>2. CASE k < i BY <1>2, <1>3, <2>1, <2>2
  <2>3. CASE ~(k < i) BY <1>2, <1>3, <2>1, <2>3
  <2> QED BY <2>2, <2>3
<1> QED BY <1>4, <1>5

\* An increasing sequence does not repeat itself.
LEMMA IncreasingInjective ==
    ASSUME NEW s \in Seq(Nat), Increasing(s)
    PROVE  IsInjectiveSeq(s)
<1>1. SUFFICES ASSUME NEW i \in DOMAIN s, NEW j \in DOMAIN s, s[i] = s[j] PROVE i = j
  BY DEF IsInjectiveSeq
<1>2. s[i] \in Nat /\ s[j] \in Nat /\ i \in Nat /\ j \in Nat OBVIOUS
<1>3. (i < j => s[i] < s[j]) /\ (j < i => s[j] < s[i]) BY DEF Increasing
<1> QED BY <1>1, <1>2, <1>3

\* swap_remove takes one element out of a sequence without repetition.
LEMMA SwapRemoveInjective ==
    ASSUME NEW X, NEW s \in Seq(X), NEW e \in ToSet(s), IsInjectiveSeq(s)
    PROVE  /\ SwapRemove(s, e) \in Seq(X)
           /\ IsInjectiveSeq(SwapRemove(s, e))
           /\ ToSet(SwapRemove(s, e)) = ToSet(s) \ {e}
<1>1. PICK i \in 1 .. Len(s) : s[i] = e /\ i = SelectInSeq(s, LAMBDA x : x = e)
  BY FirstIndex
<1> DEFINE u == [s EXCEPT ![i] = Last(s)]
           t == Front(u)
<1>2. SwapRemove(s, e) = t BY <1>1 DEF SwapRemove
<1>3. Len(s) \in Nat /\ DOMAIN s = 1 .. Len(s) /\ Last(s) = s[Len(s)] /\ Len(s) \in 1 .. Len(s)
  BY DEF Last
<1>4. u \in Seq(X) /\ Len(u) = Len(s)
      /\ \A k \in 1 .. Len(s) : u[k] = IF k = i THEN s[Len(s)] ELSE s[k]
  BY <1>3
<1>5. t \in Seq(X) /\ Len(t) = Len(s) - 1 /\ DOMAIN t = 1 .. Len(s) - 1
      /\ \A k \in 1 .. Len(s) - 1 : t[k] = IF k = i THEN s[Len(s)] ELSE s[k]
  <2> HIDE DEF u
  <2> QED BY <1>3, <1>4 DEF Front
<1> HIDE DEF u, t
<1>6. \A a, b \in 1 .. Len(s) : s[a] = s[b] => a = b BY <1>3 DEF IsInjectiveSeq
<1>7. IsInjectiveSeq(t)
  <2>1. SUFFICES ASSUME NEW j \in DOMAIN t, NEW k \in DOMAIN t, t[j] = t[k] PROVE j = k
    BY DEF IsInjectiveSeq
  <2> QED BY <1>3, <1>5, <1>6, <2>1
<1>8. \A k \in DOMAIN t : t[k] \in ToSet(s) \ {e}
  <2>1. SUFFICES ASSUME NEW k \in DOMAIN t PROVE t[k] \in ToSet(s) \ {e}
    OBVIOUS
  <2>2. PICK a \in 1 .. Len(s) : t[k] = s[a] /\ a # i BY <1>3, <1>5
  <2>3. s[a] # e BY <1>1, <1>6, <2>2
  <2> QED BY <1>3, <2>2, <2>3 DEF ToSet
<1>9. \A a \in DOMAIN s : s[a] # e => s[a] \in ToSet(t)
  <2>1. SUFFICES ASSUME NEW a \in DOMAIN s, s[a] # e
                 PROVE  \E k \in DOMAIN t : s[a] = t[k]
    BY DEF ToSet
  <2>2. a # i BY <1>1, <2>1
  <2>3. CASE a = Len(s)
    <3>1. i \in 1 .. Len(s) - 1 BY <1>1, <1>3, <2>2, <2>3
    <3>2. i \in DOMAIN t /\ t[i] = s[a] BY <1>5, <2>3, <3>1
    <3> QED BY <3>2
  <2>4. CASE a # Len(s)
    <3>1. a \in DOMAIN t /\ t[a] = s[a] BY <1>3, <1>5, <2>2, <2>4
    <3> QED BY <3>1
  <2> QED BY <2>3, <2>4
<1>10. ToSet(t) = ToSet(s) \ {e} BY <1>8, <1>9 DEF ToSet
<1> QED BY <1>2, <1>5, <1>7, <1>10

\* The rest of a queue.
LEMMA TailOfIncreasing ==
    ASSUME NEW s \in Seq(Nat), s # <<>>, Increasing(s)
    PROVE  /\ Tail(s) \in Seq(Nat) /\ Increasing(Tail(s))
           /\ Head(s) \in ToSet(s) /\ ToSet(Tail(s)) = ToSet(s) \ {Head(s)}
           /\ \A e \in ToSet(Tail(s)) : Head(s) < e
<1>1. /\ Len(s) \in Nat /\ Len(s) # 0 /\ DOMAIN s = 1 .. Len(s) /\ Head(s) = s[1]
      /\ Tail(s) \in Seq(Nat) /\ DOMAIN Tail(s) = 1 .. Len(s) - 1
      /\ \A k \in 1 .. Len(s) - 1 : Tail(s)[k] = s[k + 1]
  OBVIOUS
<1>2. \A i, j \in 1 .. Len(s) : i < j => s[i] < s[j] BY <1>1 DEF Increasing
<1> DEFINE t == Tail(s)
<1> HIDE DEF t
<1>3. /\ DOMAIN t = 1 .. Len(s) - 1 /\ \A k \in 1 .. Len(s) - 1 : t[k] = s[k + 1] BY <1>1 DEF t
<1>4. Increasing(t)
  <2>1. SUFFICES ASSUME NEW j \in DOMAIN t, NEW k \in DOMAIN t, j < k PROVE t[j] < t[k]
    BY DEF Increasing
  <2>2. j + 1 \in 1 .. Len(s) /\ k + 1 \in 1 .. Len(s) /\ j + 1 < k + 1 BY SMTT(30), <1>1, <1>3, <2>1
  <2>3. t[j] = s[j + 1] /\ t[k] = s[k + 1] BY <1>3
  <2> QED BY <1>2, <2>2, <2>3
<1>5. \A e \in ToSet(t) : e \in ToSet(s) /\ s[1] < e
  <2>1. SUFFICES ASSUME NEW k \in DOMAIN t PROVE t[k] \in ToSet(s) /\ s[1] < t[k]
    BY DEF ToSet
  <2>2. k + 1 \in 1 .. Len(s) /\ 1 \in 1 .. Len(s) /\ 1 < k + 1 BY <1>1, <1>3
  <2>3. t[k] = s[k + 1] BY <1>3
  <2> QED BY <1>1, <1>2, <2>2, <2>3 DEF ToSet
<1>6. s[1] \in ToSet(s) BY <1>1 DEF ToSet
<1>7. \A e \in ToSet(s) : e # s[1] => e \in ToSet(t)
  <2>1. SUFFICES ASSUME NEW a \in DOMAIN s, s[a] # s[1] PROVE s[a] \in ToSet(t)
    BY DEF ToSet
  <2>2. a - 1 \in DOMAIN t /\ (a - 1) + 1 = a BY <1>1, <1>3, <2>1
  <2>3. t[a - 1] = s[a] BY <1>3, <2>2
  <2> QED BY <2>2, <2>3 DEF ToSet
<1>8. s[1] \notin ToSet(t)
  <2>1. \A e \in ToSet(t) : e \in Nat
    <3>1. \A e \in ToSet(s) : e \in Nat BY <1>1 DEF ToSet
    <3> QED BY <1>5, <3>1
  <2> QED BY <1>5, <2>1
<1> QED BY <1>1, <1>4, <1>5, <1>6, <1>7, <1>8 DEF t

\* A new last element.
LEMMA AppendIs ==
    ASSUME NEW X, NEW s \in Seq(X), NEW e \in X
    PROVE  /\ Append(s, e) \in Seq(X)
           /\ ToSet(Append(s, e)) = ToSet(s) \cup {e}
           /\ IsInjectiveSeq(s) /\ e \notin ToSet(s) => IsInjectiveSeq(Append(s, e))
           /\ Increasing(s) /\ (\A x \in ToSet(s) : x < e) => Increasing(Append(s, e))
<1> DEFINE t == Append(s, e)
           n == Len(s)
<1>1. /\ t \in Seq(X) /\ n \in Nat /\ DOMAIN t = 1 .. n + 1 /\ DOMAIN s = 1 .. n
      /\ \A k \in 1 .. n : t[k] = s[k]
      /\ t[n + 1] = e
  OBVIOUS
<1> HIDE DEF t, n
<1>2. ToSet(t) = ToSet(s) \cup {e}
  <2>1. ASSUME NEW k \in DOMAIN t PROVE t[k] \in ToSet(s) \cup {e}
    BY <1>1 DEF ToSet
  <2>2. ASSUME NEW k \in DOMAIN s PROVE s[k] \in ToSet(t)
    <3>1. k \in DOMAIN t /\ s[k] = t[k] BY <1>1
    <3> QED BY <3>1 DEF ToSet
  <2>3. e \in ToSet(t)
    <3>1. n + 1 \in DOMAIN t BY <1>1
    <3> QED BY <1>1, <3>1 DEF ToSet
  <2> QED BY <2>1, <2>2, <2>3 DEF ToSet
<1>3. ASSUME IsInjectiveSeq(s), e \notin ToSet(s) PROVE IsInjectiveSeq(t)
  <2>1. SUFFICES ASSUME NEW j \in DOMAIN t, NEW k \in DOMAIN t, t[j] = t[k] PROVE j = k
    BY DEF IsInjectiveSeq
  <2>2. \A k1 \in 1 .. n : s[k1] # e BY <1>1, <1>3 DEF ToSet
  <2>3. \A a, b \in 1 .. n : s[a] = s[b] => a = b BY <1>1, <1>3 DEF IsInjectiveSeq
  <2> QED BY <1>1, <2>1, <2>2, <2>3
<1>4. ASSUME Increasing(s), \A x \in ToSet(s) : x < e PROVE Increasing(t)
  <2>1. SUFFICES ASSUME NEW j \in DOMAIN t, NEW k \in DOMAIN t, j < k PROVE t[j] < t[k]
    BY DEF Increasing
  <2>2. \A k1 \in 1 .. n : s[k1] < e BY <1>1, <1>4 DEF ToSet
  <2>3. \A a, b \in 1 .. n : a < b => s[a] < s[b] BY <1>1, <1>4 DEF Increasing
  <2> QED BY <1>1, <2>1, <2>2, <2>3
<1> QED BY <1>1, <1>2, <1>3, <1>4 DEF t

\* The elements of a sequence, in the reverse order.
LEMMA ReverseInjective ==
    ASSUME NEW X, NEW s \in Seq(X), IsInjectiveSeq(s)
    PROVE  /\ Reverse(s) \in Seq(X) /\ Len(Reverse(s)) = Len(s)
           /\ IsInjectiveSeq(Reverse(s)) /\ ToSet(Reverse(s)) = ToSet(s)
<1> DEFINE t == Reverse(s)
           n == Len(s)
<1>1. n \in Nat /\ DOMAIN s = 1 .. n /\ \A k \in 1 .. n : (n - k) + 1 \in 1 .. n OBVIOUS
<1>2. t = [k \in 1 .. n |-> s[(n - k) + 1]] BY DEF Reverse
<1>3. /\ t \in Seq(X) /\ Len(t) = n /\ DOMAIN t = 1 .. n
      /\ \A k \in 1 .. n : t[k] = s[(n - k) + 1]
  <2>1. \A k \in 1 .. n : s[(n - k) + 1] \in X BY <1>1
  <2> HIDE DEF t
  <2>2. t \in [1 .. n -> X] BY <1>2, <2>1
  <2>3. t \in Seq(X) BY <1>1, <2>2
  <2> QED BY <1>1, <1>2, <2>3
<1> HIDE DEF t, n
<1>4. IsInjectiveSeq(t)
  <2>1. SUFFICES ASSUME NEW j \in DOMAIN t, NEW k \in DOMAIN t, t[j] = t[k] PROVE j = k
    BY DEF IsInjectiveSeq
  <2>2. \A a, b \in 1 .. n : s[a] = s[b] => a = b BY <1>1 DEF IsInjectiveSeq
  <2>3. (n - j) + 1 = (n - k) + 1 BY <1>1, <1>3, <2>1, <2>2
  <2> QED BY <1>1, <1>3, <2>3
<1>5. \A k \in DOMAIN t : t[k] \in ToSet(s) BY <1>1, <1>3 DEF ToSet
<1>6. ASSUME NEW a \in DOMAIN s PROVE s[a] \in ToSet(t)
  <2>1. (n - a) + 1 \in 1 .. n /\ (n - ((n - a) + 1)) + 1 = a BY <1>1
  <2>2. t[(n - a) + 1] = s[a] BY <1>3, <2>1
  <2> QED BY <1>3, <2>1, <2>2 DEF ToSet
<1>7. ToSet(t) = ToSet(s) BY <1>5, <1>6 DEF ToSet
<1> QED BY <1>3, <1>4, <1>7 DEF t, n
-----------------------------------------------------------------------------
(* The shape of a scheduler: its fields, whatever they hold. *)

SchedulerShape(S) ==
    S \in [req : {S.req}, next : {S.next}, requests : {S.requests}, waiting : {S.waiting},
           waitingTokens : {S.waitingTokens}, active : {S.active}, promised : {S.promised},
           outbox : {S.outbox}, inflight : {S.inflight}, index : {S.index},
           accepting : {S.accepting}, suspect : {S.suspect}]

RequestShape(q) ==
    q \in [state : {q.state}, prompt : {q.prompt}, maxNew : {q.maxNew}, cursor : {q.cursor},
           generated : {q.generated}, length : {q.length}, pending : {q.pending},
           shared : {q.shared}, tip : {q.tip}, linked : {q.linked}, deferred : {q.deferred},
           cached : {q.cached}]

Shape(S) ==
    /\ SchedulerShape(S)
    /\ S.req = [r \in RequestIds |-> S.req[r]]
    /\ \A r \in RequestIds : RequestShape(S.req[r])

\* Two schedulers that differ in some of their requests and in what is named.
SameQueues(S, T) ==
    /\ T.next = S.next /\ T.requests = S.requests /\ T.waiting = S.waiting
    /\ T.waitingTokens = S.waitingTokens /\ T.active = S.active /\ T.promised = S.promised
    /\ T.outbox = S.outbox /\ T.accepting = S.accepting /\ T.suspect = S.suspect

Ended(reason) == [NoRequest EXCEPT !.state = TerminalState(reason)]

Reasons == {"length", "stop", "cancelled", "admission_timeout", "executor_failure"}

\* A request that ended.
LEMMA EndedIs ==
    ASSUME NEW reason \in Reasons
    PROVE  /\ RequestShape(Ended(reason)) /\ Ended(reason).state \in Terminal
           /\ Ended(reason).prompt = <<>> /\ Ended(reason).pending = 0
           /\ Ended(reason).length = 0 /\ Ended(reason).shared = <<>>
           /\ Ended(reason).deferred = FALSE
<1>1. TerminalState(reason) \in Terminal BY DEF TerminalState, Reasons, Terminal
<1> QED BY <1>1 DEF Ended, NoRequest, RequestShape

\* T is S without request r, which ended.
Without(S, T, r, reason) ==
    /\ Shape(T)
    /\ T.req = [S.req EXCEPT ![r] = Ended(reason)]
    /\ T.req[r] = Ended(reason)
    /\ \A o \in RequestIds \ {r} : T.req[o] = S.req[o]
    /\ T.requests = SwapRemove(S.requests, r)
    /\ T.outbox = Append(S.outbox, [id |-> r, reason |-> reason])
    /\ T.waiting = IF S.req[r].state = "waiting" THEN RemoveFirst(S.waiting, r)
                                                 ELSE S.waiting
    /\ T.waitingTokens = IF S.req[r].state = "waiting"
                         THEN S.waitingTokens - Len(S.req[r].prompt)
                         ELSE S.waitingTokens
    /\ T.active = IF S.req[r].state = "waiting" THEN S.active ELSE S.active - 1
    /\ T.promised = IF S.req[r].state = "waiting" THEN S.promised
                    ELSE S.promised - Promise(S.req[r])
    /\ T.next = S.next /\ T.inflight = S.inflight /\ T.index = S.index
    /\ T.accepting = S.accepting /\ T.suspect = S.suspect

\* What finish_live_request leaves of a scheduler.
LEMMA FinishIs ==
    ASSUME NEW S, Shape(S), NEW r \in RequestIds, NEW reason \in Reasons
    PROVE  Without(S, Finish(S, r, reason), r, reason)
<1> DEFINE q == S.req[r]
           left == IF q.state = "waiting"
                   THEN [S EXCEPT !.waiting = RemoveFirst(@, r),
                                  !.waitingTokens = @ - Len(q.prompt)]
                   ELSE [S EXCEPT !.active = @ - 1,
                                  !.promised = @ - Promise(q)]
           T == Finish(S, r, reason)
<1>1. /\ SchedulerShape(left)
      /\ left.req = S.req /\ left.requests = S.requests /\ left.outbox = S.outbox
      /\ left.next = S.next /\ left.inflight = S.inflight /\ left.index = S.index
      /\ left.accepting = S.accepting /\ left.suspect = S.suspect
      /\ left.waiting = IF q.state = "waiting" THEN RemoveFirst(S.waiting, r) ELSE S.waiting
      /\ left.waitingTokens = IF q.state = "waiting" THEN S.waitingTokens - Len(q.prompt)
                              ELSE S.waitingTokens
      /\ left.active = IF q.state = "waiting" THEN S.active ELSE S.active - 1
      /\ left.promised = IF q.state = "waiting" THEN S.promised ELSE S.promised - Promise(q)
  <2>1. CASE q.state = "waiting" BY <2>1 DEF Shape, SchedulerShape
  <2>2. CASE q.state # "waiting" BY <2>2 DEF Shape, SchedulerShape
  <2> QED BY <2>1, <2>2
<1>2. T = [left EXCEPT !.req[r] = Ended(reason),
                       !.requests = SwapRemove(@, r),
                       !.outbox = Append(@, [id |-> r, reason |-> reason])]
  BY DEF Finish, Ended
<1> HIDE DEF left, q, T
<1>3. /\ SchedulerShape(T)
      /\ T.req = [S.req EXCEPT ![r] = Ended(reason)]
      /\ T.requests = SwapRemove(S.requests, r)
      /\ T.outbox = Append(S.outbox, [id |-> r, reason |-> reason])
      /\ T.next = left.next /\ T.inflight = left.inflight /\ T.index = left.index
      /\ T.accepting = left.accepting /\ T.suspect = left.suspect
      /\ T.waiting = left.waiting /\ T.waitingTokens = left.waitingTokens
      /\ T.active = left.active /\ T.promised = left.promised
  BY <1>1, <1>2 DEF SchedulerShape
<1>4. /\ T.req = [o \in RequestIds |-> T.req[o]]
      /\ T.req[r] = Ended(reason) /\ \A o \in RequestIds \ {r} : T.req[o] = S.req[o]
  BY <1>3 DEF Shape
<1>5. \A o \in RequestIds : RequestShape(T.req[o]) BY <1>4, EndedIs DEF Shape
<1>6. Shape(T) BY <1>3, <1>4, <1>5 DEF Shape
<1>7. Without(S, T, r, reason) BY <1>1, <1>3, <1>4, <1>6 DEF Without, q
<1> QED BY <1>7 DEF T
-----------------------------------------------------------------------------
(* The queues and the reports.                                             *)

Live == Active \cup {"waiting"}

States == {"unborn"} \cup Live \cup Terminal

\* How many notifications of request r an outbox holds.
Events(outbox, r) == Cardinality({i \in DOMAIN outbox : outbox[i].id = r})

\* `requests` holds the live requests, `waiting` those that wait, oldest first.
Queues(S) ==
    /\ S.next \in 1 .. MaxRequests + 1
    /\ \A r \in RequestIds : /\ S.req[r].state \in States
                             /\ S.req[r].state = "unborn" <=> r >= S.next
    /\ S.requests \in Seq(RequestIds) /\ IsInjectiveSeq(S.requests)
    /\ \A r \in RequestIds : r \in ToSet(S.requests) <=> S.req[r].state \in Live
    /\ S.waiting \in Seq(RequestIds) /\ Increasing(S.waiting)
    /\ \A r \in RequestIds : r \in ToSet(S.waiting) <=> S.req[r].state = "waiting"

Notifications == [id : RequestIds, reason : Reasons]

\* A request that ended is in d or in the outbox, once.
Reports(S, d) ==
    /\ S.outbox \in Seq(Notifications)
    /\ d \in [RequestIds -> Nat]
    /\ \A r \in RequestIds :
        d[r] + Events(S.outbox, r) = IF S.req[r].state \in Terminal THEN 1 ELSE 0

PromptsAreSeqs(S) == \A r \in RequestIds : S.req[r].prompt \in Seq(Nat)


\* No request becomes active and none joins the queue.
Quiet(S, T) ==
    \A r \in RequestIds : /\ T.req[r].state \in Active => S.req[r].state \in Active
                          /\ T.req[r].state = "waiting" => S.req[r].state = "waiting"

\* What has become active is older than what waits.
InOrder(S, T) ==
    \A r, later \in RequestIds :
        r < later /\ T.req[r].state = "waiting" /\ T.req[later].state \in Active
            => S.req[later].state \in Active

\* Sequences over a set are sequences over a larger one.
LEMMA SeqWider ==
    ASSUME NEW X, NEW Y, X \subseteq Y, NEW s \in Seq(X)
    PROVE  s \in Seq(Y)
<1>1. Len(s) \in Nat /\ s \in [1 .. Len(s) -> X] OBVIOUS
<1>2. s \in [1 .. Len(s) -> Y] BY <1>1
<1> QED BY <1>1, <1>2

\* Of an outbox and one more notification.
LEMMA EventsAppend ==
    ASSUME NEW o \in Seq(Notifications), NEW e \in Notifications
    PROVE  \A r \in RequestIds : /\ Events(o, r) \in Nat
                                 /\ Events(Append(o, e), r)
                                      = Events(o, r) + IF e.id = r THEN 1 ELSE 0
<1> DEFINE n == Len(o)
           p == Append(o, e)
<1>1. /\ n \in Nat /\ DOMAIN o = 1 .. n /\ DOMAIN p = 1 .. n + 1
      /\ \A i \in 1 .. n : p[i] = o[i]
      /\ p[n + 1] = e
  OBVIOUS
<1> HIDE DEF n, p
<1>2. SUFFICES ASSUME NEW r \in RequestIds
      PROVE  Events(o, r) \in Nat /\ Events(p, r) = Events(o, r) + IF e.id = r THEN 1 ELSE 0
  BY DEF p
<1> DEFINE A == {i \in DOMAIN o : o[i].id = r}
           B == {i \in DOMAIN p : p[i].id = r}
<1>3. IsFiniteSet(A) /\ n + 1 \notin A
  <2>1. IsFiniteSet(1 .. n) /\ A \subseteq 1 .. n BY <1>1, FS_Interval
  <2> QED BY <1>1, <2>1, FS_Subset
<1>4. B = IF e.id = r THEN A \cup {n + 1} ELSE A BY <1>1
<1>5. Cardinality(A) \in Nat /\ Cardinality(A \cup {n + 1}) = Cardinality(A) + 1
  BY <1>3, FS_AddElement, FS_CardinalityType
<1>6. Events(o, r) = Cardinality(A) /\ Events(p, r) = Cardinality(B) BY DEF Events
<1> HIDE DEF A, B
<1>7. CASE e.id = r BY <1>4, <1>5, <1>6, <1>7
<1>8. CASE e.id # r BY <1>4, <1>5, <1>6, <1>8
<1> QED BY <1>7, <1>8

\* Of an outbox and its first notification.
LEMMA EventsTail ==
    ASSUME NEW o \in Seq(Notifications), o # <<>>
    PROVE  \A r \in RequestIds : /\ Events(Tail(o), r) \in Nat
                                 /\ Events(o, r)
                                      = Events(Tail(o), r) + IF Head(o).id = r THEN 1 ELSE 0
<1> DEFINE n == Len(o)
           p == Tail(o)
<1>1. /\ n \in Nat /\ n # 0 /\ DOMAIN o = 1 .. n /\ DOMAIN p = 1 .. n - 1
      /\ \A i \in 1 .. n - 1 : p[i] = o[i + 1]
      /\ Head(o) = o[1]
  OBVIOUS
<1> HIDE DEF n, p
<1>2. SUFFICES ASSUME NEW r \in RequestIds
      PROVE  Events(p, r) \in Nat /\ Events(o, r) = Events(p, r) + IF Head(o).id = r THEN 1 ELSE 0
  BY DEF p
<1> DEFINE A == {i \in DOMAIN p : p[i].id = r}
           B == {i \in DOMAIN o : o[i].id = r}
           up == [i \in A |-> i + 1]
           U == {i \in B : i # 1}
<1>3. IsFiniteSet(A) /\ IsFiniteSet(B)
  <2>1. IsFiniteSet(1 .. n) /\ A \subseteq 1 .. n /\ B \subseteq 1 .. n BY SMTT(30), <1>1, FS_Interval
  <2> QED BY <2>1, FS_Subset
<1>4. up \in Bijection(A, U)
  <2>1. \A i \in A : i \in Nat /\ i + 1 \in U BY <1>1
  <2>2. \A i, j \in A : i + 1 = j + 1 => i = j BY <2>1
  <2>3. ASSUME NEW k \in U PROVE \E i \in A : k = i + 1
    <3>1. k \in 1 .. n /\ k # 1 /\ o[k].id = r BY <1>1
    <3>2. k - 1 \in 1 .. n - 1 /\ (k - 1) + 1 = k BY <1>1, <3>1
    <3>3. k - 1 \in A BY <1>1, <3>1, <3>2
    <3> QED BY <3>2, <3>3
  <2> HIDE DEF A, U
  <2> QED BY <2>1, <2>2, <2>3 DEF Bijection, Injection, Surjection, IsInjective
<1>5. Cardinality(A) \in Nat /\ Cardinality(U) = Cardinality(A)
  <2>1. ExistsBijection(A, U) BY <1>4 DEF ExistsBijection
  <2>2. Cardinality(A) \in Nat BY <1>3, FS_CardinalityType
  <2> HIDE DEF A, U
  <2> QED BY <1>3, <2>1, <2>2, FS_Bijection
<1>6. IsFiniteSet(U) /\ 1 \notin U BY <1>3, FS_Subset
<1>7. Cardinality(U \cup {1}) = Cardinality(U) + 1 BY <1>6, FS_AddElement
<1>8. B = IF Head(o).id = r THEN U \cup {1} ELSE U BY <1>1
<1>9. Events(p, r) = Cardinality(A) /\ Events(o, r) = Cardinality(B) BY DEF Events
<1> HIDE DEF A, B, U
<1>10. CASE Head(o).id = r BY <1>5, <1>7, <1>8, <1>9, <1>10
<1>11. CASE Head(o).id # r BY <1>5, <1>7, <1>8, <1>9, <1>11
<1> QED BY <1>10, <1>11

\* Of an empty outbox.
LEMMA EventsNone == \A r \in RequestIds : Events(<<>>, r) = 0
<1>1. \A r \in RequestIds : {i \in DOMAIN <<>> : <<>>[i].id = r} = {} OBVIOUS
<1> QED BY <1>1, FS_EmptySet DEF Events

\* What submit has checked of a request.
Asked(q) ==
    /\ q.prompt \in Seq(Nat) /\ q.maxNew \in Nat
    /\ q.state \in Live => q.prompt # <<>> /\ q.maxNew > 0

-----------------------------------------------------------------------------
(* The progress of one request. *)

\* The fields of a request that say how far it is.
Numbers(q) ==
    /\ q.cursor \in Nat /\ q.generated \in Nat /\ q.length \in Nat
    /\ q.shared \in Seq(ToSet(q.shared)) /\ q.deferred \in BOOLEAN

\* What holds of them in a request that is in `state`.
Progress(q, state) ==
    IF state \in Active
    THEN /\ Len(q.shared) * BlockSize <= q.length /\ q.generated < q.maxNew
         /\ state = "admitted" => q.length = Len(q.shared) * BlockSize
         /\ IF state = "decoding"
            THEN /\ q.cursor = Len(q.prompt) /\ q.generated > 0
                 /\ q.length = Len(q.prompt) + q.generated - 1
            ELSE q.cursor = q.length /\ q.cursor < Len(q.prompt) /\ q.generated = 0
    ELSE q.cursor = 0 /\ q.generated = 0 /\ q.length = 0 /\ q.shared = <<>>

\* A request that no plan carries.
Rest(q) ==
    Asked(q) /\ Numbers(q) /\ Progress(q, q.state) /\ q.pending = 0 /\ q.deferred = FALSE

\* What an item asks of request q, which was in state `previous`.
Asks(q, item) ==
    /\ item.previous \in Active /\ item.decode = (item.previous = "decoding")
    /\ item.target \in Nat
    /\ IF item.decode THEN item.target = q.length + 1 /\ item.output = TRUE
       ELSE /\ q.cursor < item.target /\ item.target <= Len(q.prompt)
            /\ item.output = (item.target = Len(q.prompt))

\* A request whose item is in flight.
Busy(q, item) ==
    /\ Asked(q) /\ Numbers(q) /\ Progress(q, item.previous) /\ Asks(q, item)
    /\ q.state = (IF item.previous = "decoding" THEN "decoding" ELSE "prefilling")
    /\ q.pending = item.target

\* The same when its item has been committed, and not yet published.
Half(q, item) ==
    /\ Asked(q) /\ Numbers(q) /\ q.pending = 0 /\ q.length = item.target
    /\ Len(q.shared) * BlockSize <= item.target /\ q.generated < q.maxNew
    /\ item.decode \in BOOLEAN
    /\ IF item.decode
       THEN /\ q.state = "decoding" /\ q.cursor = Len(q.prompt) /\ q.generated > 0
            /\ item.target = Len(q.prompt) + q.generated /\ item.output = TRUE
       ELSE /\ q.state = "prefilling" /\ q.generated = 0
            /\ Len(q.shared) * BlockSize <= q.cursor /\ q.cursor < item.target
            /\ item.target <= Len(q.prompt)
            /\ item.output = (item.target = Len(q.prompt))

\* p and q differ in nothing that says how far a request is.
SameWork(p, q) ==
    /\ q.state = p.state /\ q.prompt = p.prompt /\ q.maxNew = p.maxNew
    /\ q.cursor = p.cursor /\ q.generated = p.generated /\ q.length = p.length
    /\ q.shared = p.shared /\ q.pending = p.pending /\ q.deferred = p.deferred

\* Its tip, its link and the tokens it has from the cache do not matter.
LEMMA SameWorkRests ==
    ASSUME NEW p, NEW q, SameWork(p, q)
    PROVE  /\ Rest(p) => Rest(q)
           /\ \A item : Busy(p, item) => Busy(q, item)
           /\ \A item : Half(p, item) => Half(q, item)
<1>1. Asked(p) => Asked(q) BY DEF SameWork, Asked
<1>2. Numbers(p) => Numbers(q) BY DEF SameWork, Numbers
<1>3. \A state : Progress(p, state) => Progress(q, state) BY DEF SameWork, Progress
<1>4. \A item : Asks(p, item) => Asks(q, item) BY DEF SameWork, Asks
<1>5. Rest(p) => Rest(q) BY <1>1, <1>2, <1>3 DEF SameWork, Rest
<1>6. \A item : Busy(p, item) => Busy(q, item) BY <1>1, <1>2, <1>3, <1>4 DEF SameWork, Busy
<1>7. \A item : Half(p, item) => Half(q, item) BY <1>1, <1>2 DEF SameWork, Half
<1> QED BY <1>5, <1>6, <1>7

\* A request that ended.
LEMMA EndedRests ==
    ASSUME NEW reason \in Reasons
    PROVE  Rest(Ended(reason))
<1> DEFINE q == Ended(reason)
<1>1. /\ q.state \in Terminal /\ q.prompt = <<>> /\ q.pending = 0 /\ q.length = 0
      /\ q.shared = <<>> /\ q.deferred = FALSE
  BY EndedIs
<1>2. q.maxNew = 0 /\ q.cursor = 0 /\ q.generated = 0 BY DEF Ended, NoRequest
<1>3. q.state \notin Active /\ q.state \notin Live BY <1>1 DEF Terminal, Active, Live
<1> HIDE DEF q
<1>4. <<>> \in Seq(Nat) /\ <<>> \in Seq(ToSet(<<>>)) OBVIOUS
<1>5. Asked(q) BY <1>1, <1>2, <1>3, <1>4 DEF Asked
<1>6. Numbers(q)
  <2>1. q.shared \in Seq(ToSet(q.shared)) BY <1>1, <1>4
  <2>2. q.deferred \in BOOLEAN BY <1>1
  <2> QED BY <1>1, <1>2, <2>1, <2>2 DEF Numbers
<1>7. Progress(q, q.state) BY <1>1, <1>2, <1>3 DEF Progress
<1>8. Rest(q) BY <1>1, <1>5, <1>6, <1>7 DEF Rest
<1> QED BY <1>8 DEF q

\* A waiting request that is admitted.
LEMMA AdmittedRests ==
    ASSUME NEW p, Rest(p), p.state = "waiting", NEW q, q.state = "admitted",
           q.prompt = p.prompt, q.maxNew = p.maxNew, q.cursor = p.cursor,
           q.generated = p.generated, q.length = p.length, q.shared = p.shared,
           q.pending = p.pending, q.deferred = p.deferred
    PROVE  Rest(q)
<1>1. "waiting" \in Live /\ "waiting" \notin Active /\ "admitted" \in Active
      /\ "admitted" # "decoding" /\ "admitted" \in Live
  BY DEF Live, Active
<1>2. Asked(p) /\ Numbers(p) /\ Progress(p, "waiting") BY DEF Rest
<1>3. p.cursor = 0 /\ p.generated = 0 /\ p.length = 0 /\ p.shared = <<>> BY <1>1, <1>2 DEF Progress
<1>4. p.prompt \in Seq(Nat) /\ p.prompt # <<>> /\ p.maxNew \in Nat /\ p.maxNew > 0
  BY <1>1, <1>2 DEF Asked
<1>5. Len(p.prompt) > 0 /\ Len(<<>>) = 0 /\ BlockSize \in Nat BY <1>4, ConfigAssumption
<1>6. Asked(q) BY <1>4 DEF Asked
<1>7. Numbers(q) BY <1>2 DEF Numbers
<1>8. Progress(q, q.state) BY <1>1, <1>3, <1>4, <1>5 DEF Progress
<1> QED BY <1>6, <1>7, <1>8 DEF Rest

-----------------------------------------------------------------------------
(* Arithmetic of blocks. *)

\* A quotient, and what it says of a multiple.
LEMMA QuotientIs ==
    ASSUME NEW x \in Nat, NEW b \in Nat \ {0}
    PROVE  /\ x \div b \in Nat
           /\ b * (x \div b) <= x
           /\ x < b * (x \div b) + b
  BY Z3

\* The next multiple, below a larger one.
LEMMA NextMultiple ==
    ASSUME NEW k \in Nat, NEW m \in Nat, NEW b \in Nat \ {0}
    PROVE  /\ k < m => (k + 1) * b <= m * b
           /\ k * b < m * b => k < m
           /\ (k + 1) * b = k * b + b /\ k * b \in Nat /\ b * k = k * b
<1>1. (k + 1) * b = k * b + b /\ k * b \in Nat /\ m * b \in Nat /\ b * k = k * b OBVIOUS
<1>2. ASSUME k < m PROVE (k + 1) * b <= m * b
  <2>1. PICK j \in Nat : m = k + 1 + j
    <3>1. m - k - 1 \in Nat /\ m = k + 1 + (m - k - 1) BY <1>2
    <3> QED BY <3>1
  <2>2. m * b = (k + 1) * b + j * b /\ j * b >= 0 /\ j * b \in Nat BY <2>1
  <2> QED BY <1>1, <2>2
<1>3. ASSUME k * b < m * b PROVE k < m
  <2>1. SUFFICES ASSUME m <= k PROVE FALSE OBVIOUS
  <2>2. PICK j \in Nat : k = m + j
    <3>1. k - m \in Nat /\ k = m + (k - m) BY <2>1
    <3> QED BY <3>1
  <2>3. k * b = m * b + j * b /\ j * b >= 0 /\ j * b \in Nat BY <2>2
  <2> QED BY <1>1, <1>3, <2>3
<1> QED BY <1>1, <1>2, <1>3

\* Blocks for a length.
LEMMA BlocksMonotone ==
    ASSUME NEW m \in Nat, NEW n \in Nat, m <= n
    PROVE  BlocksForLength(m) <= BlocksForLength(n) /\ BlocksForLength(m) \in Nat
<1> DEFINE p == BlocksForLength(m)
           q == BlocksForLength(n)
<1>1. BlockSize \in Nat /\ BlockSize > 0 BY ConfigAssumption
<1>2. /\ p \in Nat /\ q \in Nat
      /\ BlockSize * p <= m + BlockSize - 1 /\ n + BlockSize - 1 < BlockSize * q + BlockSize
  <2>1. m + BlockSize - 1 \in Nat /\ n + BlockSize - 1 \in Nat BY <1>1
  <2> QED BY <1>1, <2>1, QuotientIs DEF BlocksForLength
<1> HIDE DEF p, q
<1>3. p <= q
  <2>1. SUFFICES ASSUME q < p PROVE FALSE BY <1>2
  <2>2. (q + 1) * BlockSize <= p * BlockSize /\ (q + 1) * BlockSize = q * BlockSize + BlockSize
        /\ BlockSize * q = q * BlockSize /\ BlockSize * p = p * BlockSize
        /\ q * BlockSize \in Nat /\ p * BlockSize \in Nat
    BY <1>1, <1>2, <2>1, NextMultiple
  <2> QED BY <1>1, <1>2, <2>2
<1> QED BY <1>2, <1>3 DEF p, q

-----------------------------------------------------------------------------
(* The admission counters. *)

StateIn(S, states) == {r \in RequestIds : S.req[r].state \in states}

PromiseOf(S) == [r \in RequestIds |-> Promise(S.req[r])]
LengthOf(S) == [r \in RequestIds |-> Len(S.req[r].prompt)]

\* The counters add the live requests up.
Accounts(S) ==
    /\ \A r \in RequestIds : Asked(S.req[r])
    /\ S.active = Cardinality(StateIn(S, Active))
    /\ S.promised = Part(PromiseOf(S), StateIn(S, Active))
    /\ S.waitingTokens = Part(LengthOf(S), StateIn(S, {"waiting"}))
    /\ S.promised <= MaxPromised

Control(S, d) ==
    Shape(S) /\ PromptsAreSeqs(S) /\ Queues(S) /\ Reports(S, d) /\ Accounts(S)

SameCounters(S, T) ==
    T.active = S.active /\ T.promised = S.promised /\ T.waitingTokens = S.waitingTokens

\* The counters are about the requests alone.
LEMMA AccountsLike ==
    ASSUME NEW S, Accounts(S), NEW T, T.req = S.req, SameCounters(S, T)
    PROVE  Accounts(T)
  BY DEF Accounts, SameCounters, StateIn, PromiseOf, LengthOf

\* Request ids are finite.
LEMMA RequestsFinite ==
    /\ IsFiniteSet(RequestIds)
    /\ \A S, states : StateIn(S, states) \in SUBSET RequestIds /\ IsFiniteSet(StateIn(S, states))
<1>1. IsFiniteSet(RequestIds) BY FS_Interval, ConfigAssumption DEF RequestIds
<1>2. \A S, states : StateIn(S, states) \in SUBSET RequestIds BY DEF StateIn
<1> QED BY <1>1, <1>2, FS_Subset

\* The sum over a set and over the set without one of its elements.
LEMMA PartTakes ==
    ASSUME NEW A, IsFiniteSet(A), NEW f, NEW g, NEW x \in A, \A y \in A : f[y] \in Int,
           \A y \in A \ {x} : g[y] = f[y]
    PROVE  /\ Part(f, A) \in Int /\ Part(g, A \ {x}) \in Int
           /\ Part(f, A) = f[x] + Part(g, A \ {x})
<1>1. /\ \A s \in SUBSET A : Part(f, s) \in Int
      /\ Part(f, A) = f[x] + Part(f, A \ {x})
  BY PartSplit
<1>2. [y \in A \ {x} |-> f[y]] = [y \in A \ {x} |-> g[y]] OBVIOUS
<1>3. Part(f, A \ {x}) = Part(g, A \ {x}) BY <1>2 DEF Part
<1>4. A \ {x} \in SUBSET A /\ A \in SUBSET A OBVIOUS
<1> QED BY <1>1, <1>3, <1>4

\* Sums of functions that agree.
LEMMA PartSame ==
    ASSUME NEW A, NEW f, NEW g, \A y \in A : g[y] = f[y]
    PROVE  Part(f, A) = Part(g, A)
<1>1. [y \in A |-> f[y]] = [y \in A |-> g[y]] OBVIOUS
<1> QED BY <1>1 DEF Part

\* A promise is a number of blocks.
LEMMA PromiseIs ==
    ASSUME NEW q, Asked(q)
    PROVE  /\ Promise(q) \in Int /\ Len(q.prompt) \in Nat
           /\ q.state \in Live => Promise(q) >= 0
<1>1. BlockSize \in Nat /\ BlockSize > 0 BY ConfigAssumption
<1>2. Len(q.prompt) \in Nat /\ q.maxNew \in Nat BY DEF Asked
<1> DEFINE n == Len(q.prompt) + q.maxNew - 1 + BlockSize - 1
<1>3. n \in Int /\ Promise(q) = n \div BlockSize
  BY <1>1, <1>2 DEF Promise, BlocksForLength, MaximumLogicalLength
<1>4. q.state \in Live => n >= 0
  <2>1. q.state \in Live => Len(q.prompt) > 0 /\ q.maxNew > 0 BY <1>2 DEF Asked
  <2> QED BY <1>1, <1>2, <2>1
<1> HIDE DEF n
<1>5. n \div BlockSize \in Int /\ (n >= 0 => n \div BlockSize >= 0) BY <1>1, <1>3
<1> QED BY <1>2, <1>3, <1>4, <1>5

\* A request that ends takes its share out of the counters.
LEMMA AccountsWithout ==
    ASSUME NEW S, NEW T, Accounts(S), NEW r \in RequestIds, S.req[r].state \in Live,
           NEW reason \in Reasons, Without(S, T, r, reason)
    PROVE  Accounts(T)
<1>1. /\ T.req[r].state \in Terminal /\ T.req[r].prompt = <<>> /\ T.req[r].maxNew = 0
      /\ \A o \in RequestIds \ {r} : T.req[o] = S.req[o]
  <2>1. T.req[r] = Ended(reason) /\ \A o \in RequestIds \ {r} : T.req[o] = S.req[o]
    BY DEF Without
  <2>2. Ended(reason).maxNew = 0 BY DEF Ended, NoRequest
  <2> QED BY <2>1, <2>2, EndedIs
<1>2. "waiting" \notin Terminal /\ Active \cap Terminal = {} /\ Terminal \cap Live = {}
      /\ "waiting" \notin Active /\ Live = Active \cup {"waiting"}
  BY DEF Terminal, Live, Active
<1>3. \A o \in RequestIds : Asked(T.req[o])
  <2>1. Asked(T.req[r])
    <3>1. <<>> \in Seq(Nat) /\ 0 \in Nat OBVIOUS
    <3> QED BY <1>1, <1>2, <3>1 DEF Asked
  <2> QED BY <1>1, <2>1 DEF Accounts
<1>4. ASSUME NEW o \in RequestIds
      PROVE  /\ PromiseOf(S)[o] = Promise(S.req[o]) /\ LengthOf(S)[o] = Len(S.req[o].prompt)
             /\ PromiseOf(S)[o] \in Int /\ LengthOf(S)[o] \in Int
             /\ o # r => PromiseOf(T)[o] = PromiseOf(S)[o] /\ LengthOf(T)[o] = LengthOf(S)[o]
  <2>1. Promise(S.req[o]) \in Int /\ Len(S.req[o].prompt) \in Nat BY PromiseIs DEF Accounts
  <2> QED BY <1>1, <2>1 DEF PromiseOf, LengthOf
<1> DEFINE A == StateIn(S, Active)
           W == StateIn(S, {"waiting"})
<1>5. A \in SUBSET RequestIds /\ W \in SUBSET RequestIds /\ IsFiniteSet(A) /\ IsFiniteSet(W)
  BY RequestsFinite
<1>6. CASE S.req[r].state = "waiting"
  <2>1. r \in W /\ r \notin A BY <1>2, <1>6 DEF StateIn
  <2>2. StateIn(T, Active) = A /\ StateIn(T, {"waiting"}) = W \ {r}
    BY <1>1, <1>2, <1>6 DEF StateIn
  <2>3. /\ T.active = S.active /\ T.promised = S.promised
        /\ T.waitingTokens = S.waitingTokens - Len(S.req[r].prompt)
    BY <1>6 DEF Without
  <2> HIDE DEF A, W
  <2>4. Part(PromiseOf(T), A) = Part(PromiseOf(S), A)
    <3>1. \A o \in A : PromiseOf(T)[o] = PromiseOf(S)[o] BY <1>4, <1>5, <2>1
    <3> QED BY <3>1, PartSame
  <2>5. /\ Part(LengthOf(S), W) \in Int /\ Part(LengthOf(T), W \ {r}) \in Int
        /\ Part(LengthOf(S), W) = LengthOf(S)[r] + Part(LengthOf(T), W \ {r})
    <3>1. /\ \A o \in W : LengthOf(S)[o] \in Int
          /\ \A o \in W \ {r} : LengthOf(T)[o] = LengthOf(S)[o]
      BY <1>4, <1>5
    <3>2. IsFiniteSet(W) /\ r \in W BY <1>5, <2>1
    <3> QED BY ONLY <3>1, <3>2, PartTakes
  <2>6. /\ S.active = Cardinality(A) /\ S.promised = Part(PromiseOf(S), A)
        /\ S.waitingTokens = Part(LengthOf(S), W) /\ S.promised <= MaxPromised
    BY DEF Accounts, A, W
  <2>7. LengthOf(S)[r] = Len(S.req[r].prompt) /\ LengthOf(S)[r] \in Int BY <1>4
  <2>8. T.waitingTokens = Part(LengthOf(T), W \ {r}) BY <2>3, <2>5, <2>6, <2>7
  <2> QED BY <1>3, <2>2, <2>3, <2>4, <2>6, <2>8 DEF Accounts
<1>7. CASE S.req[r].state # "waiting"
  <2>1. r \in A /\ r \notin W BY <1>2, <1>7 DEF StateIn
  <2>2. StateIn(T, Active) = A \ {r} /\ StateIn(T, {"waiting"}) = W
    BY <1>1, <1>2, <1>7 DEF StateIn
  <2>3. /\ T.active = S.active - 1 /\ T.promised = S.promised - Promise(S.req[r])
        /\ T.waitingTokens = S.waitingTokens
    BY <1>7 DEF Without
  <2> HIDE DEF A, W
  <2>4. Part(LengthOf(T), W) = Part(LengthOf(S), W)
    <3>1. \A o \in W : LengthOf(T)[o] = LengthOf(S)[o] BY <1>4, <1>5, <2>1
    <3> QED BY <3>1, PartSame
  <2>5. /\ Part(PromiseOf(S), A) \in Int /\ Part(PromiseOf(T), A \ {r}) \in Int
        /\ Part(PromiseOf(S), A) = PromiseOf(S)[r] + Part(PromiseOf(T), A \ {r})
    <3>1. /\ \A o \in A : PromiseOf(S)[o] \in Int
          /\ \A o \in A \ {r} : PromiseOf(T)[o] = PromiseOf(S)[o]
      BY <1>4, <1>5
    <3>2. IsFiniteSet(A) /\ r \in A BY <1>5, <2>1
    <3> QED BY ONLY <3>1, <3>2, PartTakes
  <2>6. /\ S.active = Cardinality(A) /\ S.promised = Part(PromiseOf(S), A)
        /\ S.waitingTokens = Part(LengthOf(S), W) /\ S.promised <= MaxPromised
    BY DEF Accounts, A, W
  <2>7. PromiseOf(S)[r] = Promise(S.req[r]) /\ PromiseOf(S)[r] \in Int BY <1>4
  <2>8. T.promised = Part(PromiseOf(T), A \ {r}) BY <2>3, <2>5, <2>6, <2>7
  <2>9. Promise(S.req[r]) >= 0 BY PromiseIs DEF Accounts
  <2>10. T.promised <= MaxPromised
    <3>1. MaxPromised \in Nat BY ConfigAssumption
    <3> QED BY <2>3, <2>5, <2>6, <2>7, <2>9, <3>1
  <2>11. T.active = Cardinality(A \ {r})
    <3>1. Cardinality(A \ {r}) = Cardinality(A) - 1 BY <1>5, <2>1, FS_RemoveElement
    <3> QED BY <2>3, <2>6, <3>1
  <2> QED BY <1>3, <2>2, <2>3, <2>4, <2>6, <2>8, <2>10, <2>11 DEF Accounts
<1> QED BY <1>6, <1>7

\* A live request that ends leaves the queues and is reported once.
LEMMA FinishControl ==
    ASSUME NEW S, NEW d, Control(S, d), NEW r \in LiveRequests(S), NEW reason \in Reasons
    PROVE  LET T == Finish(S, r, reason)
           IN  /\ Control(T, d) /\ Quiet(S, T)
               /\ r \in RequestIds
               /\ T.req[r].state \in Terminal /\ Rest(T.req[r])
               /\ T.inflight = S.inflight /\ T.next = S.next
               /\ \A o \in RequestIds \ {r} : T.req[o] = S.req[o]
<1> DEFINE T == Finish(S, r, reason)
           e == [id |-> r, reason |-> reason]
<1>1. r \in RequestIds /\ S.req[r].state \in Live /\ r \in ToSet(S.requests)
  <2>1. r \in ToSet(S.requests) BY DEF LiveRequests
  <2>2. S.requests \in Seq(RequestIds) BY DEF Control, Queues
  <2>3. r \in RequestIds BY <2>1, <2>2 DEF ToSet
  <2> QED BY <2>1, <2>3 DEF Control, Queues
<1>2. /\ Shape(T)
      /\ T.req[r] = Ended(reason)
      /\ \A o \in RequestIds \ {r} : T.req[o] = S.req[o]
      /\ T.requests = SwapRemove(S.requests, r)
      /\ T.outbox = Append(S.outbox, e)
      /\ T.waiting = IF S.req[r].state = "waiting" THEN RemoveFirst(S.waiting, r) ELSE S.waiting
      /\ T.next = S.next /\ T.inflight = S.inflight
  <2>1. Shape(S) BY DEF Control
  <2> HIDE DEF T
  <2>2. Without(S, T, r, reason) BY <1>1, <2>1, FinishIs DEF T
  <2> QED BY <2>2 DEF Without, e
<1>3. T.req[r].state \in Terminal /\ Rest(T.req[r]) BY <1>2, EndedIs, EndedRests
<1> HIDE DEF T
<1>4. /\ T.requests \in Seq(RequestIds) /\ IsInjectiveSeq(T.requests)
      /\ ToSet(T.requests) = ToSet(S.requests) \ {r}
  BY <1>1, <1>2, SwapRemoveInjective DEF Control, Queues
<1>5. /\ T.waiting \in Seq(RequestIds) /\ Increasing(T.waiting)
      /\ ToSet(T.waiting) = ToSet(S.waiting) \ {r}
  <2>1. CASE S.req[r].state = "waiting"
    <3>1. S.waiting \in Seq(Nat) /\ S.waiting \in Seq(RequestIds) /\ r \in ToSet(S.waiting)
          /\ Increasing(S.waiting)
      <4>1. RequestIds \subseteq Nat BY DEF RequestIds
      <4>2. S.waiting \in Seq(RequestIds) /\ r \in ToSet(S.waiting) /\ Increasing(S.waiting)
        BY <1>1, <2>1 DEF Control, Queues
      <4> QED BY <4>1, <4>2, SeqWider
    <3>2. IsInjectiveSeq(S.waiting) BY <3>1, IncreasingInjective
    <3>3. Increasing(RemoveFirst(S.waiting, r)) BY <3>1, RemoveFirstIncreasing
    <3>4. /\ RemoveFirst(S.waiting, r) \in Seq(RequestIds)
          /\ ToSet(RemoveFirst(S.waiting, r)) = ToSet(S.waiting) \ {r}
      BY <3>1, <3>2, RemoveFirstInjective
    <3> QED BY <1>2, <2>1, <3>3, <3>4
  <2>2. CASE S.req[r].state # "waiting"
    <3>1. r \notin ToSet(S.waiting) BY <1>1, <2>2 DEF Control, Queues
    <3> QED BY <1>2, <2>2, <3>1 DEF Control, Queues
  <2> QED BY <2>1, <2>2
<1>6. Terminal \subseteq States /\ Terminal \cap Live = {} /\ "waiting" \notin Terminal
      /\ "unborn" \notin Terminal /\ "unborn" \notin Live /\ Active \cap Terminal = {}
      /\ Active \subseteq Live
  BY DEF Terminal, States, Live, Active
<1>7. Queues(T)
  <2>1. \A o \in RequestIds : /\ T.req[o].state \in States
                              /\ T.req[o].state = "unborn" <=> o >= T.next
    <3>1. SUFFICES ASSUME NEW o \in RequestIds
                   PROVE  T.req[o].state \in States /\ (T.req[o].state = "unborn" <=> o >= T.next)
      OBVIOUS
    <3>2. CASE o = r
      <4>1. ~(r >= S.next) BY <1>1, <1>6 DEF Control, Queues
      <4> QED BY <1>2, <1>3, <1>6, <3>2, <4>1
    <3>3. CASE o # r BY <1>2, <3>3 DEF Control, Queues
    <3> QED BY <3>2, <3>3
  <2>2. \A o \in RequestIds : o \in ToSet(T.requests) <=> T.req[o].state \in Live
    BY <1>2, <1>3, <1>4, <1>6 DEF Control, Queues
  <2>3. \A o \in RequestIds : o \in ToSet(T.waiting) <=> T.req[o].state = "waiting"
    BY <1>2, <1>3, <1>5, <1>6 DEF Control, Queues
  <2>4. T.next \in 1 .. MaxRequests + 1 BY <1>2 DEF Control, Queues
  <2> QED BY <1>4, <1>5, <2>1, <2>2, <2>3, <2>4 DEF Queues
<1>8. Reports(T, d)
  <2>1. S.outbox \in Seq(Notifications) /\ e \in Notifications
    BY <1>1 DEF Control, Reports, Notifications
  <2> HIDE DEF e
  <2>2. T.outbox \in Seq(Notifications) BY <1>2, <2>1, AppendIs
  <2>3. \A o \in RequestIds : /\ Events(S.outbox, o) \in Nat
                              /\ Events(T.outbox, o)
                                   = Events(S.outbox, o) + IF e.id = o THEN 1 ELSE 0
    BY <1>2, <2>1, EventsAppend
  <2>4. e.id = r BY DEF e
  <2>5. ASSUME NEW o \in RequestIds
        PROVE  d[o] + Events(T.outbox, o) = IF T.req[o].state \in Terminal THEN 1 ELSE 0
    <3>1. d[o] \in Nat /\ d[o] + Events(S.outbox, o) = IF S.req[o].state \in Terminal THEN 1 ELSE 0
      BY DEF Control, Reports
    <3>2. CASE o = r
      <4>1. S.req[o].state \notin Terminal /\ T.req[o].state \in Terminal BY <1>1, <1>3, <1>6, <3>2
      <4> QED BY <2>3, <2>4, <3>1, <3>2, <4>1
    <3>3. CASE o # r
      <4>1. T.req[o].state = S.req[o].state BY <1>2, <3>3
      <4> QED BY <2>3, <2>4, <3>1, <3>3, <4>1
    <3> QED BY <3>2, <3>3
  <2>6. d \in [RequestIds -> Nat] BY DEF Control, Reports
  <2> QED BY <2>2, <2>5, <2>6 DEF Reports
<1>9. Quiet(S, T)
  <2>1. SUFFICES ASSUME NEW o \in RequestIds
        PROVE  /\ T.req[o].state \in Active => S.req[o].state \in Active
               /\ T.req[o].state = "waiting" => S.req[o].state = "waiting"
    BY DEF Quiet
  <2>2. CASE o = r BY <1>3, <1>6, <2>2
  <2>3. CASE o # r BY <1>2, <2>3
  <2> QED BY <2>2, <2>3
<1>10. PromptsAreSeqs(T)
  <2>1. \A o \in RequestIds : S.req[o].prompt \in Seq(Nat) BY DEF Control, PromptsAreSeqs
  <2>2. T.req[r].prompt = <<>> BY <1>2, EndedIs
  <2>3. <<>> \in Seq(Nat) OBVIOUS
  <2> QED BY <1>2, <2>1, <2>2, <2>3 DEF PromptsAreSeqs
<1>11. Accounts(T)
  <2>1. Shape(S) /\ Accounts(S) BY DEF Control
  <2>2. Without(S, Finish(S, r, reason), r, reason) BY <1>1, <2>1, FinishIs
  <2> QED BY <1>1, <2>1, <2>2, AccountsWithout DEF T
<1> QED BY <1>1, <1>2, <1>3, <1>7, <1>8, <1>9, <1>10, <1>11 DEF Control, T
-----------------------------------------------------------------------------
(* The loops: each takes its turns one after the other. *)

\* turn[n] is what the loop that ends requests makes of S in its first n turns.
FinishThoseTurns(turn, S, rs, which, reason) ==
    /\ turn[0] = S
    /\ \A n \in 1 .. Len(rs) : turn[n] = FinishIf(turn[n - 1], rs[n], which, reason)
    /\ turn[Len(rs)] = FinishThose(S, rs, which, reason)

\* The turns of that loop.
LEMMA FinishThoseTurnsExist ==
    ASSUME NEW S, NEW rs, Len(rs) \in Nat, NEW which, NEW reason
    PROVE  \E turn : FinishThoseTurns(turn, S, rs, which, reason)
<1> DEFINE Good(g, k) ==
               g = [n \in 0 .. k |-> IF n = 0 THEN S ELSE FinishIf(g[n - 1], rs[n], which, reason)]
           W == {k \in Nat : \E g : Good(g, k)}
           c == CHOOSE g : Good(g, Len(rs))
<1>1. Len(rs) \in Nat OBVIOUS
<1>2. 0 \in W
  <2> DEFINE g == [n \in 0 .. 0 |-> S]
  <2>1. g = [n \in 0 .. 0 |-> IF n = 0 THEN S ELSE FinishIf(g[n - 1], rs[n], which, reason)] OBVIOUS
  <2> HIDE DEF g
  <2>2. Good(g, 0) BY <2>1
  <2> QED BY <2>2
<1>3. ASSUME NEW k \in 0 .. Len(rs) - 1, k \in W PROVE k + 1 \in W
  <2>1. PICK g : Good(g, k) BY <1>3
  <2> DEFINE h == [n \in 0 .. k + 1 |-> IF n = 0 THEN S ELSE FinishIf(g[n - 1], rs[n], which, reason)]
  <2>2. \A n \in 0 .. k : h[n] = g[n]
    <3> HIDE DEF Good
    <3>1. g = [n \in 0 .. k |-> IF n = 0 THEN S ELSE FinishIf(g[n - 1], rs[n], which, reason)]
      BY <2>1 DEF Good
    <3>2. \A n \in 0 .. k : n \in 0 .. k + 1 BY <1>1
    <3>3. ASSUME NEW n \in 0 .. k PROVE h[n] = g[n]
      <4>1. h[n] = IF n = 0 THEN S ELSE FinishIf(g[n - 1], rs[n], which, reason) BY <3>2
      <4>2. g[n] = IF n = 0 THEN S ELSE FinishIf(g[n - 1], rs[n], which, reason) BY <3>1
      <4> QED BY <4>1, <4>2
    <3> QED BY <3>3
  <2>3. h = [n \in 0 .. k + 1 |-> IF n = 0 THEN S ELSE FinishIf(h[n - 1], rs[n], which, reason)]
    <3>1. \A n \in 0 .. k + 1 : n # 0 => n - 1 \in 0 .. k BY <1>1
    <3> HIDE DEF h
    <3>2. \A n \in 0 .. k + 1 :
             (IF n = 0 THEN S ELSE FinishIf(g[n - 1], rs[n], which, reason))
             = (IF n = 0 THEN S ELSE FinishIf(h[n - 1], rs[n], which, reason))
      BY <2>2, <3>1
    <3>3. [n \in 0 .. k + 1 |-> IF n = 0 THEN S ELSE FinishIf(g[n - 1], rs[n], which, reason)]
          = [n \in 0 .. k + 1 |-> IF n = 0 THEN S ELSE FinishIf(h[n - 1], rs[n], which, reason)]
      BY <3>2
    <3> QED BY <3>3 DEF h
  <2>4. k + 1 \in Nat BY <1>1
  <2> HIDE DEF h
  <2>5. Good(h, k + 1) BY <2>3
  <2> QED BY <2>4, <2>5
<1>4. Len(rs) \in W
  <2> HIDE DEF W
  <2>1. \A n \in 0 .. Len(rs) : n \in W BY <1>1, <1>2, <1>3, CountUp
  <2> QED BY <1>1, <2>1
<1>5. Good(c, Len(rs)) BY <1>4
<1>6. FinishThose(S, rs, which, reason) = c[Len(rs)] BY DEF FinishThose
<1> HIDE DEF c
<1>7. c = [n \in 0 .. Len(rs) |-> IF n = 0 THEN S ELSE FinishIf(c[n - 1], rs[n], which, reason)] BY <1>5
<1>8. c[0] = S BY <1>1, <1>7
<1>9. \A n \in 1 .. Len(rs) : c[n] = FinishIf(c[n - 1], rs[n], which, reason)
  <2>1. \A n \in 1 .. Len(rs) : n \in 0 .. Len(rs) /\ n # 0 BY <1>1
  <2>2. \A n \in 0 .. Len(rs) : c[n] = IF n = 0 THEN S ELSE FinishIf(c[n - 1], rs[n], which, reason) BY <1>7
  <2> QED BY <2>1, <2>2
<1> QED BY <1>6, <1>8, <1>9 DEF FinishThoseTurns

\* The same of the loop of admit_waiting.
AdmitWaitingTurns(turn, S) ==
    /\ turn[0] = S
    /\ \A n \in 1 .. Len(S.waiting) : turn[n] = AdmitNext(turn[n - 1])
    /\ turn[Len(S.waiting)] = AdmitWaiting(S)

\* The turns of that loop.
LEMMA AdmitWaitingTurnsExist ==
    ASSUME NEW S, Len(S.waiting) \in Nat
    PROVE  \E turn : AdmitWaitingTurns(turn, S)
<1> DEFINE Good(g, k) ==
               g = [n \in 0 .. k |-> IF n = 0 THEN S ELSE AdmitNext(g[n - 1])]
           W == {k \in Nat : \E g : Good(g, k)}
           c == CHOOSE g : Good(g, Len(S.waiting))
<1>1. Len(S.waiting) \in Nat OBVIOUS
<1>2. 0 \in W
  <2> DEFINE g == [n \in 0 .. 0 |-> S]
  <2>1. g = [n \in 0 .. 0 |-> IF n = 0 THEN S ELSE AdmitNext(g[n - 1])] OBVIOUS
  <2> HIDE DEF g
  <2>2. Good(g, 0) BY <2>1
  <2> QED BY <2>2
<1>3. ASSUME NEW k \in 0 .. Len(S.waiting) - 1, k \in W PROVE k + 1 \in W
  <2>1. PICK g : Good(g, k) BY <1>3
  <2> DEFINE h == [n \in 0 .. k + 1 |-> IF n = 0 THEN S ELSE AdmitNext(g[n - 1])]
  <2>2. \A n \in 0 .. k : h[n] = g[n]
    <3> HIDE DEF Good
    <3>1. g = [n \in 0 .. k |-> IF n = 0 THEN S ELSE AdmitNext(g[n - 1])]
      BY <2>1 DEF Good
    <3>2. \A n \in 0 .. k : n \in 0 .. k + 1 BY <1>1
    <3>3. ASSUME NEW n \in 0 .. k PROVE h[n] = g[n]
      <4>1. h[n] = IF n = 0 THEN S ELSE AdmitNext(g[n - 1]) BY <3>2
      <4>2. g[n] = IF n = 0 THEN S ELSE AdmitNext(g[n - 1]) BY <3>1
      <4> QED BY <4>1, <4>2
    <3> QED BY <3>3
  <2>3. h = [n \in 0 .. k + 1 |-> IF n = 0 THEN S ELSE AdmitNext(h[n - 1])]
    <3>1. \A n \in 0 .. k + 1 : n # 0 => n - 1 \in 0 .. k BY <1>1
    <3> HIDE DEF h
    <3>2. \A n \in 0 .. k + 1 :
             (IF n = 0 THEN S ELSE AdmitNext(g[n - 1]))
             = (IF n = 0 THEN S ELSE AdmitNext(h[n - 1]))
      BY <2>2, <3>1
    <3>3. [n \in 0 .. k + 1 |-> IF n = 0 THEN S ELSE AdmitNext(g[n - 1])]
          = [n \in 0 .. k + 1 |-> IF n = 0 THEN S ELSE AdmitNext(h[n - 1])]
      BY <3>2
    <3> QED BY <3>3 DEF h
  <2>4. k + 1 \in Nat BY <1>1
  <2> HIDE DEF h
  <2>5. Good(h, k + 1) BY <2>3
  <2> QED BY <2>4, <2>5
<1>4. Len(S.waiting) \in W
  <2> HIDE DEF W
  <2>1. \A n \in 0 .. Len(S.waiting) : n \in W BY <1>1, <1>2, <1>3, CountUp
  <2> QED BY <1>1, <2>1
<1>5. Good(c, Len(S.waiting)) BY <1>4
<1>6. AdmitWaiting(S) = c[Len(S.waiting)] BY DEF AdmitWaiting
<1> HIDE DEF c
<1>7. c = [n \in 0 .. Len(S.waiting) |-> IF n = 0 THEN S ELSE AdmitNext(c[n - 1])] BY <1>5
<1>8. c[0] = S BY <1>1, <1>7
<1>9. \A n \in 1 .. Len(S.waiting) : c[n] = AdmitNext(c[n - 1])
  <2>1. \A n \in 1 .. Len(S.waiting) : n \in 0 .. Len(S.waiting) /\ n # 0 BY <1>1
  <2>2. \A n \in 0 .. Len(S.waiting) : c[n] = IF n = 0 THEN S ELSE AdmitNext(c[n - 1]) BY <1>7
  <2> QED BY <2>1, <2>2
<1> QED BY <1>6, <1>8, <1>9 DEF AdmitWaitingTurns

\* The same of the adoption loop of a request.
AdoptBlocksTurns(turn, S, r) ==
    /\ turn[0] = S
    /\ \A n \in 1 .. Len(S.req[r].prompt) : turn[n] = AdoptNext(turn[n - 1], r)
    /\ turn[Len(S.req[r].prompt)] = AdoptBlocks(S, r)

\* The turns of that loop.
LEMMA AdoptBlocksTurnsExist ==
    ASSUME NEW S, NEW r, Len(S.req[r].prompt) \in Nat
    PROVE  \E turn : AdoptBlocksTurns(turn, S, r)
<1> DEFINE Good(g, k) ==
               g = [n \in 0 .. k |-> IF n = 0 THEN S ELSE AdoptNext(g[n - 1], r)]
           W == {k \in Nat : \E g : Good(g, k)}
           c == CHOOSE g : Good(g, Len(S.req[r].prompt))
<1>1. Len(S.req[r].prompt) \in Nat OBVIOUS
<1>2. 0 \in W
  <2> DEFINE g == [n \in 0 .. 0 |-> S]
  <2>1. g = [n \in 0 .. 0 |-> IF n = 0 THEN S ELSE AdoptNext(g[n - 1], r)] OBVIOUS
  <2> HIDE DEF g
  <2>2. Good(g, 0) BY <2>1
  <2> QED BY <2>2
<1>3. ASSUME NEW k \in 0 .. Len(S.req[r].prompt) - 1, k \in W PROVE k + 1 \in W
  <2>1. PICK g : Good(g, k) BY <1>3
  <2> DEFINE h == [n \in 0 .. k + 1 |-> IF n = 0 THEN S ELSE AdoptNext(g[n - 1], r)]
  <2>2. \A n \in 0 .. k : h[n] = g[n]
    <3> HIDE DEF Good
    <3>1. g = [n \in 0 .. k |-> IF n = 0 THEN S ELSE AdoptNext(g[n - 1], r)]
      BY <2>1 DEF Good
    <3>2. \A n \in 0 .. k : n \in 0 .. k + 1 BY <1>1
    <3>3. ASSUME NEW n \in 0 .. k PROVE h[n] = g[n]
      <4>1. h[n] = IF n = 0 THEN S ELSE AdoptNext(g[n - 1], r) BY <3>2
      <4>2. g[n] = IF n = 0 THEN S ELSE AdoptNext(g[n - 1], r) BY <3>1
      <4> QED BY <4>1, <4>2
    <3> QED BY <3>3
  <2>3. h = [n \in 0 .. k + 1 |-> IF n = 0 THEN S ELSE AdoptNext(h[n - 1], r)]
    <3>1. \A n \in 0 .. k + 1 : n # 0 => n - 1 \in 0 .. k BY <1>1
    <3> HIDE DEF h
    <3>2. \A n \in 0 .. k + 1 :
             (IF n = 0 THEN S ELSE AdoptNext(g[n - 1], r))
             = (IF n = 0 THEN S ELSE AdoptNext(h[n - 1], r))
      BY <2>2, <3>1
    <3>3. [n \in 0 .. k + 1 |-> IF n = 0 THEN S ELSE AdoptNext(g[n - 1], r)]
          = [n \in 0 .. k + 1 |-> IF n = 0 THEN S ELSE AdoptNext(h[n - 1], r)]
      BY <3>2
    <3> QED BY <3>3 DEF h
  <2>4. k + 1 \in Nat BY <1>1
  <2> HIDE DEF h
  <2>5. Good(h, k + 1) BY <2>3
  <2> QED BY <2>4, <2>5
<1>4. Len(S.req[r].prompt) \in W
  <2> HIDE DEF W
  <2>1. \A n \in 0 .. Len(S.req[r].prompt) : n \in W BY <1>1, <1>2, <1>3, CountUp
  <2> QED BY <1>1, <2>1
<1>5. Good(c, Len(S.req[r].prompt)) BY <1>4
<1>6. AdoptBlocks(S, r) = c[Len(S.req[r].prompt)] BY DEF AdoptBlocks
<1> HIDE DEF c
<1>7. c = [n \in 0 .. Len(S.req[r].prompt) |-> IF n = 0 THEN S ELSE AdoptNext(c[n - 1], r)] BY <1>5
<1>8. c[0] = S BY <1>1, <1>7
<1>9. \A n \in 1 .. Len(S.req[r].prompt) : c[n] = AdoptNext(c[n - 1], r)
  <2>1. \A n \in 1 .. Len(S.req[r].prompt) : n \in 0 .. Len(S.req[r].prompt) /\ n # 0 BY <1>1
  <2>2. \A n \in 0 .. Len(S.req[r].prompt) : c[n] = IF n = 0 THEN S ELSE AdoptNext(c[n - 1], r) BY <1>7
  <2> QED BY <2>1, <2>2
<1> QED BY <1>6, <1>8, <1>9 DEF AdoptBlocksTurns

\* The same of the loop over the requests whose prefixes are looked up.
AdoptTurns(turn, S) ==
    /\ turn[0] = S
    /\ \A n \in 1 .. Len(S.requests) : turn[n] = AdoptCachedPrefix(turn[n - 1], S.requests[n])
    /\ turn[Len(S.requests)] = AdoptCachedPrefixes(S)

\* The turns of that loop.
LEMMA AdoptTurnsExist ==
    ASSUME NEW S, Len(S.requests) \in Nat
    PROVE  \E turn : AdoptTurns(turn, S)
<1> DEFINE Good(g, k) ==
               g = [n \in 0 .. k |-> IF n = 0 THEN S ELSE AdoptCachedPrefix(g[n - 1], S.requests[n])]
           W == {k \in Nat : \E g : Good(g, k)}
           c == CHOOSE g : Good(g, Len(S.requests))
<1>1. Len(S.requests) \in Nat OBVIOUS
<1>2. 0 \in W
  <2> DEFINE g == [n \in 0 .. 0 |-> S]
  <2>1. g = [n \in 0 .. 0 |-> IF n = 0 THEN S ELSE AdoptCachedPrefix(g[n - 1], S.requests[n])] OBVIOUS
  <2> HIDE DEF g
  <2>2. Good(g, 0) BY <2>1
  <2> QED BY <2>2
<1>3. ASSUME NEW k \in 0 .. Len(S.requests) - 1, k \in W PROVE k + 1 \in W
  <2>1. PICK g : Good(g, k) BY <1>3
  <2> DEFINE h == [n \in 0 .. k + 1 |-> IF n = 0 THEN S ELSE AdoptCachedPrefix(g[n - 1], S.requests[n])]
  <2>2. \A n \in 0 .. k : h[n] = g[n]
    <3> HIDE DEF Good
    <3>1. g = [n \in 0 .. k |-> IF n = 0 THEN S ELSE AdoptCachedPrefix(g[n - 1], S.requests[n])]
      BY <2>1 DEF Good
    <3>2. \A n \in 0 .. k : n \in 0 .. k + 1 BY <1>1
    <3>3. ASSUME NEW n \in 0 .. k PROVE h[n] = g[n]
      <4>1. h[n] = IF n = 0 THEN S ELSE AdoptCachedPrefix(g[n - 1], S.requests[n]) BY <3>2
      <4>2. g[n] = IF n = 0 THEN S ELSE AdoptCachedPrefix(g[n - 1], S.requests[n]) BY <3>1
      <4> QED BY <4>1, <4>2
    <3> QED BY <3>3
  <2>3. h = [n \in 0 .. k + 1 |-> IF n = 0 THEN S ELSE AdoptCachedPrefix(h[n - 1], S.requests[n])]
    <3>1. \A n \in 0 .. k + 1 : n # 0 => n - 1 \in 0 .. k BY <1>1
    <3> HIDE DEF h
    <3>2. \A n \in 0 .. k + 1 :
             (IF n = 0 THEN S ELSE AdoptCachedPrefix(g[n - 1], S.requests[n]))
             = (IF n = 0 THEN S ELSE AdoptCachedPrefix(h[n - 1], S.requests[n]))
      BY <2>2, <3>1
    <3>3. [n \in 0 .. k + 1 |-> IF n = 0 THEN S ELSE AdoptCachedPrefix(g[n - 1], S.requests[n])]
          = [n \in 0 .. k + 1 |-> IF n = 0 THEN S ELSE AdoptCachedPrefix(h[n - 1], S.requests[n])]
      BY <3>2
    <3> QED BY <3>3 DEF h
  <2>4. k + 1 \in Nat BY <1>1
  <2> HIDE DEF h
  <2>5. Good(h, k + 1) BY <2>3
  <2> QED BY <2>4, <2>5
<1>4. Len(S.requests) \in W
  <2> HIDE DEF W
  <2>1. \A n \in 0 .. Len(S.requests) : n \in W BY <1>1, <1>2, <1>3, CountUp
  <2> QED BY <1>1, <2>1
<1>5. Good(c, Len(S.requests)) BY <1>4
<1>6. AdoptCachedPrefixes(S) = c[Len(S.requests)] BY DEF AdoptCachedPrefixes
<1> HIDE DEF c
<1>7. c = [n \in 0 .. Len(S.requests) |-> IF n = 0 THEN S ELSE AdoptCachedPrefix(c[n - 1], S.requests[n])] BY <1>5
<1>8. c[0] = S BY <1>1, <1>7
<1>9. \A n \in 1 .. Len(S.requests) : c[n] = AdoptCachedPrefix(c[n - 1], S.requests[n])
  <2>1. \A n \in 1 .. Len(S.requests) : n \in 0 .. Len(S.requests) /\ n # 0 BY <1>1
  <2>2. \A n \in 0 .. Len(S.requests) : c[n] = IF n = 0 THEN S ELSE AdoptCachedPrefix(c[n - 1], S.requests[n]) BY <1>7
  <2> QED BY <2>1, <2>2
<1> QED BY <1>6, <1>8, <1>9 DEF AdoptTurns

\* The same of the loop of publish_prompt_blocks.
PublishBlocksTurns(turn, S, r) ==
    /\ turn[0] = S
    /\ \A n \in 1 .. Len(S.req[r].prompt) : turn[n] = PublishNext(turn[n - 1], r)
    /\ turn[Len(S.req[r].prompt)] = PublishBlocks(S, r)

\* The turns of that loop.
LEMMA PublishBlocksTurnsExist ==
    ASSUME NEW S, NEW r, Len(S.req[r].prompt) \in Nat
    PROVE  \E turn : PublishBlocksTurns(turn, S, r)
<1> DEFINE Good(g, k) ==
               g = [n \in 0 .. k |-> IF n = 0 THEN S ELSE PublishNext(g[n - 1], r)]
           W == {k \in Nat : \E g : Good(g, k)}
           c == CHOOSE g : Good(g, Len(S.req[r].prompt))
<1>1. Len(S.req[r].prompt) \in Nat OBVIOUS
<1>2. 0 \in W
  <2> DEFINE g == [n \in 0 .. 0 |-> S]
  <2>1. g = [n \in 0 .. 0 |-> IF n = 0 THEN S ELSE PublishNext(g[n - 1], r)] OBVIOUS
  <2> HIDE DEF g
  <2>2. Good(g, 0) BY <2>1
  <2> QED BY <2>2
<1>3. ASSUME NEW k \in 0 .. Len(S.req[r].prompt) - 1, k \in W PROVE k + 1 \in W
  <2>1. PICK g : Good(g, k) BY <1>3
  <2> DEFINE h == [n \in 0 .. k + 1 |-> IF n = 0 THEN S ELSE PublishNext(g[n - 1], r)]
  <2>2. \A n \in 0 .. k : h[n] = g[n]
    <3> HIDE DEF Good
    <3>1. g = [n \in 0 .. k |-> IF n = 0 THEN S ELSE PublishNext(g[n - 1], r)]
      BY <2>1 DEF Good
    <3>2. \A n \in 0 .. k : n \in 0 .. k + 1 BY <1>1
    <3>3. ASSUME NEW n \in 0 .. k PROVE h[n] = g[n]
      <4>1. h[n] = IF n = 0 THEN S ELSE PublishNext(g[n - 1], r) BY <3>2
      <4>2. g[n] = IF n = 0 THEN S ELSE PublishNext(g[n - 1], r) BY <3>1
      <4> QED BY <4>1, <4>2
    <3> QED BY <3>3
  <2>3. h = [n \in 0 .. k + 1 |-> IF n = 0 THEN S ELSE PublishNext(h[n - 1], r)]
    <3>1. \A n \in 0 .. k + 1 : n # 0 => n - 1 \in 0 .. k BY <1>1
    <3> HIDE DEF h
    <3>2. \A n \in 0 .. k + 1 :
             (IF n = 0 THEN S ELSE PublishNext(g[n - 1], r))
             = (IF n = 0 THEN S ELSE PublishNext(h[n - 1], r))
      BY <2>2, <3>1
    <3>3. [n \in 0 .. k + 1 |-> IF n = 0 THEN S ELSE PublishNext(g[n - 1], r)]
          = [n \in 0 .. k + 1 |-> IF n = 0 THEN S ELSE PublishNext(h[n - 1], r)]
      BY <3>2
    <3> QED BY <3>3 DEF h
  <2>4. k + 1 \in Nat BY <1>1
  <2> HIDE DEF h
  <2>5. Good(h, k + 1) BY <2>3
  <2> QED BY <2>4, <2>5
<1>4. Len(S.req[r].prompt) \in W
  <2> HIDE DEF W
  <2>1. \A n \in 0 .. Len(S.req[r].prompt) : n \in W BY <1>1, <1>2, <1>3, CountUp
  <2> QED BY <1>1, <2>1
<1>5. Good(c, Len(S.req[r].prompt)) BY <1>4
<1>6. PublishBlocks(S, r) = c[Len(S.req[r].prompt)] BY DEF PublishBlocks
<1> HIDE DEF c
<1>7. c = [n \in 0 .. Len(S.req[r].prompt) |-> IF n = 0 THEN S ELSE PublishNext(c[n - 1], r)] BY <1>5
<1>8. c[0] = S BY <1>1, <1>7
<1>9. \A n \in 1 .. Len(S.req[r].prompt) : c[n] = PublishNext(c[n - 1], r)
  <2>1. \A n \in 1 .. Len(S.req[r].prompt) : n \in 0 .. Len(S.req[r].prompt) /\ n # 0 BY <1>1
  <2>2. \A n \in 0 .. Len(S.req[r].prompt) : c[n] = IF n = 0 THEN S ELSE PublishNext(c[n - 1], r) BY <1>7
  <2> QED BY <2>1, <2>2
<1> QED BY <1>6, <1>8, <1>9 DEF PublishBlocksTurns

\* The same of the eviction loop.
EvictTurns(turn, S, needed) ==
    /\ turn[0] = S
    /\ \A n \in 1 .. Capacity : turn[n] = EvictNext(turn[n - 1], needed)
    /\ turn[Capacity] = EvictUntil(S, needed)

\* The turns of that loop.
LEMMA EvictTurnsExist ==
    ASSUME NEW S, NEW needed
    PROVE  \E turn : EvictTurns(turn, S, needed)
<1> DEFINE Good(g, k) ==
               g = [n \in 0 .. k |-> IF n = 0 THEN S ELSE EvictNext(g[n - 1], needed)]
           W == {k \in Nat : \E g : Good(g, k)}
           c == CHOOSE g : Good(g, Capacity)
<1>1. Capacity \in Nat BY CapacityAssumption
<1>2. 0 \in W
  <2> DEFINE g == [n \in 0 .. 0 |-> S]
  <2>1. g = [n \in 0 .. 0 |-> IF n = 0 THEN S ELSE EvictNext(g[n - 1], needed)] OBVIOUS
  <2> HIDE DEF g
  <2>2. Good(g, 0) BY <2>1
  <2> QED BY <2>2
<1>3. ASSUME NEW k \in 0 .. Capacity - 1, k \in W PROVE k + 1 \in W
  <2>1. PICK g : Good(g, k) BY <1>3
  <2> DEFINE h == [n \in 0 .. k + 1 |-> IF n = 0 THEN S ELSE EvictNext(g[n - 1], needed)]
  <2>2. \A n \in 0 .. k : h[n] = g[n]
    <3> HIDE DEF Good
    <3>1. g = [n \in 0 .. k |-> IF n = 0 THEN S ELSE EvictNext(g[n - 1], needed)]
      BY <2>1 DEF Good
    <3>2. \A n \in 0 .. k : n \in 0 .. k + 1 BY <1>1
    <3>3. ASSUME NEW n \in 0 .. k PROVE h[n] = g[n]
      <4>1. h[n] = IF n = 0 THEN S ELSE EvictNext(g[n - 1], needed) BY <3>2
      <4>2. g[n] = IF n = 0 THEN S ELSE EvictNext(g[n - 1], needed) BY <3>1
      <4> QED BY <4>1, <4>2
    <3> QED BY <3>3
  <2>3. h = [n \in 0 .. k + 1 |-> IF n = 0 THEN S ELSE EvictNext(h[n - 1], needed)]
    <3>1. \A n \in 0 .. k + 1 : n # 0 => n - 1 \in 0 .. k BY <1>1
    <3> HIDE DEF h
    <3>2. \A n \in 0 .. k + 1 :
             (IF n = 0 THEN S ELSE EvictNext(g[n - 1], needed))
             = (IF n = 0 THEN S ELSE EvictNext(h[n - 1], needed))
      BY <2>2, <3>1
    <3>3. [n \in 0 .. k + 1 |-> IF n = 0 THEN S ELSE EvictNext(g[n - 1], needed)]
          = [n \in 0 .. k + 1 |-> IF n = 0 THEN S ELSE EvictNext(h[n - 1], needed)]
      BY <3>2
    <3> QED BY <3>3 DEF h
  <2>4. k + 1 \in Nat BY <1>1
  <2> HIDE DEF h
  <2>5. Good(h, k + 1) BY <2>3
  <2> QED BY <2>4, <2>5
<1>4. Capacity \in W
  <2> HIDE DEF W
  <2>1. \A n \in 0 .. Capacity : n \in W BY <1>1, <1>2, <1>3, CountUp
  <2> QED BY <1>1, <2>1
<1>5. Good(c, Capacity) BY <1>4
<1>6. EvictUntil(S, needed) = c[Capacity] BY DEF EvictUntil
<1> HIDE DEF c
<1>7. c = [n \in 0 .. Capacity |-> IF n = 0 THEN S ELSE EvictNext(c[n - 1], needed)] BY <1>5
<1>8. c[0] = S BY <1>1, <1>7
<1>9. \A n \in 1 .. Capacity : c[n] = EvictNext(c[n - 1], needed)
  <2>1. \A n \in 1 .. Capacity : n \in 0 .. Capacity /\ n # 0 BY <1>1
  <2>2. \A n \in 0 .. Capacity : c[n] = IF n = 0 THEN S ELSE EvictNext(c[n - 1], needed) BY <1>7
  <2> QED BY <2>1, <2>2
<1> QED BY <1>6, <1>8, <1>9 DEF EvictTurns

\* The same of the loop of prepare_plan over its candidates.
PrepareTurns(turn, S, ids, tokens, m) ==
    /\ turn[0] = S
    /\ \A n \in 1 .. m : turn[n] = Reserve(turn[n - 1], WorkItem(S, ids[n], tokens[n]))
    /\ turn[m] = Prepare(S, ids, tokens, m)

\* The turns of that loop.
LEMMA PrepareTurnsExist ==
    ASSUME NEW S, NEW ids, NEW tokens, NEW m \in Nat
    PROVE  \E turn : PrepareTurns(turn, S, ids, tokens, m)
<1> DEFINE Good(g, k) ==
               g = [n \in 0 .. k |-> IF n = 0 THEN S ELSE Reserve(g[n - 1], WorkItem(S, ids[n], tokens[n]))]
           W == {k \in Nat : \E g : Good(g, k)}
           c == CHOOSE g : Good(g, m)
<1>1. m \in Nat OBVIOUS
<1>2. 0 \in W
  <2> DEFINE g == [n \in 0 .. 0 |-> S]
  <2>1. g = [n \in 0 .. 0 |-> IF n = 0 THEN S ELSE Reserve(g[n - 1], WorkItem(S, ids[n], tokens[n]))] OBVIOUS
  <2> HIDE DEF g
  <2>2. Good(g, 0) BY <2>1
  <2> QED BY <2>2
<1>3. ASSUME NEW k \in 0 .. m - 1, k \in W PROVE k + 1 \in W
  <2>1. PICK g : Good(g, k) BY <1>3
  <2> DEFINE h == [n \in 0 .. k + 1 |-> IF n = 0 THEN S ELSE Reserve(g[n - 1], WorkItem(S, ids[n], tokens[n]))]
  <2>2. \A n \in 0 .. k : h[n] = g[n]
    <3> HIDE DEF Good
    <3>1. g = [n \in 0 .. k |-> IF n = 0 THEN S ELSE Reserve(g[n - 1], WorkItem(S, ids[n], tokens[n]))]
      BY <2>1 DEF Good
    <3>2. \A n \in 0 .. k : n \in 0 .. k + 1 BY <1>1
    <3>3. ASSUME NEW n \in 0 .. k PROVE h[n] = g[n]
      <4>1. h[n] = IF n = 0 THEN S ELSE Reserve(g[n - 1], WorkItem(S, ids[n], tokens[n])) BY <3>2
      <4>2. g[n] = IF n = 0 THEN S ELSE Reserve(g[n - 1], WorkItem(S, ids[n], tokens[n])) BY <3>1
      <4> QED BY <4>1, <4>2
    <3> QED BY <3>3
  <2>3. h = [n \in 0 .. k + 1 |-> IF n = 0 THEN S ELSE Reserve(h[n - 1], WorkItem(S, ids[n], tokens[n]))]
    <3>1. \A n \in 0 .. k + 1 : n # 0 => n - 1 \in 0 .. k BY <1>1
    <3> HIDE DEF h
    <3>2. \A n \in 0 .. k + 1 :
             (IF n = 0 THEN S ELSE Reserve(g[n - 1], WorkItem(S, ids[n], tokens[n])))
             = (IF n = 0 THEN S ELSE Reserve(h[n - 1], WorkItem(S, ids[n], tokens[n])))
      BY <2>2, <3>1
    <3>3. [n \in 0 .. k + 1 |-> IF n = 0 THEN S ELSE Reserve(g[n - 1], WorkItem(S, ids[n], tokens[n]))]
          = [n \in 0 .. k + 1 |-> IF n = 0 THEN S ELSE Reserve(h[n - 1], WorkItem(S, ids[n], tokens[n]))]
      BY <3>2
    <3> QED BY <3>3 DEF h
  <2>4. k + 1 \in Nat BY <1>1
  <2> HIDE DEF h
  <2>5. Good(h, k + 1) BY <2>3
  <2> QED BY <2>4, <2>5
<1>4. m \in W
  <2> HIDE DEF W
  <2>1. \A n \in 0 .. m : n \in W BY <1>1, <1>2, <1>3, CountUp
  <2> QED BY <1>1, <2>1
<1>5. Good(c, m) BY <1>4
<1>6. Prepare(S, ids, tokens, m) = c[m] BY DEF Prepare
<1> HIDE DEF c
<1>7. c = [n \in 0 .. m |-> IF n = 0 THEN S ELSE Reserve(c[n - 1], WorkItem(S, ids[n], tokens[n]))] BY <1>5
<1>8. c[0] = S BY <1>1, <1>7
<1>9. \A n \in 1 .. m : c[n] = Reserve(c[n - 1], WorkItem(S, ids[n], tokens[n]))
  <2>1. \A n \in 1 .. m : n \in 0 .. m /\ n # 0 BY <1>1
  <2>2. \A n \in 0 .. m : c[n] = IF n = 0 THEN S ELSE Reserve(c[n - 1], WorkItem(S, ids[n], tokens[n])) BY <1>7
  <2> QED BY <2>1, <2>2
<1> QED BY <1>6, <1>8, <1>9 DEF PrepareTurns

\* The same of the loop of complete_iteration over the items it publishes.
PublishTurns(turn, S, items, stops) ==
    /\ turn[0] = S
    /\ \A n \in 1 .. Len(items) : turn[n] = Publish(turn[n - 1], items[n], items[n].id \in stops)
    /\ turn[Len(items)] = PublishAll(S, items, stops)

\* The turns of that loop.
LEMMA PublishTurnsExist ==
    ASSUME NEW S, NEW items, Len(items) \in Nat, NEW stops
    PROVE  \E turn : PublishTurns(turn, S, items, stops)
<1> DEFINE Good(g, k) ==
               g = [n \in 0 .. k |-> IF n = 0 THEN S ELSE Publish(g[n - 1], items[n], items[n].id \in stops)]
           W == {k \in Nat : \E g : Good(g, k)}
           c == CHOOSE g : Good(g, Len(items))
<1>1. Len(items) \in Nat OBVIOUS
<1>2. 0 \in W
  <2> DEFINE g == [n \in 0 .. 0 |-> S]
  <2>1. g = [n \in 0 .. 0 |-> IF n = 0 THEN S ELSE Publish(g[n - 1], items[n], items[n].id \in stops)] OBVIOUS
  <2> HIDE DEF g
  <2>2. Good(g, 0) BY <2>1
  <2> QED BY <2>2
<1>3. ASSUME NEW k \in 0 .. Len(items) - 1, k \in W PROVE k + 1 \in W
  <2>1. PICK g : Good(g, k) BY <1>3
  <2> DEFINE h == [n \in 0 .. k + 1 |-> IF n = 0 THEN S ELSE Publish(g[n - 1], items[n], items[n].id \in stops)]
  <2>2. \A n \in 0 .. k : h[n] = g[n]
    <3> HIDE DEF Good
    <3>1. g = [n \in 0 .. k |-> IF n = 0 THEN S ELSE Publish(g[n - 1], items[n], items[n].id \in stops)]
      BY <2>1 DEF Good
    <3>2. \A n \in 0 .. k : n \in 0 .. k + 1 BY <1>1
    <3>3. ASSUME NEW n \in 0 .. k PROVE h[n] = g[n]
      <4>1. h[n] = IF n = 0 THEN S ELSE Publish(g[n - 1], items[n], items[n].id \in stops) BY <3>2
      <4>2. g[n] = IF n = 0 THEN S ELSE Publish(g[n - 1], items[n], items[n].id \in stops) BY <3>1
      <4> QED BY <4>1, <4>2
    <3> QED BY <3>3
  <2>3. h = [n \in 0 .. k + 1 |-> IF n = 0 THEN S ELSE Publish(h[n - 1], items[n], items[n].id \in stops)]
    <3>1. \A n \in 0 .. k + 1 : n # 0 => n - 1 \in 0 .. k BY <1>1
    <3> HIDE DEF h
    <3>2. \A n \in 0 .. k + 1 :
             (IF n = 0 THEN S ELSE Publish(g[n - 1], items[n], items[n].id \in stops))
             = (IF n = 0 THEN S ELSE Publish(h[n - 1], items[n], items[n].id \in stops))
      BY <2>2, <3>1
    <3>3. [n \in 0 .. k + 1 |-> IF n = 0 THEN S ELSE Publish(g[n - 1], items[n], items[n].id \in stops)]
          = [n \in 0 .. k + 1 |-> IF n = 0 THEN S ELSE Publish(h[n - 1], items[n], items[n].id \in stops)]
      BY <3>2
    <3> QED BY <3>3 DEF h
  <2>4. k + 1 \in Nat BY <1>1
  <2> HIDE DEF h
  <2>5. Good(h, k + 1) BY <2>3
  <2> QED BY <2>4, <2>5
<1>4. Len(items) \in W
  <2> HIDE DEF W
  <2>1. \A n \in 0 .. Len(items) : n \in W BY <1>1, <1>2, <1>3, CountUp
  <2> QED BY <1>1, <2>1
<1>5. Good(c, Len(items)) BY <1>4
<1>6. PublishAll(S, items, stops) = c[Len(items)] BY DEF PublishAll
<1> HIDE DEF c
<1>7. c = [n \in 0 .. Len(items) |-> IF n = 0 THEN S ELSE Publish(c[n - 1], items[n], items[n].id \in stops)] BY <1>5
<1>8. c[0] = S BY <1>1, <1>7
<1>9. \A n \in 1 .. Len(items) : c[n] = Publish(c[n - 1], items[n], items[n].id \in stops)
  <2>1. \A n \in 1 .. Len(items) : n \in 0 .. Len(items) /\ n # 0 BY <1>1
  <2>2. \A n \in 0 .. Len(items) : c[n] = IF n = 0 THEN S ELSE Publish(c[n - 1], items[n], items[n].id \in stops) BY <1>7
  <2> QED BY <2>1, <2>2
<1> QED BY <1>6, <1>8, <1>9 DEF PublishTurns

\* The same of the loop of abort_iteration over the items it rolls back.
AbortTurns(turn, S) ==
    /\ turn[0] = [S EXCEPT !.inflight = <<>>]
    /\ \A n \in 1 .. Len(S.inflight) : turn[n] = AbortItem(turn[n - 1], S.inflight[n])
    /\ turn[Len(S.inflight)] = AbortNotDispatched(S)

\* The turns of that loop.
LEMMA AbortTurnsExist ==
    ASSUME NEW S, Len(S.inflight) \in Nat
    PROVE  \E turn : AbortTurns(turn, S)
<1> DEFINE Good(g, k) ==
               g = [n \in 0 .. k |-> IF n = 0 THEN [S EXCEPT !.inflight = <<>>] ELSE AbortItem(g[n - 1], S.inflight[n])]
           W == {k \in Nat : \E g : Good(g, k)}
           c == CHOOSE g : Good(g, Len(S.inflight))
<1>1. Len(S.inflight) \in Nat OBVIOUS
<1>2. 0 \in W
  <2> DEFINE g == [n \in 0 .. 0 |-> [S EXCEPT !.inflight = <<>>]]
  <2>1. g = [n \in 0 .. 0 |-> IF n = 0 THEN [S EXCEPT !.inflight = <<>>] ELSE AbortItem(g[n - 1], S.inflight[n])] OBVIOUS
  <2> HIDE DEF g
  <2>2. Good(g, 0) BY <2>1
  <2> QED BY <2>2
<1>3. ASSUME NEW k \in 0 .. Len(S.inflight) - 1, k \in W PROVE k + 1 \in W
  <2>1. PICK g : Good(g, k) BY <1>3
  <2> DEFINE h == [n \in 0 .. k + 1 |-> IF n = 0 THEN [S EXCEPT !.inflight = <<>>] ELSE AbortItem(g[n - 1], S.inflight[n])]
  <2>2. \A n \in 0 .. k : h[n] = g[n]
    <3> HIDE DEF Good
    <3>1. g = [n \in 0 .. k |-> IF n = 0 THEN [S EXCEPT !.inflight = <<>>] ELSE AbortItem(g[n - 1], S.inflight[n])]
      BY <2>1 DEF Good
    <3>2. \A n \in 0 .. k : n \in 0 .. k + 1 BY <1>1
    <3>3. ASSUME NEW n \in 0 .. k PROVE h[n] = g[n]
      <4>1. h[n] = IF n = 0 THEN [S EXCEPT !.inflight = <<>>] ELSE AbortItem(g[n - 1], S.inflight[n]) BY <3>2
      <4>2. g[n] = IF n = 0 THEN [S EXCEPT !.inflight = <<>>] ELSE AbortItem(g[n - 1], S.inflight[n]) BY <3>1
      <4> QED BY <4>1, <4>2
    <3> QED BY <3>3
  <2>3. h = [n \in 0 .. k + 1 |-> IF n = 0 THEN [S EXCEPT !.inflight = <<>>] ELSE AbortItem(h[n - 1], S.inflight[n])]
    <3>1. \A n \in 0 .. k + 1 : n # 0 => n - 1 \in 0 .. k BY <1>1
    <3> HIDE DEF h
    <3>2. \A n \in 0 .. k + 1 :
             (IF n = 0 THEN [S EXCEPT !.inflight = <<>>] ELSE AbortItem(g[n - 1], S.inflight[n]))
             = (IF n = 0 THEN [S EXCEPT !.inflight = <<>>] ELSE AbortItem(h[n - 1], S.inflight[n]))
      BY <2>2, <3>1
    <3>3. [n \in 0 .. k + 1 |-> IF n = 0 THEN [S EXCEPT !.inflight = <<>>] ELSE AbortItem(g[n - 1], S.inflight[n])]
          = [n \in 0 .. k + 1 |-> IF n = 0 THEN [S EXCEPT !.inflight = <<>>] ELSE AbortItem(h[n - 1], S.inflight[n])]
      BY <3>2
    <3> QED BY <3>3 DEF h
  <2>4. k + 1 \in Nat BY <1>1
  <2> HIDE DEF h
  <2>5. Good(h, k + 1) BY <2>3
  <2> QED BY <2>4, <2>5
<1>4. Len(S.inflight) \in W
  <2> HIDE DEF W
  <2>1. \A n \in 0 .. Len(S.inflight) : n \in W BY <1>1, <1>2, <1>3, CountUp
  <2> QED BY <1>1, <2>1
<1>5. Good(c, Len(S.inflight)) BY <1>4
<1>6. AbortNotDispatched(S) = c[Len(S.inflight)] BY DEF AbortNotDispatched
<1> HIDE DEF c
<1>7. c = [n \in 0 .. Len(S.inflight) |-> IF n = 0 THEN [S EXCEPT !.inflight = <<>>] ELSE AbortItem(c[n - 1], S.inflight[n])] BY <1>5
<1>8. c[0] = [S EXCEPT !.inflight = <<>>] BY <1>1, <1>7
<1>9. \A n \in 1 .. Len(S.inflight) : c[n] = AbortItem(c[n - 1], S.inflight[n])
  <2>1. \A n \in 1 .. Len(S.inflight) : n \in 0 .. Len(S.inflight) /\ n # 0 BY <1>1
  <2>2. \A n \in 0 .. Len(S.inflight) : c[n] = IF n = 0 THEN [S EXCEPT !.inflight = <<>>] ELSE AbortItem(c[n - 1], S.inflight[n]) BY <1>7
  <2> QED BY <2>1, <2>2
<1> QED BY <1>6, <1>8, <1>9 DEF AbortTurns
-----------------------------------------------------------------------------
(* Steps that leave every request where it is, or move it among the active  *)
(* states.                                                                  *)

\* Request p may become q in such a step.
Alike(p, q) ==
    /\ q.state = p.state \/ (p.state \in Active /\ q.state \in Active)
    /\ q.prompt = p.prompt /\ q.maxNew = p.maxNew

Moves(S, T) ==
    /\ Shape(T) /\ SameQueues(S, T)
    /\ \A r \in RequestIds : Alike(S.req[r], T.req[r])

\* Moving twice is moving.
LEMMA MovesTwice ==
    ASSUME NEW S, NEW T, NEW U, Moves(S, T), Moves(T, U)
    PROVE  Moves(S, U)
<1>1. Shape(U) /\ SameQueues(S, U) BY DEF Moves, SameQueues
<1>2. ASSUME NEW r \in RequestIds PROVE Alike(S.req[r], U.req[r])
  <2>1. Alike(S.req[r], T.req[r]) /\ Alike(T.req[r], U.req[r]) BY DEF Moves
  <2> QED BY <2>1 DEF Alike
<1> QED BY <1>1, <1>2 DEF Moves

\* Standing still is moving.
LEMMA MovesNot ==
    ASSUME NEW S, Shape(S)
    PROVE  Moves(S, S)
  BY DEF Moves, SameQueues, Alike

\* The sets of states.
LEMMA StatesAre ==
    /\ Terminal \subseteq States /\ Terminal \cap Live = {} /\ "waiting" \notin Terminal
    /\ "unborn" \notin Terminal /\ "unborn" \notin Live /\ Active \cap Terminal = {}
    /\ Active \subseteq Live /\ Live \subseteq States /\ "waiting" \in Live
    /\ "waiting" \notin Active /\ "unborn" \notin Active
  BY DEF Terminal, States, Live, Active

\* The counters do not see such steps.
LEMMA AccountsSame ==
    ASSUME NEW S, Accounts(S), NEW T, SameCounters(S, T),
           \A r \in RequestIds : Alike(S.req[r], T.req[r])
    PROVE  Accounts(T)
<1>1. ASSUME NEW r \in RequestIds
      PROVE  /\ T.req[r].state \in Active <=> S.req[r].state \in Active
             /\ T.req[r].state = "waiting" <=> S.req[r].state = "waiting"
             /\ T.req[r].state \in Live <=> S.req[r].state \in Live
             /\ Asked(T.req[r])
  <2>1. Alike(S.req[r], T.req[r]) /\ Asked(S.req[r]) BY DEF Accounts
  <2>2. CASE T.req[r].state = S.req[r].state BY <2>1, <2>2 DEF Alike, Asked
  <2>3. CASE S.req[r].state \in Active /\ T.req[r].state \in Active
    BY <2>1, <2>3, StatesAre DEF Alike, Asked
  <2> QED BY <2>1, <2>2, <2>3 DEF Alike
<1>2. /\ StateIn(T, Active) = StateIn(S, Active)
      /\ StateIn(T, {"waiting"}) = StateIn(S, {"waiting"})
  BY <1>1 DEF StateIn
<1>3. PromiseOf(T) = PromiseOf(S) /\ LengthOf(T) = LengthOf(S)
  BY DEF PromiseOf, LengthOf, Promise, Alike
<1> QED BY <1>1, <1>2, <1>3 DEF Accounts, SameCounters

\* Queues, reports and counters do not see such steps.
LEMMA MovesControl ==
    ASSUME NEW S, NEW d, Control(S, d), NEW T, Moves(S, T)
    PROVE  Control(T, d) /\ Quiet(S, T)
<1>1. /\ T.next = S.next /\ T.requests = S.requests /\ T.waiting = S.waiting
      /\ T.outbox = S.outbox /\ Shape(T)
  BY DEF Moves, SameQueues
<1>2. ASSUME NEW r \in RequestIds
      PROVE  /\ S.req[r].state \in States /\ (S.req[r].state = "unborn" <=> r >= S.next)
             /\ (r \in ToSet(S.requests) <=> S.req[r].state \in Live)
             /\ (r \in ToSet(S.waiting) <=> S.req[r].state = "waiting")
             /\ d[r] + Events(S.outbox, r) = IF S.req[r].state \in Terminal THEN 1 ELSE 0
  BY DEF Control, Queues, Reports
<1>3. ASSUME NEW r \in RequestIds
      PROVE  /\ T.req[r].state \in States /\ (T.req[r].state = "unborn" <=> r >= S.next)
             /\ (r \in ToSet(S.requests) <=> T.req[r].state \in Live)
             /\ (r \in ToSet(S.waiting) <=> T.req[r].state = "waiting")
             /\ d[r] + Events(S.outbox, r) = IF T.req[r].state \in Terminal THEN 1 ELSE 0
             /\ T.req[r].state \in Active => S.req[r].state \in Active
             /\ T.req[r].state = "waiting" => S.req[r].state = "waiting"
  <2>1. T.req[r].state = S.req[r].state
        \/ (S.req[r].state \in Active /\ T.req[r].state \in Active)
    BY DEF Moves, Alike
  <2>2. CASE T.req[r].state = S.req[r].state BY <1>2, <2>2
  <2>3. CASE S.req[r].state \in Active /\ T.req[r].state \in Active BY <1>2, <2>3, StatesAre
  <2> QED BY <2>1, <2>2, <2>3
<1>4. Queues(T) BY <1>1, <1>3 DEF Control, Queues
<1>5. Reports(T, d) BY <1>1, <1>3 DEF Control, Reports
<1>6. PromptsAreSeqs(T) BY DEF Control, PromptsAreSeqs, Moves, Alike
<1>7. Accounts(T)
  <2>1. SameCounters(S, T) /\ \A r \in RequestIds : Alike(S.req[r], T.req[r])
    BY DEF Moves, SameQueues, SameCounters
  <2> QED BY <2>1, AccountsSame DEF Control
<1> QED BY <1>1, <1>3, <1>4, <1>5, <1>6, <1>7 DEF Control, Quiet

\* Request r becomes q; the queues stay.
Becomes(S, T, r, q) ==
    /\ SchedulerShape(T) /\ SameQueues(S, T)
    /\ T.req = [S.req EXCEPT ![r] = q]

\* A request that changes in none of the fields the queues depend on.
LEMMA OneMoves ==
    ASSUME NEW S, Shape(S), NEW r \in RequestIds, NEW T, NEW q, Becomes(S, T, r, q),
           RequestShape(q), Alike(S.req[r], q)
    PROVE  Moves(S, T) /\ T.req[r] = q /\ \A o \in RequestIds \ {r} : T.req[o] = S.req[o]
<1>1. /\ T.req = [o \in RequestIds |-> T.req[o]] /\ T.req[r] = q
      /\ \A o \in RequestIds \ {r} : T.req[o] = S.req[o]
  BY DEF Shape, Becomes
<1>2. \A o \in RequestIds : RequestShape(T.req[o]) BY <1>1 DEF Shape
<1>3. Shape(T) BY <1>1, <1>2 DEF Shape, Becomes
<1>4. ASSUME NEW o \in RequestIds PROVE Alike(S.req[o], T.req[o])
  <2>1. CASE o = r BY <1>1, <2>1
  <2>2. CASE o # r BY <1>1, <2>2 DEF Alike
  <2> QED BY <2>1, <2>2
<1> QED BY <1>1, <1>3, <1>4 DEF Moves, Becomes

\* The requests become those of f; the queues stay.
AllBecome(S, T, f) ==
    /\ SchedulerShape(T) /\ SameQueues(S, T)
    /\ T.req = [r \in RequestIds |-> f[r]]

\* Every request changes in none of the fields the queues depend on.
LEMMA AllMove ==
    ASSUME NEW S, Shape(S), NEW T, NEW f, AllBecome(S, T, f),
           \A r \in RequestIds : RequestShape(f[r]) /\ Alike(S.req[r], f[r])
    PROVE  Moves(S, T) /\ \A r \in RequestIds : T.req[r] = f[r]
<1>1. /\ T.req = [r \in RequestIds |-> T.req[r]] /\ \A r \in RequestIds : T.req[r] = f[r]
  BY DEF AllBecome
<1>2. Shape(T) BY <1>1 DEF Shape, AllBecome
<1> QED BY <1>1, <1>2 DEF Moves, AllBecome

-----------------------------------------------------------------------------
(* What each elementary step does. *)

\* The request after it adopted entry id.
AdoptedOf(S, q, id) ==
    [q EXCEPT !.shared = Append(@, S.index.entries[id].block),
              !.tip = id,
              !.cursor = @ + BlockSize,
              !.length = (Len(q.shared) + 1) * BlockSize,
              !.cached = @ + BlockSize]

\* Entries request q may adopt next.
Adoptable(S, q) ==
    IF q.cursor < Reusable(q.prompt) THEN Find(S.index, q.tip, BlockTokens(q.prompt, q.cursor))
                                     ELSE {}

\* T is S after request r adopted entry id.
Adopts(S, T, r, id) ==
    /\ Moves(S, T) /\ T.index = S.index /\ T.inflight = S.inflight
    /\ id \in Adoptable(S, S.req[r])
    /\ T.req[r] = AdoptedOf(S, S.req[r], id)
    /\ \A o \in RequestIds \ {r} : T.req[o] = S.req[o]

\* A turn of the adoption loop adopts an entry or changes nothing.
LEMMA AdoptNextIs ==
    ASSUME NEW S, Shape(S), NEW r \in RequestIds
    PROVE  AdoptNext(S, r) = S \/ \E id : Adopts(S, AdoptNext(S, r), r, id)
<1> DEFINE q == S.req[r]
           found == Adoptable(S, q)
           id == CHOOSE e \in found : TRUE
           T == [S EXCEPT !.req[r] = AdoptedOf(S, q, id)]
<1>1. AdoptNext(S, r) = IF found = {} THEN S ELSE T BY DEF AdoptNext, Adoptable, AdoptedOf
<1>2. CASE found # {}
  <2>1. id \in found BY <1>2
  <2>2. RequestShape(q) BY DEF Shape
  <2> DEFINE p == AdoptedOf(S, q, id)
  <2> HIDE DEF id, found, q
  <2>3. RequestShape(p) /\ Alike(q, p) BY <2>2 DEF AdoptedOf, RequestShape, Alike
  <2> HIDE DEF p
  <2>4. Becomes(S, T, r, p) /\ T.index = S.index /\ T.inflight = S.inflight
    BY DEF Shape, SchedulerShape, SameQueues, p, Becomes
  <2> HIDE DEF T
  <2>5. Moves(S, T) /\ T.req[r] = p /\ \A o \in RequestIds \ {r} : T.req[o] = S.req[o]
    BY <2>3, <2>4, OneMoves DEF q
  <2>6. Adopts(S, T, r, id) BY <2>1, <2>4, <2>5 DEF Adopts, p, q, found
  <2> QED BY <1>1, <1>2, <2>6
<1> QED BY <1>1, <1>2

\* A step that replaces the index alone.
Reindexes(S, T) == Moves(S, T) /\ T.req = S.req /\ T.inflight = S.inflight

\* Replacing the index moves no request.
LEMMA IndexMoves ==
    ASSUME NEW S, Shape(S), NEW x
    PROVE  Reindexes(S, [S EXCEPT !.index = x]) /\ [S EXCEPT !.index = x].index = x
<1> DEFINE T == [S EXCEPT !.index = x]
<1>1. /\ SchedulerShape(T) /\ SameQueues(S, T) /\ T.index = x /\ T.inflight = S.inflight
      /\ T.req = S.req
  BY DEF Shape, SchedulerShape, SameQueues
<1> HIDE DEF T
<1>2. Shape(T) BY <1>1 DEF Shape
<1>3. Moves(S, T) BY <1>1, <1>2 DEF Moves, Alike
<1> QED BY <1>1, <1>3 DEF T, Reindexes

\* One more element.
LEMMA PlanGrows ==
    ASSUME NEW p, p \in Seq(ToSet(p)), NEW x
    PROVE  /\ Append(p, x) \in Seq(ToSet(Append(p, x)))
           /\ Len(Append(p, x)) = Len(p) + 1 /\ Len(p) \in Nat
           /\ DOMAIN Append(p, x) = 1 .. Len(p) + 1
           /\ Append(p, x)[Len(p) + 1] = x
           /\ \A i \in 1 .. Len(p) : Append(p, x)[i] = p[i]
<1> DEFINE X == ToSet(p) \cup {x}
<1>1. p \in Seq(X) BY SeqWider
<1>2. x \in X OBVIOUS
<1>3. ToSet(Append(p, x)) = X BY <1>1, <1>2, AppendIs
<1>4. Append(p, x) \in Seq(X) BY <1>1, <1>2, AppendIs
<1> HIDE DEF X
<1> QED BY <1>1, <1>2, <1>3, <1>4

\* What a commit makes of it.
LEMMA CommittedIsHalf ==
    ASSUME NEW p, NEW item, Busy(p, item), RequestShape(p),
           NEW q, q = [p EXCEPT !.length = p.pending, !.pending = 0]
    PROVE  Half(q, item)
<1>1. /\ q.state = p.state /\ q.pending = 0 /\ q.length = p.pending
      /\ q.prompt = p.prompt /\ q.maxNew = p.maxNew /\ q.cursor = p.cursor
      /\ q.generated = p.generated /\ q.shared = p.shared /\ q.deferred = p.deferred
  BY DEF RequestShape
<1>2. /\ Asked(p) /\ Numbers(p) /\ Progress(p, item.previous) /\ Asks(p, item)
      /\ p.state = (IF item.previous = "decoding" THEN "decoding" ELSE "prefilling")
      /\ p.pending = item.target
  BY DEF Busy
<1>3. item.previous \in Active /\ item.target \in Nat /\ item.decode \in BOOLEAN
      /\ (item.decode <=> item.previous = "decoding")
  BY <1>2 DEF Asks
<1>4. Asked(q) BY <1>1, <1>2 DEF Asked
<1>5. Numbers(q) BY <1>1, <1>2, <1>3 DEF Numbers
<1>6. /\ Len(p.prompt) \in Nat /\ p.cursor \in Nat /\ p.length \in Nat /\ p.generated \in Nat
      /\ Len(p.shared) \in Nat
      /\ Len(p.shared) * BlockSize \in Nat
  <2>1. Len(p.shared) \in Nat /\ BlockSize \in Nat BY <1>2, ConfigAssumption DEF Numbers
  <2>2. Len(p.shared) * BlockSize \in Nat BY <2>1
  <2> QED BY <1>2, <2>1, <2>2 DEF Asked, Numbers
<1>7. Len(p.shared) * BlockSize <= p.length /\ p.generated < p.maxNew
  BY <1>2, <1>3 DEF Progress
<1> DEFINE w == Len(p.shared) * BlockSize
<1>8. w \in Nat /\ w <= p.length BY <1>6, <1>7
<1>9. CASE item.decode
  <2>1. /\ p.state = "decoding" /\ p.cursor = Len(p.prompt) /\ p.generated > 0
        /\ p.length = Len(p.prompt) + p.generated - 1
        /\ item.target = p.length + 1 /\ item.output = TRUE
    BY <1>2, <1>3, <1>9 DEF Progress, Asks
  <2> HIDE DEF w
  <2>2. w <= item.target /\ item.target = Len(p.prompt) + p.generated BY <1>6, <1>8, <2>1
  <2> QED BY <1>1, <1>2, <1>3, <1>4, <1>5, <1>7, <1>9, <2>1, <2>2 DEF Half, w
<1>10. CASE ~item.decode
  <2>1. /\ p.state = "prefilling" /\ p.cursor = p.length /\ p.generated = 0
        /\ p.cursor < item.target /\ item.target <= Len(p.prompt)
        /\ item.output = (item.target = Len(p.prompt))
    BY <1>2, <1>3, <1>10 DEF Progress, Asks
  <2> HIDE DEF w
  <2>2. w <= item.target /\ w <= p.cursor BY <1>3, <1>6, <1>8, <2>1
  <2> QED BY <1>1, <1>2, <1>3, <1>4, <1>5, <1>7, <1>10, <2>1, <2>2 DEF Half, w
<1> QED BY <1>9, <1>10

\* Rolling an item back.
LEMMA RolledBackRests ==
    ASSUME NEW p, NEW item, Busy(p, item), RequestShape(p), ~p.deferred,
           NEW q, q = [p EXCEPT !.pending = 0, !.state = item.previous]
    PROVE  Rest(q)
<1>1. /\ q.state = item.previous /\ q.pending = 0 /\ q.length = p.length
      /\ q.prompt = p.prompt /\ q.maxNew = p.maxNew /\ q.cursor = p.cursor
      /\ q.generated = p.generated /\ q.shared = p.shared /\ q.deferred = p.deferred
  BY DEF RequestShape
<1>2. Asked(p) /\ Numbers(p) /\ Progress(p, item.previous) /\ item.previous \in Active
      /\ p.state \in {"decoding", "prefilling"}
  BY DEF Busy, Asks
<1>3. "decoding" \in Live /\ "prefilling" \in Live /\ Active \subseteq Live BY DEF Live, Active
<1>4. Asked(q) BY <1>1, <1>2, <1>3 DEF Asked
<1>5. Numbers(q) BY <1>1, <1>2 DEF Numbers
<1>6. Progress(q, q.state) BY <1>1, <1>2 DEF Progress
<1>7. q.deferred = FALSE BY <1>1, <1>2 DEF Numbers
<1> QED BY <1>1, <1>4, <1>5, <1>6, <1>7 DEF Rest

\* Dropping a reservation, whatever it is.
LEMMA UnreservedRests ==
    ASSUME NEW p, Rest(p), RequestShape(p), NEW q, q = [p EXCEPT !.pending = 0]
    PROVE  Rest(q)
<1>1. SameWork(p, q) BY DEF RequestShape, SameWork, Rest
<1> QED BY <1>1, SameWorkRests

\* Adopting a block.
LEMMA AdoptedRests ==
    ASSUME NEW S, NEW p, Rest(p), RequestShape(p), p.state = "admitted", NEW id,
           id \in Adoptable(S, p)
    PROVE  Rest(AdoptedOf(S, p, id))
<1> DEFINE q == AdoptedOf(S, p, id)
           b == S.index.entries[id].block
           L == Len(p.prompt)
           k == Len(p.shared)
<1>1. /\ q.state = p.state /\ q.prompt = p.prompt /\ q.maxNew = p.maxNew
      /\ q.cursor = p.cursor + BlockSize /\ q.generated = p.generated
      /\ q.length = (k + 1) * BlockSize /\ q.shared = Append(p.shared, b)
      /\ q.pending = p.pending /\ q.deferred = p.deferred
  BY DEF AdoptedOf, RequestShape
<1> HIDE DEF q
<1>2. Asked(p) /\ Numbers(p) /\ Progress(p, p.state) /\ p.pending = 0 /\ p.deferred = FALSE
  BY DEF Rest
<1>3. "admitted" \in Active /\ "admitted" # "decoding" BY DEF Active
<1>4. /\ p.generated < p.maxNew /\ p.length = k * BlockSize /\ p.cursor = p.length
      /\ p.cursor < L /\ p.generated = 0
  BY <1>2, <1>3 DEF Progress
<1>5. BlockSize \in Nat \ {0} /\ L \in Nat /\ k \in Nat /\ p.length \in Nat /\ p.cursor \in Nat
  <2>1. BlockSize \in Nat \ {0} BY ConfigAssumption
  <2>2. p.prompt \in Seq(Nat) BY <1>2 DEF Asked
  <2>3. p.shared \in Seq(ToSet(p.shared)) /\ p.length \in Nat /\ p.cursor \in Nat
    BY <1>2 DEF Numbers
  <2>4. L \in Nat BY <2>2
  <2>5. k \in Nat BY <2>3
  <2> QED BY <2>1, <2>3, <2>4, <2>5
<1>6. p.cursor < ((L - 1) \div BlockSize) * BlockSize BY DEF Adoptable, Reusable
<1> HIDE DEF k, L
<1> DEFINE m == (L - 1) \div BlockSize
<1>7. m \in Nat /\ BlockSize * m <= L - 1
  <2>1. L - 1 \in Nat BY <1>4, <1>5
  <2> QED BY <1>5, <2>1, QuotientIs
<1> HIDE DEF m
<1>8. k * BlockSize < m * BlockSize BY <1>4, <1>6 DEF m
<1>9. /\ (k + 1) * BlockSize <= m * BlockSize /\ (k + 1) * BlockSize = k * BlockSize + BlockSize
      /\ k * BlockSize \in Nat /\ BlockSize * m = m * BlockSize
  <2>1. k < m BY <1>5, <1>7, <1>8, NextMultiple
  <2>2. BlockSize * m = m * BlockSize BY <1>5, <1>7, NextMultiple
  <2> QED BY <1>5, <1>7, <2>1, <2>2, NextMultiple
<1> DEFINE w == (k + 1) * BlockSize
<1>10. w = p.cursor + BlockSize /\ w < L /\ w \in Nat BY <1>4, <1>5, <1>7, <1>9
<1> HIDE DEF w
<1>11. q.shared \in Seq(ToSet(q.shared)) /\ Len(q.shared) = k + 1
  BY <1>1, <1>2, PlanGrows DEF Numbers, k
<1>12. q.deferred \in BOOLEAN BY <1>1, <1>2
<1>13. Asked(q) BY <1>1, <1>2 DEF Asked
<1>14. Numbers(q) BY <1>1, <1>2, <1>10, <1>11, <1>12 DEF Numbers, w
<1>15. Progress(q, q.state)
  <2>1. /\ Len(q.shared) * BlockSize = w /\ q.length = w /\ q.cursor = w
        /\ Len(q.prompt) = L /\ q.state = "admitted" /\ q.generated = 0
    BY <1>1, <1>4, <1>10, <1>11 DEF w, L
  <2> QED BY <1>1, <1>3, <1>4, <1>10, <2>1 DEF Progress
<1>16. Rest(q) BY <1>1, <1>2, <1>13, <1>14, <1>15 DEF Rest
<1> QED BY <1>16 DEF q

\* A request whose blocks are all in the processed part of its prompt.
Fits(q) ==
    /\ q.shared \in Seq(ToSet(q.shared)) /\ q.cursor \in Nat
    /\ Len(q.shared) * BlockSize <= q.cursor

\* Publishing one more block.
LEMMA ListedFits ==
    ASSUME NEW p, Fits(p), ~(Len(p.shared) >= p.cursor \div BlockSize), NEW b,
           NEW q, q.shared = Append(p.shared, b), q.cursor = p.cursor
    PROVE  Fits(q)
<1> DEFINE k == Len(p.shared)
           m == p.cursor \div BlockSize
<1>1. BlockSize \in Nat \ {0} /\ k \in Nat /\ p.cursor \in Nat BY ConfigAssumption DEF Fits
<1>2. m \in Nat /\ BlockSize * m <= p.cursor BY <1>1, QuotientIs
<1>3. ~(k >= m) OBVIOUS
<1>4. q.shared \in Seq(ToSet(q.shared)) /\ Len(q.shared) = k + 1 BY PlanGrows DEF Fits
<1> HIDE DEF k, m
<1>5. /\ (k + 1) * BlockSize <= m * BlockSize /\ BlockSize * m = m * BlockSize
      /\ m * BlockSize \in Nat /\ (k + 1) * BlockSize \in Nat
  <2>1. k < m BY <1>1, <1>2, <1>3
  <2>2. /\ BlockSize * m = m * BlockSize /\ m * BlockSize \in Nat
        /\ (k + 1) * BlockSize \in Nat
    BY <1>1, <1>2
  <2> QED BY <1>1, <1>2, <2>1, <2>2, NextMultiple
<1> DEFINE w == (k + 1) * BlockSize
           v == m * BlockSize
<1>6. w <= v /\ v <= p.cursor /\ w \in Nat /\ v \in Nat BY <1>2, <1>5
<1> HIDE DEF w, v
<1>7. w <= p.cursor BY <1>1, <1>6
<1> QED BY <1>1, <1>4, <1>7 DEF Fits, w

\* What publish_committed_item leaves of a request that got no token, and of one that did.
LEMMA PublishedRests ==
    ASSUME NEW p, NEW item, Half(p, item), ~p.deferred, NEW q,
           q.prompt = p.prompt, q.maxNew = p.maxNew, q.length = p.length, q.pending = p.pending,
           q.deferred = p.deferred,
           q.cursor = (IF item.decode THEN p.cursor ELSE item.target),
           item.decode => q.shared = p.shared, ~item.decode => Fits(q)
    PROVE  /\ q.state = p.state /\ q.generated = p.generated /\ ~item.output => Rest(q)
           /\ /\ q.state = "decoding" /\ q.generated = p.generated + 1
              /\ item.output /\ q.generated # q.maxNew
              => Rest(q)
<1>1. /\ Asked(p) /\ Numbers(p) /\ p.pending = 0 /\ p.length = item.target
      /\ p.generated < p.maxNew /\ item.decode \in BOOLEAN
  BY DEF Half
<1>2. /\ Len(p.prompt) \in Nat /\ p.maxNew \in Nat /\ p.generated \in Nat /\ p.length \in Nat
      /\ p.cursor \in Nat /\ p.prompt \in Seq(Nat) /\ p.deferred = FALSE
  BY <1>1 DEF Asked, Numbers
<1>3. p.state \in {"decoding", "prefilling"} /\ p.prompt # <<>> /\ p.maxNew > 0
  <2>1. "decoding" \in Live /\ "prefilling" \in Live BY DEF Live, Active
  <2>2. p.state \in {"decoding", "prefilling"} BY DEF Half
  <2> QED BY <1>1, <2>1, <2>2 DEF Asked
<1>4. q.shared \in Seq(ToSet(q.shared)) /\ q.cursor \in Nat
      /\ Len(q.shared) * BlockSize <= item.target
  <2>1. CASE item.decode
    <3>1. Len(p.shared) * BlockSize <= item.target BY DEF Half
    <3> QED BY <1>1, <1>2, <2>1, <3>1 DEF Numbers
  <2>2. CASE ~item.decode BY <2>2 DEF Fits
  <2> QED BY <2>1, <2>2
<1>5. Asked(q) BY <1>2, <1>3 DEF Asked
<1>6. q.deferred \in BOOLEAN /\ q.deferred = FALSE BY <1>2
<1>7. "decoding" \in Active /\ "prefilling" \in Active /\ "prefilling" # "decoding"
      /\ "prefilling" # "admitted" /\ "decoding" # "admitted"
  BY DEF Active
<1> DEFINE w == Len(q.shared) * BlockSize
<1>8. w <= q.length BY <1>1, <1>4
<1>9. ASSUME q.state = p.state, q.generated = p.generated, ~item.output PROVE Rest(q)
  <2>1. /\ ~item.decode /\ p.state = "prefilling" /\ p.generated = 0
        /\ item.target <= Len(p.prompt) /\ item.target # Len(p.prompt)
    BY <1>1, <1>9 DEF Half
  <2>2. q.cursor = q.length /\ q.cursor < Len(q.prompt) BY <1>1, <1>2, <1>4, <2>1
  <2>3. Numbers(q) BY <1>2, <1>4, <1>6, <1>9 DEF Numbers
  <2> HIDE DEF w
  <2>4. Progress(q, q.state) BY <1>1, <1>7, <1>8, <1>9, <2>1, <2>2 DEF Progress, w
  <2> QED BY <1>1, <1>5, <1>6, <2>3, <2>4 DEF Rest
<1>10. ASSUME q.state = "decoding", q.generated = p.generated + 1, item.output,
              q.generated # q.maxNew
       PROVE  Rest(q)
  <2>1. q.generated > 0 /\ q.generated < q.maxNew /\ q.generated \in Nat
    BY <1>1, <1>2, <1>10
  <2>2. q.cursor = Len(q.prompt) /\ q.length = Len(q.prompt) + q.generated - 1
    <3>1. CASE item.decode
      <4>1. p.cursor = Len(p.prompt) /\ item.target = Len(p.prompt) + p.generated
        BY <3>1 DEF Half
      <4> QED BY <1>1, <1>2, <1>10, <3>1, <4>1
    <3>2. CASE ~item.decode
      <4>1. p.generated = 0 /\ item.output = (item.target = Len(p.prompt)) BY <3>2 DEF Half
      <4>2. item.target = Len(p.prompt) BY <1>10, <4>1
      <4> QED BY <1>1, <1>2, <1>10, <3>2, <4>1, <4>2
    <3> QED BY <3>1, <3>2
  <2>3. Numbers(q) BY <1>2, <1>4, <1>6, <2>1 DEF Numbers
  <2> HIDE DEF w
  <2>4. Progress(q, q.state) BY <1>7, <1>8, <1>10, <2>1, <2>2 DEF Progress, w
  <2> QED BY <1>1, <1>5, <1>6, <2>3, <2>4 DEF Rest
<1> QED BY <1>9, <1>10

\* What a request holds or has reserved stays within what it was promised.
LEMMA WithinPromise ==
    ASSUME NEW q, q.state \in Active, Rest(q) \/ \E item : Busy(q, item)
    PROVE  BlocksForLength(TableLength(q)) <= Promise(q)
<1>1. /\ q.prompt \in Seq(Nat) /\ Len(q.prompt) \in Nat /\ Len(q.prompt) > 0
      /\ q.maxNew \in Nat /\ q.maxNew > 0 /\ q.length \in Nat /\ q.generated \in Nat
      /\ q.cursor \in Nat
  <2>1. Asked(q) /\ Numbers(q) BY DEF Rest, Busy
  <2>2. q.state \in Live BY DEF Live
  <2>3. q.prompt \in Seq(Nat) /\ q.prompt # <<>> BY <2>1, <2>2 DEF Asked
  <2>4. Len(q.prompt) \in Nat /\ Len(q.prompt) > 0 BY <2>3
  <2> QED BY <2>1, <2>2, <2>3, <2>4 DEF Asked, Numbers
<1> DEFINE n == TableLength(q)
           m == Len(q.prompt) + q.maxNew - 1
<1>2. n \in Nat /\ n <= m
  <2>1. CASE Rest(q)
    <3>1. n = q.length BY <2>1 DEF Rest, TableLength
    <3>2. q.length < Len(q.prompt) \/ /\ q.length = Len(q.prompt) + q.generated - 1
                                      /\ q.generated < q.maxNew
      BY <2>1 DEF Rest, Progress
    <3> QED BY SMTT(30), <1>1, <3>1, <3>2
  <2>2. ASSUME NEW item, Busy(q, item) PROVE n \in Nat /\ n <= m
    <3>1. Progress(q, item.previous) /\ Asks(q, item) /\ q.pending = item.target
      BY <2>2 DEF Busy
    <3>2. item.previous \in Active /\ item.target \in Nat
          /\ (item.decode <=> item.previous = "decoding")
      BY <3>1 DEF Asks
    <3>3. n = item.target
      <4>1. item.target # 0
        <5>1. CASE item.decode
          <6>1. item.target = q.length + 1 BY <3>1, <5>1 DEF Asks
          <6> QED BY <1>1, <6>1
        <5>2. CASE ~item.decode
          <6>1. q.cursor < item.target BY <3>1, <5>2 DEF Asks
          <6> QED BY <1>1, <3>2, <6>1
        <5> QED BY <5>1, <5>2
      <4> QED BY <3>1, <4>1 DEF TableLength
    <3>4. CASE item.decode
      <4>1. /\ item.target = q.length + 1 /\ q.length = Len(q.prompt) + q.generated - 1
            /\ q.generated < q.maxNew
        BY <3>1, <3>2, <3>4 DEF Progress, Asks
      <4> QED BY SMTT(30), <1>1, <3>3, <4>1
    <3>5. CASE ~item.decode
      <4>1. item.target <= Len(q.prompt) BY <3>1, <3>5 DEF Asks
      <4> QED BY <1>1, <3>2, <3>3, <4>1
    <3> QED BY <3>4, <3>5
  <2> QED BY <2>1, <2>2
<1>3. m \in Nat BY <1>1
<1>4. Promise(q) = BlocksForLength(m) BY DEF Promise, MaximumLogicalLength
<1> HIDE DEF m, n
<1>5. BlocksForLength(n) <= BlocksForLength(m) BY <1>2, <1>3, BlocksMonotone
<1> QED BY <1>4, <1>5 DEF n

\* The index publish_prompt_blocks inserts into.
RoomIn(S) == IF HasRoom(S.index) THEN S.index ELSE EvictOne(S.index, HeldBlocks(S))

\* The block it lists for request q.
ListedOf(S, q) ==
    NewSharedBlock([S EXCEPT !.index = RoomIn(S)],
                   SubSeq(q.prompt, 1, (Len(q.shared) + 1) * BlockSize))

NextTokens(q) == BlockTokens(q.prompt, Len(q.shared) * BlockSize)

\* T is S after request r lost its link to the index.
Unlinks(S, T, r) ==
    /\ Moves(S, T) /\ T.index = S.index /\ T.inflight = S.inflight
    /\ T.req[r] = [S.req[r] EXCEPT !.linked = FALSE]
    /\ \A o \in RequestIds \ {r} : T.req[o] = S.req[o]

\* T is S after request r published one more block.
Lists(S, T, r) ==
    /\ Moves(S, T) /\ T.inflight = S.inflight
    /\ S.req[r].linked /\ ~(Len(S.req[r].shared) >= S.req[r].cursor \div BlockSize)
    /\ Find(S.index, S.req[r].tip, NextTokens(S.req[r])) = {}
    /\ HasRoom(S.index) \/ CanEvict(S.index, HeldBlocks(S))
    /\ T.index = Insert(RoomIn(S), S.req[r].tip, NextTokens(S.req[r]), ListedOf(S, S.req[r]))
    /\ T.req[r] = [S.req[r] EXCEPT !.shared = Append(@, ListedOf(S, S.req[r])),
                                   !.tip = NextEntry(RoomIn(S))]
    /\ \A o \in RequestIds \ {r} : T.req[o] = S.req[o]

\* Request r gives its tip up and keeps everything else.
LEMMA UnlinkIs ==
    ASSUME NEW S, Shape(S), NEW r \in RequestIds
    PROVE  Unlinks(S, [S EXCEPT !.req[r].linked = FALSE], r)
<1> DEFINE q == S.req[r]
           p == [q EXCEPT !.linked = FALSE]
           T == [S EXCEPT !.req[r].linked = FALSE]
<1>1. RequestShape(q) BY DEF Shape
<1> HIDE DEF q
<1>2. RequestShape(p) /\ Alike(q, p) BY <1>1 DEF RequestShape, Alike
<1> HIDE DEF p
<1>3. Becomes(S, T, r, p) /\ T.index = S.index /\ T.inflight = S.inflight
  BY DEF Shape, SchedulerShape, SameQueues, p, q, Becomes
<1> HIDE DEF T
<1>4. Moves(S, T) /\ T.req[r] = p /\ \A o \in RequestIds \ {r} : T.req[o] = S.req[o]
  BY <1>2, <1>3, OneMoves DEF q
<1> QED BY <1>3, <1>4 DEF Unlinks, T, p, q

\* A turn of the publication loop lists a block, unlinks the request or changes nothing.
LEMMA PublishNextIs ==
    ASSUME NEW S, Shape(S), NEW r \in RequestIds
    PROVE  \/ PublishNext(S, r) = S
           \/ Unlinks(S, PublishNext(S, r), r)
           \/ Lists(S, PublishNext(S, r), r)
<1> DEFINE q == S.req[r]
           x == Insert(RoomIn(S), q.tip, NextTokens(q), ListedOf(S, q))
           p == [q EXCEPT !.shared = Append(@, ListedOf(S, q)), !.tip = NextEntry(RoomIn(S))]
           T == [S EXCEPT !.index = x,
                          !.req[r].shared = Append(@, ListedOf(S, q)),
                          !.req[r].tip = NextEntry(RoomIn(S))]
           stays == ~q.linked \/ Len(q.shared) >= q.cursor \div BlockSize
           stuck == \/ Find(S.index, q.tip, NextTokens(q)) # {}
                    \/ ~HasRoom(S.index) /\ ~CanEvict(S.index, HeldBlocks(S))
<1>1. PublishNext(S, r) = IF stays THEN S
                          ELSE IF stuck THEN [S EXCEPT !.req[r].linked = FALSE]
                          ELSE T
  BY DEF PublishNext, RoomIn, NextTokens, ListedOf
<1>2. Unlinks(S, [S EXCEPT !.req[r].linked = FALSE], r) BY UnlinkIs
<1>3. CASE ~stays /\ ~stuck
  <2>1. /\ q.linked /\ ~(Len(q.shared) >= q.cursor \div BlockSize)
        /\ Find(S.index, q.tip, NextTokens(q)) = {}
        /\ HasRoom(S.index) \/ CanEvict(S.index, HeldBlocks(S))
    BY <1>3
  <2>2. RequestShape(q) BY DEF Shape
  <2> HIDE DEF q, x
  <2>3. RequestShape(p) /\ Alike(q, p) BY <2>2 DEF RequestShape, Alike
  <2> HIDE DEF p
  <2>4. Becomes(S, T, r, p) /\ T.index = x /\ T.inflight = S.inflight
    BY DEF Shape, SchedulerShape, SameQueues, p, q, Becomes
  <2> HIDE DEF T
  <2>5. Moves(S, T) /\ T.req[r] = p /\ \A o \in RequestIds \ {r} : T.req[o] = S.req[o]
    BY <2>3, <2>4, OneMoves DEF q
  <2>6. Lists(S, T, r)
    <3>1. /\ S.req[r].linked /\ ~(Len(S.req[r].shared) >= S.req[r].cursor \div BlockSize)
          /\ Find(S.index, S.req[r].tip, NextTokens(S.req[r])) = {}
          /\ HasRoom(S.index) \/ CanEvict(S.index, HeldBlocks(S))
      BY <2>1 DEF q
    <3>2. T.index = Insert(RoomIn(S), S.req[r].tip, NextTokens(S.req[r]), ListedOf(S, S.req[r]))
      BY <2>4 DEF x, q
    <3>3. T.req[r] = [S.req[r] EXCEPT !.shared = Append(@, ListedOf(S, S.req[r])),
                                      !.tip = NextEntry(RoomIn(S))]
      BY SMTT(30), <2>5 DEF p, q
    <3> QED BY <2>4, <2>5, <3>1, <3>2, <3>3 DEF Lists
  <2> QED BY <1>1, <1>3, <2>6
<1> QED BY <1>1, <1>2, <1>3

\* T is S after the reservation of item, on the index U has.
Reserves(S, T, item) ==
    LET U == EvictUntil(S, BlocksForLength(item.target)
                               - BlocksForLength(TableLength(S.req[item.id])))
    IN  /\ Moves(U, T) /\ T.index = U.index
        /\ T.inflight = Append(U.inflight, item)
        /\ T.req[item.id] = [U.req[item.id] EXCEPT !.pending = item.target]
        /\ \A o \in RequestIds \ {item.id} : T.req[o] = U.req[o]

\* A reservation evicts, then records the target and the work item.
LEMMA ReserveIs ==
    ASSUME NEW S, NEW item, item.id \in RequestIds,
           Shape(EvictUntil(S, BlocksForLength(item.target)
                               - BlocksForLength(TableLength(S.req[item.id]))))
    PROVE  Reserves(S, Reserve(S, item), item)
<1> DEFINE U == EvictUntil(S, BlocksForLength(item.target)
                               - BlocksForLength(TableLength(S.req[item.id])))
           r == item.id
           q == U.req[r]
           p == [q EXCEPT !.pending = item.target]
           T == [U EXCEPT !.req[r].pending = item.target, !.inflight = Append(@, item)]
<1>1. Reserve(S, item) = T BY DEF Reserve
<1>2. Shape(U) OBVIOUS
<1> HIDE DEF U
<1>3. RequestShape(q) BY SMTT(30), <1>2 DEF Shape
<1> HIDE DEF q
<1>4. RequestShape(p) /\ Alike(q, p) BY SMTT(30), <1>3 DEF RequestShape, Alike
<1> HIDE DEF p
<1>5. Becomes(U, T, r, p) /\ T.index = U.index /\ T.inflight = Append(U.inflight, item)
  BY <1>2 DEF Shape, SchedulerShape, SameQueues, p, q, Becomes
<1> HIDE DEF T
<1>6. Moves(U, T) /\ T.req[r] = p /\ \A o \in RequestIds \ {r} : T.req[o] = U.req[o]
  BY <1>2, <1>4, <1>5, OneMoves DEF q
<1> QED BY <1>1, <1>5, <1>6 DEF Reserves, U, p, q

\* One turn of the eviction loop.
LEMMA EvictNextIs ==
    ASSUME NEW S, Shape(S), NEW needed
    PROVE  \/ /\ EvictNext(S, needed) = S
              /\ FreeBlocks(S) >= needed \/ ~CanEvict(S.index, HeldBlocks(S))
           \/ /\ Reindexes(S, EvictNext(S, needed))
              /\ CanEvict(S.index, HeldBlocks(S))
              /\ EvictNext(S, needed).index = EvictOne(S.index, HeldBlocks(S))
<1>1. /\ Reindexes(S, [S EXCEPT !.index = EvictOne(@, HeldBlocks(S))])
      /\ [S EXCEPT !.index = EvictOne(@, HeldBlocks(S))].index = EvictOne(S.index, HeldBlocks(S))
  BY IndexMoves
<1> QED BY <1>1 DEF EvictNext

\* Steps on every request of a plan.
LEMMA DispatchIs ==
    ASSUME NEW S, Shape(S), \A r \in Inflight(S) : r \in RequestIds => S.req[r].state \in Active
    PROVE  /\ Moves(S, Dispatch(S)) /\ Dispatch(S).index = S.index
           /\ Dispatch(S).inflight = S.inflight
           /\ \A r \in RequestIds :
                Dispatch(S).req[r] = IF r \in Inflight(S)
                                     THEN Working(S.req[r])
                                     ELSE S.req[r]
<1> DEFINE f == [r \in RequestIds |-> IF r \in Inflight(S)
                                      THEN Working(S.req[r])
                                      ELSE S.req[r]]
           T == Dispatch(S)
<1>1. T = [S EXCEPT !.req = f] BY DEF Dispatch
<1>2. ASSUME NEW r \in RequestIds
      PROVE  RequestShape(f[r]) /\ Alike(S.req[r], f[r])
  <2>1. RequestShape(S.req[r]) BY DEF Shape
  <2>2. CASE r \in Inflight(S)
    <3>1. f[r] = Working(S.req[r]) BY <2>2
    <3>2. S.req[r].state \in Active BY <2>2
    <3> HIDE DEF f
    <3> QED BY <2>1, <3>1, <3>2 DEF RequestShape, Alike, Working, Active
  <2>3. CASE r \notin Inflight(S) BY <2>1, <2>3 DEF Alike
  <2> QED BY <2>2, <2>3
<1>3. DOMAIN f = RequestIds /\ f = [r \in RequestIds |-> f[r]] OBVIOUS
<1>4. \A r \in RequestIds : f[r] = IF r \in Inflight(S)
                                   THEN Working(S.req[r])
                                   ELSE S.req[r]
  OBVIOUS
<1> HIDE DEF f, T
<1>5. AllBecome(S, T, f) /\ T.index = S.index /\ T.inflight = S.inflight
  BY <1>1, <1>3 DEF Shape, SchedulerShape, SameQueues, AllBecome
<1>6. Moves(S, T) /\ \A r \in RequestIds : T.req[r] = f[r] BY <1>2, <1>5, AllMove
<1> QED BY <1>4, <1>5, <1>6 DEF T

\* rollback_prepared_plan drops reservations and the plan alone.
LEMMA RollbackIs ==
    ASSUME NEW S, Shape(S)
    PROVE  /\ Moves(S, RollbackPrepared(S)) /\ RollbackPrepared(S).index = S.index
           /\ RollbackPrepared(S).inflight = <<>>
           /\ \A r \in RequestIds :
                RollbackPrepared(S).req[r] = [S.req[r] EXCEPT !.pending = 0]
<1> DEFINE f == [r \in RequestIds |-> [S.req[r] EXCEPT !.pending = 0]]
           T == RollbackPrepared(S)
<1>1. T = [S EXCEPT !.inflight = <<>>, !.req = f] BY DEF RollbackPrepared
<1>2. ASSUME NEW r \in RequestIds
      PROVE  RequestShape(f[r]) /\ Alike(S.req[r], f[r])
  BY DEF Shape, RequestShape, Alike
<1>3. f = [r \in RequestIds |-> f[r]] OBVIOUS
<1>4. \A r \in RequestIds : f[r] = [S.req[r] EXCEPT !.pending = 0] OBVIOUS
<1> HIDE DEF f, T
<1>5. AllBecome(S, T, f) /\ T.index = S.index /\ T.inflight = <<>>
  BY <1>1, <1>3 DEF Shape, SchedulerShape, SameQueues, AllBecome
<1>6. Moves(S, T) /\ \A r \in RequestIds : T.req[r] = f[r] BY <1>2, <1>5, AllMove
<1> QED BY <1>4, <1>5, <1>6 DEF T

\* Committing turns every reservation of the plan into a length.
LEMMA CommittedIs ==
    ASSUME NEW S, Shape(S)
    PROVE  LET T == [Committed(S) EXCEPT !.inflight = <<>>]
           IN  /\ Moves(S, T) /\ T.index = S.index /\ T.inflight = <<>>
               /\ \A r \in RequestIds :
                    T.req[r] = IF r \in Inflight(S)
                               THEN [S.req[r] EXCEPT !.length = S.req[r].pending, !.pending = 0]
                               ELSE S.req[r]
<1> DEFINE f == [r \in RequestIds |->
                    IF r \in Inflight(S)
                    THEN [S.req[r] EXCEPT !.length = S.req[r].pending, !.pending = 0]
                    ELSE S.req[r]]
           T == [Committed(S) EXCEPT !.inflight = <<>>]
<1>1. Committed(S) = [S EXCEPT !.req = f] BY DEF Committed
<1>2. ASSUME NEW r \in RequestIds
      PROVE  RequestShape(f[r]) /\ Alike(S.req[r], f[r])
  <2>1. RequestShape(S.req[r]) BY DEF Shape
  <2>2. CASE r \in Inflight(S)
    <3>1. f[r] = [S.req[r] EXCEPT !.length = S.req[r].pending, !.pending = 0] BY <2>2
    <3> HIDE DEF f
    <3> QED BY <2>1, <3>1 DEF RequestShape, Alike
  <2>3. CASE r \notin Inflight(S) BY <2>1, <2>3 DEF Alike
  <2> QED BY <2>2, <2>3
<1>3. f = [r \in RequestIds |-> f[r]] OBVIOUS
<1>4. \A r \in RequestIds :
         f[r] = IF r \in Inflight(S)
                THEN [S.req[r] EXCEPT !.length = S.req[r].pending, !.pending = 0]
                ELSE S.req[r]
  OBVIOUS
<1> HIDE DEF f
<1>5. AllBecome(S, T, f) /\ T.index = S.index /\ T.inflight = <<>>
  BY <1>1, <1>3 DEF Shape, SchedulerShape, SameQueues, AllBecome
<1> HIDE DEF T
<1>6. Moves(S, T) /\ \A r \in RequestIds : T.req[r] = f[r] BY <1>2, <1>5, AllMove
<1> QED BY <1>4, <1>5, <1>6 DEF T

\* Dropping the entries of the cache unlinks every live request.
LEMMA DropIs ==
    ASSUME NEW S, Shape(S), Capacity # 0
    PROVE  LET T == DropPrefixCacheEntries(S)
           IN  /\ Moves(S, T) /\ T.index = ClearIndex(S.index) /\ T.inflight = S.inflight
               /\ \A r \in RequestIds :
                    T.req[r] = IF r \in LiveRequests(S) THEN [S.req[r] EXCEPT !.linked = FALSE]
                                                        ELSE S.req[r]
<1> DEFINE f == [r \in RequestIds |->
                    IF r \in LiveRequests(S) THEN [S.req[r] EXCEPT !.linked = FALSE]
                                             ELSE S.req[r]]
           T == DropPrefixCacheEntries(S)
<1>1. T = [S EXCEPT !.index = ClearIndex(@), !.req = f] BY DEF DropPrefixCacheEntries
<1>2. ASSUME NEW r \in RequestIds
      PROVE  RequestShape(f[r]) /\ Alike(S.req[r], f[r])
  <2>1. RequestShape(S.req[r]) BY DEF Shape
  <2>2. CASE r \in LiveRequests(S)
    <3>1. f[r] = [S.req[r] EXCEPT !.linked = FALSE] BY <2>2
    <3> HIDE DEF f
    <3> QED BY <2>1, <3>1 DEF RequestShape, Alike
  <2>3. CASE r \notin LiveRequests(S) BY <2>1, <2>3 DEF Alike
  <2> QED BY <2>2, <2>3
<1>3. f = [r \in RequestIds |-> f[r]] OBVIOUS
<1>4. \A r \in RequestIds :
         f[r] = IF r \in LiveRequests(S) THEN [S.req[r] EXCEPT !.linked = FALSE] ELSE S.req[r]
  OBVIOUS
<1> HIDE DEF f, T
<1>5. AllBecome(S, T, f) /\ T.index = ClearIndex(S.index) /\ T.inflight = S.inflight
  BY <1>1, <1>3 DEF Shape, SchedulerShape, SameQueues, AllBecome
<1>6. Moves(S, T) /\ \A r \in RequestIds : T.req[r] = f[r] BY <1>2, <1>5, AllMove
<1> QED BY <1>4, <1>5, <1>6 DEF T

\* T is S after the oldest waiting request was admitted.
AdmitsHead(S, T) ==
    LET r == Head(S.waiting)
    IN  /\ S.waiting # <<>> /\ CanAdmit(S, Promise(S.req[r]))
        /\ Shape(T) /\ T.index = S.index /\ T.inflight = S.inflight
        /\ T.next = S.next /\ T.requests = S.requests /\ T.outbox = S.outbox
        /\ T.accepting = S.accepting /\ T.suspect = S.suspect
        /\ T.waiting = Tail(S.waiting)
        /\ T.waitingTokens = S.waitingTokens - Len(S.req[r].prompt)
        /\ T.active = S.active + 1
        /\ T.promised = S.promised + Promise(S.req[r])
        /\ T.req[r] = [S.req[r] EXCEPT !.state = "admitted"]
        /\ \A o \in RequestIds \ {r} : T.req[o] = S.req[o]

\* A turn of admit_waiting admits the oldest waiting request or nothing.
LEMMA AdmitNextIs ==
    ASSUME NEW S, Shape(S), S.waiting # <<>> => Head(S.waiting) \in RequestIds
    PROVE  \/ AdmitNext(S) = S
           \/ AdmitsHead(S, AdmitNext(S))
<1> DEFINE r == Head(S.waiting)
           q == S.req[r]
           p == [q EXCEPT !.state = "admitted"]
           b == Promise(q)
           A == [S EXCEPT !.req[r].state = "admitted", !.active = @ + 1, !.promised = @ + b]
           T == [A EXCEPT !.waiting = Tail(@), !.waitingTokens = @ - Len(q.prompt)]
<1>1. AdmitNext(S) = IF S.waiting = <<>> \/ ~CanAdmit(S, b) THEN S ELSE T
  BY DEF AdmitNext, Admit
<1>2. CASE S.waiting # <<>> /\ CanAdmit(S, b)
  <2>1. r \in RequestIds BY <1>2
  <2> HIDE DEF r
  <2>2. RequestShape(q) BY <2>1 DEF Shape
  <2> HIDE DEF q, b
  <2>3. RequestShape(p) BY <2>2 DEF RequestShape
  <2> HIDE DEF p
  <2>4. /\ SchedulerShape(A) /\ A.req = [S.req EXCEPT ![r] = p]
        /\ A.index = S.index /\ A.inflight = S.inflight
        /\ A.next = S.next /\ A.requests = S.requests /\ A.outbox = S.outbox
        /\ A.accepting = S.accepting /\ A.suspect = S.suspect
        /\ A.waiting = S.waiting /\ A.waitingTokens = S.waitingTokens
        /\ A.active = S.active + 1 /\ A.promised = S.promised + b
    BY DEF Shape, SchedulerShape, p, q
  <2> HIDE DEF A
  <2>5. /\ SchedulerShape(T) /\ T.req = A.req
        /\ T.index = A.index /\ T.inflight = A.inflight
        /\ T.next = A.next /\ T.requests = A.requests /\ T.outbox = A.outbox
        /\ T.accepting = A.accepting /\ T.suspect = A.suspect
        /\ T.waiting = Tail(A.waiting) /\ T.waitingTokens = A.waitingTokens - Len(q.prompt)
        /\ T.active = A.active /\ T.promised = A.promised
    BY <2>4 DEF SchedulerShape
  <2> HIDE DEF T
  <2>6. /\ T.req = [o \in RequestIds |-> T.req[o]] /\ T.req[r] = p
        /\ \A o \in RequestIds \ {r} : T.req[o] = S.req[o]
    BY <2>1, <2>4, <2>5 DEF Shape
  <2>7. \A o \in RequestIds : RequestShape(T.req[o]) BY <2>3, <2>6 DEF Shape
  <2>8. Shape(T) BY <2>5, <2>6, <2>7 DEF Shape
  <2>9. AdmitsHead(S, T)
    <3>1. /\ T.index = S.index /\ T.inflight = S.inflight
          /\ T.next = S.next /\ T.requests = S.requests /\ T.outbox = S.outbox
          /\ T.accepting = S.accepting /\ T.suspect = S.suspect
          /\ T.waiting = Tail(S.waiting) /\ T.waitingTokens = S.waitingTokens - Len(q.prompt)
          /\ T.active = S.active + 1 /\ T.promised = S.promised + b
      BY <2>4, <2>5
    <3> QED BY <1>2, <2>6, <2>8, <3>1 DEF AdmitsHead, p, q, b, r
  <2> QED BY <1>1, <1>2, <2>9
<1> QED BY <1>1, <1>2

-----------------------------------------------------------------------------
(* Queues and reports through the loops. *)

\* Live requests are those in a live state.
LEMMA LiveIs ==
    ASSUME NEW S, NEW d, Control(S, d)
    PROVE  /\ LiveRequests(S) \subseteq RequestIds
           /\ \A r \in RequestIds : r \in LiveRequests(S) <=> S.req[r].state \in Live
<1>1. S.requests \in Seq(RequestIds) BY DEF Control, Queues
<1>2. LiveRequests(S) \subseteq RequestIds BY <1>1 DEF LiveRequests, ToSet
<1> QED BY <1>2 DEF Control, Queues, LiveRequests

\* What has become of S once the first n requests of rs that are in `which` ended.
Ending(S, T, d, rs, which, n) ==
    /\ Control(T, d) /\ Quiet(S, T)
    /\ T.inflight = S.inflight /\ T.next = S.next
    /\ \A i \in 1 .. n :
        rs[i] \in which => T.req[rs[i]].state \in Terminal /\ Rest(T.req[rs[i]])
    /\ \A r \in RequestIds : (\A i \in 1 .. n : rs[i] \in which => rs[i] # r)
                                => T.req[r] = S.req[r]

\* Requests that end one after the other leave the queues, each reported once.
LEMMA FinishThoseControl ==
    ASSUME NEW S, NEW d, Control(S, d), NEW rs \in Seq(RequestIds), IsInjectiveSeq(rs),
           NEW which, \A i \in 1 .. Len(rs) : rs[i] \in which => rs[i] \in LiveRequests(S),
           NEW reason \in Reasons
    PROVE  Ending(S, FinishThose(S, rs, which, reason), d, rs, which, Len(rs))
<1>1. Len(rs) \in Nat /\ DOMAIN rs = 1 .. Len(rs) /\ \A i \in 1 .. Len(rs) : rs[i] \in RequestIds
  OBVIOUS
<1>2. PICK turn : FinishThoseTurns(turn, S, rs, which, reason) BY <1>1, FinishThoseTurnsExist
<1> DEFINE W == {n \in 0 .. Len(rs) : Ending(S, turn[n], d, rs, which, n)}
<1>3. 0 \in W
  <2>1. Ending(S, S, d, rs, which, 0) BY DEF Ending, Quiet
  <2> QED BY <1>1, <1>2, <2>1 DEF FinishThoseTurns
<1>4. ASSUME NEW n \in 0 .. Len(rs) - 1, n \in W PROVE n + 1 \in W
  <2> DEFINE T == turn[n]
             U == turn[n + 1]
             r == rs[n + 1]
  <2>1. Ending(S, T, d, rs, which, n) /\ n \in Nat /\ n + 1 \in 1 .. Len(rs)
        /\ (n + 1) - 1 = n
    BY <1>1, <1>4
  <2>2. U = IF r \in which THEN Finish(T, r, reason) ELSE T
    BY <1>2, <2>1 DEF FinishThoseTurns, FinishIf
  <2>3. \A i \in 1 .. n + 1 : i \in 1 .. n \/ i = n + 1 BY <2>1
  <2>4. \A i \in 1 .. n : i \in 1 .. Len(rs) /\ i # n + 1 /\ i \in 1 .. n + 1 BY <1>1, <2>1
  <2>5. r \in RequestIds BY <1>1, <2>1
  <2> HIDE DEF T, U, W
  <2>6. Ending(S, U, d, rs, which, n + 1)
    <3>1. CASE r \notin which
      BY <2>1, <2>2, <2>3, <2>4, <3>1 DEF Ending, r
    <3>2. CASE r \in which
      <4>1. \A i \in 1 .. n : rs[i] # r BY <1>1, <2>1, <2>4 DEF IsInjectiveSeq, r
      <4>2. T.req[r] = S.req[r] BY <2>1, <2>5, <4>1 DEF Ending
      <4>3. S.req[r].state \in Live BY <2>1, <2>5, <3>2, LiveIs DEF r
      <4>4. r \in LiveRequests(T) BY <2>1, <2>5, <4>2, <4>3, LiveIs DEF Ending
      <4>5. Control(T, d) BY <2>1 DEF Ending
      <4>6. /\ Control(U, d) /\ Quiet(T, U) /\ U.req[r].state \in Terminal
            /\ Rest(U.req[r])
            /\ U.inflight = T.inflight /\ U.next = T.next
            /\ \A o \in RequestIds \ {r} : U.req[o] = T.req[o]
        BY <2>2, <3>2, <4>4, <4>5, FinishControl
      <4>7. Quiet(S, U)
        <5>1. Quiet(S, T) BY <2>1 DEF Ending
        <5> QED BY <4>6, <5>1 DEF Quiet
      <4>8. ASSUME NEW i \in 1 .. n + 1, rs[i] \in which
            PROVE  U.req[rs[i]].state \in Terminal /\ Rest(U.req[rs[i]])
        <5>1. CASE i = n + 1 BY <4>6, <5>1 DEF r
        <5>2. CASE i \in 1 .. n
          <6>1. T.req[rs[i]].state \in Terminal /\ Rest(T.req[rs[i]])
            BY <2>1, <4>8, <5>2 DEF Ending
          <6>2. rs[i] \in RequestIds \ {r} BY <1>1, <2>4, <4>1, <5>2
          <6> QED BY <4>6, <6>1, <6>2
        <5> QED BY <2>3, <5>1, <5>2
      <4>9. ASSUME NEW o \in RequestIds, \A i \in 1 .. n + 1 : rs[i] \in which => rs[i] # o
            PROVE  U.req[o] = S.req[o]
        <5>1. n + 1 \in 1 .. n + 1 BY <2>1
        <5>2. o # r BY <3>2, <4>9, <5>1 DEF r
        <5>3. T.req[o] = S.req[o] BY <2>1, <2>4, <4>9 DEF Ending
        <5> QED BY <4>6, <5>2, <5>3
      <4>10. U.inflight = S.inflight /\ U.next = S.next BY <2>1, <4>6 DEF Ending
      <4> QED BY <4>6, <4>7, <4>8, <4>9, <4>10 DEF Ending
    <3> QED BY <3>1, <3>2
  <2> QED BY <1>1, <2>1, <2>6 DEF W, U
<1>5. Len(rs) \in W
  <2> HIDE DEF W
  <2>1. \A n \in 0 .. Len(rs) : n \in W BY <1>1, <1>3, <1>4, CountUp
  <2> QED BY <1>1, <2>1
<1> QED BY <1>2, <1>5 DEF FinishThoseTurns

\* What has become of S once the oldest waiting requests were admitted.
Admitting(S, T, d) ==
    /\ Control(T, d) /\ InOrder(S, T)
    /\ T.inflight = S.inflight /\ T.next = S.next /\ T.index = S.index
    /\ \A r \in RequestIds :
        /\ T.req[r].state = "waiting" => S.req[r].state = "waiting"
        /\ \/ T.req[r] = S.req[r]
           \/ /\ S.req[r].state = "waiting"
              /\ T.req[r] = [S.req[r] EXCEPT !.state = "admitted"]

\* The oldest waiting request waits, is live and is not active.
LEMMA HeadWaits ==
    ASSUME NEW S, NEW d, Control(S, d), S.waiting # <<>>
    PROVE  /\ Head(S.waiting) \in RequestIds /\ S.req[Head(S.waiting)].state = "waiting"
           /\ Tail(S.waiting) \in Seq(RequestIds) /\ Increasing(Tail(S.waiting))
           /\ ToSet(Tail(S.waiting)) = ToSet(S.waiting) \ {Head(S.waiting)}
           /\ \A e \in ToSet(Tail(S.waiting)) : Head(S.waiting) < e
<1>1. S.waiting \in Seq(RequestIds) /\ Increasing(S.waiting) BY DEF Control, Queues
<1>2. RequestIds \subseteq Nat BY DEF RequestIds
<1>3. S.waiting \in Seq(Nat) BY <1>1, <1>2, SeqWider
<1>4. /\ Increasing(Tail(S.waiting)) /\ Head(S.waiting) \in ToSet(S.waiting)
      /\ ToSet(Tail(S.waiting)) = ToSet(S.waiting) \ {Head(S.waiting)}
      /\ \A e \in ToSet(Tail(S.waiting)) : Head(S.waiting) < e
  BY <1>1, <1>3, TailOfIncreasing
<1>5. Head(S.waiting) \in RequestIds /\ Tail(S.waiting) \in Seq(RequestIds) BY <1>1
<1>6. S.req[Head(S.waiting)].state = "waiting" BY <1>4, <1>5 DEF Control, Queues
<1> QED BY <1>4, <1>5, <1>6

\* T is S but for request r.
ButFor(S, T, r) ==
    (\A o \in RequestIds \ {r} : T.req[o] = S.req[o]) /\ (\A o \in RequestIds : Asked(T.req[o]))

\* What promises and lengths are when one request changes.
LEMMA PromisesBut ==
    ASSUME NEW S, NEW T, Accounts(S), NEW r \in RequestIds, ButFor(S, T, r)
    PROVE  /\ \A o \in RequestIds : PromiseOf(S)[o] \in Int /\ PromiseOf(T)[o] \in Int
           /\ \A o \in RequestIds \ {r} : PromiseOf(S)[o] = PromiseOf(T)[o]
           /\ PromiseOf(T)[r] = Promise(T.req[r])
<1>1. ASSUME NEW o \in RequestIds PROVE Promise(S.req[o]) \in Int /\ Promise(T.req[o]) \in Int
  BY PromiseIs DEF Accounts, ButFor
<1> QED BY <1>1 DEF PromiseOf, ButFor

\* What lengths of prompts are when one request changes.
LEMMA LengthsBut ==
    ASSUME NEW S, NEW T, Accounts(S), NEW r \in RequestIds, ButFor(S, T, r)
    PROVE  /\ \A o \in RequestIds : LengthOf(S)[o] \in Int /\ LengthOf(T)[o] \in Int
           /\ \A o \in RequestIds \ {r} : LengthOf(S)[o] = LengthOf(T)[o]
           /\ LengthOf(T)[r] = Len(T.req[r].prompt) /\ LengthOf(S)[r] = Len(S.req[r].prompt)
<1>1. ASSUME NEW o \in RequestIds
      PROVE  Len(S.req[o].prompt) \in Nat /\ Len(T.req[o].prompt) \in Nat
  BY PromiseIs DEF Accounts, ButFor
<1> QED BY <1>1 DEF LengthOf, ButFor

\* Request r becomes active.
LEMMA JoinsActive ==
    ASSUME NEW S, NEW T, Accounts(S), NEW r \in RequestIds, ButFor(S, T, r),
           S.req[r].state \notin Active, T.req[r].state \in Active,
           T.active = S.active + 1, T.promised = S.promised + Promise(T.req[r])
    PROVE  /\ T.active = Cardinality(StateIn(T, Active))
           /\ T.promised = Part(PromiseOf(T), StateIn(T, Active))
<1> DEFINE A == StateIn(S, Active)
           B == StateIn(T, Active)
<1>1. r \in B /\ A = B \ {r} BY DEF StateIn, ButFor
<1>2. IsFiniteSet(B) /\ B \in SUBSET RequestIds BY RequestsFinite
<1>3. S.active = Cardinality(A) /\ S.promised = Part(PromiseOf(S), A) BY DEF Accounts
<1> HIDE DEF A, B
<1>4. Cardinality(A) = Cardinality(B) - 1 /\ Cardinality(B) \in Nat
  BY <1>1, <1>2, FS_RemoveElement, FS_CardinalityType
<1>5. /\ \A o \in B : PromiseOf(T)[o] \in Int
      /\ \A o \in B \ {r} : PromiseOf(S)[o] = PromiseOf(T)[o]
      /\ PromiseOf(T)[r] = Promise(T.req[r])
  BY <1>2, PromisesBut
<1>6. /\ Part(PromiseOf(T), B) \in Int /\ Part(PromiseOf(S), B \ {r}) \in Int
      /\ Part(PromiseOf(T), B) = PromiseOf(T)[r] + Part(PromiseOf(S), B \ {r})
  BY ONLY <1>1, <1>2, <1>5, PartTakes
<1>7. PromiseOf(T)[r] \in Int BY <1>1, <1>5
<1> QED BY <1>1, <1>3, <1>4, <1>5, <1>6, <1>7 DEF B

\* Request r joins or leaves the queue, or neither.
LEMMA JoinsWaiting ==
    ASSUME NEW S, NEW T, Accounts(S), NEW r \in RequestIds, ButFor(S, T, r),
           S.req[r].state # "waiting", T.req[r].state = "waiting",
           T.waitingTokens = S.waitingTokens + Len(T.req[r].prompt)
    PROVE  T.waitingTokens = Part(LengthOf(T), StateIn(T, {"waiting"}))
<1> DEFINE A == StateIn(S, {"waiting"})
           B == StateIn(T, {"waiting"})
<1>1. r \in B /\ A = B \ {r} BY DEF StateIn, ButFor
<1>2. IsFiniteSet(B) /\ B \in SUBSET RequestIds BY RequestsFinite
<1>3. S.waitingTokens = Part(LengthOf(S), A) BY DEF Accounts
<1> HIDE DEF A, B
<1>4. /\ \A o \in B : LengthOf(T)[o] \in Int
      /\ \A o \in B \ {r} : LengthOf(S)[o] = LengthOf(T)[o]
      /\ LengthOf(T)[r] = Len(T.req[r].prompt)
  BY <1>2, LengthsBut
<1>5. /\ Part(LengthOf(T), B) \in Int /\ Part(LengthOf(S), B \ {r}) \in Int
      /\ Part(LengthOf(T), B) = LengthOf(T)[r] + Part(LengthOf(S), B \ {r})
  <2>1. IsFiniteSet(B) /\ r \in B BY <1>1, <1>2
  <2>2. \A o \in B : LengthOf(T)[o] \in Int BY <1>4
  <2>3. \A o \in B \ {r} : LengthOf(S)[o] = LengthOf(T)[o] BY <1>4
  <2> QED BY ONLY <2>1, <2>2, <2>3, PartTakes
<1>6. LengthOf(T)[r] \in Int BY <1>1, <1>4
<1> QED BY <1>1, <1>3, <1>4, <1>5, <1>6 DEF B

\* The request that leaves the queue takes its tokens with it.
LEMMA LeavesWaiting ==
    ASSUME NEW S, NEW T, Accounts(S), NEW r \in RequestIds, ButFor(S, T, r),
           S.req[r].state = "waiting", T.req[r].state # "waiting",
           T.waitingTokens = S.waitingTokens - Len(S.req[r].prompt)
    PROVE  T.waitingTokens = Part(LengthOf(T), StateIn(T, {"waiting"}))
<1> DEFINE A == StateIn(S, {"waiting"})
           B == StateIn(T, {"waiting"})
<1>1. r \in A /\ B = A \ {r} BY DEF StateIn, ButFor
<1>2. IsFiniteSet(A) /\ A \in SUBSET RequestIds BY RequestsFinite
<1>3. S.waitingTokens = Part(LengthOf(S), A) BY DEF Accounts
<1> HIDE DEF A, B
<1>4. /\ \A o \in A : LengthOf(S)[o] \in Int
      /\ \A o \in A \ {r} : LengthOf(T)[o] = LengthOf(S)[o]
      /\ LengthOf(S)[r] = Len(S.req[r].prompt)
  <2>1. /\ \A o \in RequestIds : LengthOf(S)[o] \in Int
        /\ \A o \in RequestIds \ {r} : LengthOf(S)[o] = LengthOf(T)[o]
        /\ LengthOf(S)[r] = Len(S.req[r].prompt)
    BY LengthsBut
  <2> QED BY ONLY <1>2, <2>1
<1>5. /\ Part(LengthOf(S), A) \in Int /\ Part(LengthOf(T), A \ {r}) \in Int
      /\ Part(LengthOf(S), A) = LengthOf(S)[r] + Part(LengthOf(T), A \ {r})
  BY ONLY SMTT(30), <1>1, <1>2, <1>4, PartTakes
<1>6. LengthOf(S)[r] \in Int BY <1>1, <1>4
<1> HIDE DEF B
<1>7. T.waitingTokens = Part(LengthOf(T), B) BY <1>1, <1>3, <1>4, <1>5, <1>6
<1> QED BY <1>7 DEF B

\* A request that is not active before nor after does not count.
LEMMA KeepsActive ==
    ASSUME NEW S, NEW T, Accounts(S), NEW r \in RequestIds, ButFor(S, T, r),
           S.req[r].state \notin Active, T.req[r].state \notin Active,
           T.active = S.active, T.promised = S.promised
    PROVE  /\ T.active = Cardinality(StateIn(T, Active))
           /\ T.promised = Part(PromiseOf(T), StateIn(T, Active))
<1>1. StateIn(T, Active) = StateIn(S, Active) /\ r \notin StateIn(S, Active)
      /\ StateIn(S, Active) \subseteq RequestIds
  BY DEF StateIn, ButFor
<1>2. \A o \in StateIn(S, Active) : PromiseOf(T)[o] = PromiseOf(S)[o] BY <1>1, PromisesBut
<1>3. Part(PromiseOf(T), StateIn(S, Active)) = Part(PromiseOf(S), StateIn(S, Active))
  BY <1>2, PartSame
<1> QED BY <1>1, <1>3 DEF Accounts

\* Nor does one that waits neither before nor after.
LEMMA KeepsWaiting ==
    ASSUME NEW S, NEW T, Accounts(S), NEW r \in RequestIds, ButFor(S, T, r),
           S.req[r].state # "waiting", T.req[r].state # "waiting",
           T.waitingTokens = S.waitingTokens
    PROVE  T.waitingTokens = Part(LengthOf(T), StateIn(T, {"waiting"}))
<1> DEFINE A == StateIn(S, {"waiting"})
<1>1. StateIn(T, {"waiting"}) = A /\ r \notin A /\ A \subseteq RequestIds
  BY DEF StateIn, ButFor
<1>2. S.waitingTokens = Part(LengthOf(S), A) BY DEF Accounts
<1> HIDE DEF A
<1>3. \A o \in A : LengthOf(T)[o] = LengthOf(S)[o] BY <1>1, LengthsBut
<1>4. Part(LengthOf(T), A) = Part(LengthOf(S), A) BY <1>3, PartSame
<1> QED BY <1>1, <1>2, <1>4

\* Admitting the oldest waiting request keeps the queues.
LEMMA AdmitsHeadControl ==
    ASSUME NEW S, NEW d, Control(S, d), NEW T, AdmitsHead(S, T)
    PROVE  Control(T, d)
<1> DEFINE r == Head(S.waiting)
<1>1. S.waiting # <<>> BY DEF AdmitsHead
<1>2. /\ r \in RequestIds /\ S.req[r].state = "waiting"
      /\ Tail(S.waiting) \in Seq(RequestIds) /\ Increasing(Tail(S.waiting))
      /\ ToSet(Tail(S.waiting)) = ToSet(S.waiting) \ {r}
  BY <1>1, HeadWaits
<1>3. /\ Shape(T) /\ T.next = S.next /\ T.requests = S.requests /\ T.outbox = S.outbox
      /\ T.waiting = Tail(S.waiting)
      /\ T.req[r] = [S.req[r] EXCEPT !.state = "admitted"]
      /\ \A o \in RequestIds \ {r} : T.req[o] = S.req[o]
  BY DEF AdmitsHead
<1> HIDE DEF r
<1>4. T.req[r].state = "admitted"
  <2>1. RequestShape(S.req[r]) BY <1>2 DEF Control, Shape
  <2> QED BY <1>3, <2>1 DEF RequestShape
<1>5. ASSUME NEW o \in RequestIds
      PROVE  /\ S.req[o].state \in States /\ (S.req[o].state = "unborn" <=> o >= S.next)
             /\ (o \in ToSet(S.requests) <=> S.req[o].state \in Live)
             /\ (o \in ToSet(S.waiting) <=> S.req[o].state = "waiting")
             /\ d[o] + Events(S.outbox, o) = IF S.req[o].state \in Terminal THEN 1 ELSE 0
  BY DEF Control, Queues, Reports
<1>6. ASSUME NEW o \in RequestIds
      PROVE  /\ T.req[o].state \in States /\ (T.req[o].state = "unborn" <=> o >= S.next)
             /\ (o \in ToSet(S.requests) <=> T.req[o].state \in Live)
             /\ (o \in ToSet(Tail(S.waiting)) <=> T.req[o].state = "waiting")
             /\ d[o] + Events(S.outbox, o) = IF T.req[o].state \in Terminal THEN 1 ELSE 0
  <2>1. CASE o = r
    <3>1. "admitted" \in Active BY DEF Active
    <3> QED BY <1>2, <1>4, <1>5, <2>1, <3>1, StatesAre
  <2>2. CASE o # r BY <1>2, <1>3, <1>5, <2>2
  <2> QED BY <2>1, <2>2
<1>7. Queues(T) BY <1>2, <1>3, <1>6 DEF Control, Queues
<1>8. Reports(T, d) BY <1>3, <1>6 DEF Control, Reports
<1>9. PromptsAreSeqs(T)
  <2>1. \A o \in RequestIds : S.req[o].prompt \in Seq(Nat) /\ RequestShape(S.req[o])
    BY DEF Control, PromptsAreSeqs, Shape
  <2>2. T.req[r].prompt = S.req[r].prompt BY <1>2, <1>3, <2>1 DEF RequestShape
  <2> QED BY <1>3, <2>1, <2>2 DEF PromptsAreSeqs
<1>10. Accounts(T)
  <2>1. Accounts(S) BY DEF Control
  <2>2. /\ CanAdmit(S, Promise(S.req[r]))
        /\ T.waitingTokens = S.waitingTokens - Len(S.req[r].prompt)
        /\ T.active = S.active + 1 /\ T.promised = S.promised + Promise(S.req[r])
    BY DEF AdmitsHead, r
  <2>3. /\ T.req[r].prompt = S.req[r].prompt /\ T.req[r].maxNew = S.req[r].maxNew
    <3>1. RequestShape(S.req[r]) BY <1>2 DEF Control, Shape
    <3> QED BY <1>3, <3>1 DEF RequestShape
  <2>4. Promise(T.req[r]) = Promise(S.req[r]) BY <2>3 DEF Promise
  <2>5. Asked(T.req[r])
    <3>1. Asked(S.req[r]) BY <1>2, <2>1 DEF Accounts
    <3> QED BY <1>2, <2>3, <3>1, StatesAre DEF Asked
  <2>6. ButFor(S, T, r) BY <1>3, <2>1, <2>5 DEF ButFor, Accounts
  <2>7. "admitted" \in Active BY DEF Active
  <2>8. /\ T.active = Cardinality(StateIn(T, Active))
        /\ T.promised = Part(PromiseOf(T), StateIn(T, Active))
    BY <1>2, <1>4, <2>1, <2>2, <2>4, <2>6, <2>7, StatesAre, JoinsActive
  <2>9. T.waitingTokens = Part(LengthOf(T), StateIn(T, {"waiting"}))
    BY <1>2, <1>4, <2>1, <2>2, <2>6, LeavesWaiting
  <2>10. T.promised <= MaxPromised BY <2>2 DEF CanAdmit
  <2> QED BY <2>6, <2>8, <2>9, <2>10 DEF Accounts, ButFor
<1> QED BY <1>3, <1>7, <1>8, <1>9, <1>10 DEF Control

\* admit_waiting keeps the queues and admits in order of submission.
LEMMA AdmitWaitingControl ==
    ASSUME NEW S, NEW d, Control(S, d)
    PROVE  Admitting(S, AdmitWaiting(S), d)
<1> DEFINE N == Len(S.waiting)
<1>1. N \in Nat
  <2>1. S.waiting \in Seq(RequestIds) BY DEF Control, Queues
  <2> QED BY <2>1
<1>2. PICK turn : AdmitWaitingTurns(turn, S) BY <1>1, AdmitWaitingTurnsExist
<1> DEFINE W == {n \in 0 .. N : Admitting(S, turn[n], d)}
<1>3. 0 \in W
  <2>1. Admitting(S, S, d) BY DEF Admitting, InOrder
  <2> QED BY <1>1, <1>2, <2>1 DEF AdmitWaitingTurns
<1>4. ASSUME NEW n \in 0 .. N - 1, n \in W PROVE n + 1 \in W
  <2> DEFINE T == turn[n]
             U == turn[n + 1]
             r == Head(T.waiting)
  <2>1. Admitting(S, T, d) /\ n \in Nat /\ n + 1 \in 1 .. N /\ (n + 1) - 1 = n BY <1>1, <1>4
  <2>2. U = AdmitNext(T) BY <1>2, <2>1 DEF AdmitWaitingTurns
  <2> HIDE DEF T, U, W
  <2>3. Control(T, d) /\ Shape(T) BY <2>1 DEF Admitting, Control
  <2>4. CASE T.waiting = <<>>
    <3>1. U = T BY <2>2, <2>4 DEF AdmitNext
    <3> QED BY <1>1, <2>1, <3>1 DEF W, U
  <2>5. CASE T.waiting # <<>>
    <3>1. /\ r \in RequestIds /\ T.req[r].state = "waiting"
          /\ ToSet(Tail(T.waiting)) = ToSet(T.waiting) \ {r}
          /\ \A e \in ToSet(Tail(T.waiting)) : r < e
      BY <2>3, <2>5, HeadWaits
    <3>2. U = T \/ AdmitsHead(T, U) BY <2>2, <2>3, <3>1, AdmitNextIs
    <3>3. CASE AdmitsHead(T, U)
      <4>1. Control(U, d) BY <2>3, <3>3, AdmitsHeadControl
      <4>2. /\ U.inflight = T.inflight /\ U.next = T.next /\ U.index = T.index
            /\ U.waiting = Tail(T.waiting)
            /\ U.req[r] = [T.req[r] EXCEPT !.state = "admitted"]
            /\ \A o \in RequestIds \ {r} : U.req[o] = T.req[o]
        BY <3>3 DEF AdmitsHead
      <4>3. RequestShape(T.req[r]) BY <2>3, <3>1 DEF Shape
      <4> HIDE DEF r
      <4>4. U.req[r].state = "admitted" BY <4>2, <4>3 DEF RequestShape
      <4>5. T.req[r] = S.req[r] /\ S.req[r].state = "waiting"
        <5>1. [S.req[r] EXCEPT !.state = "admitted"].state = "admitted"
              \/ [S.req[r] EXCEPT !.state = "admitted"] = S.req[r]
          OBVIOUS
        <5>2. "admitted" # "waiting" OBVIOUS
        <5>3. T.req[r] = S.req[r] \/ T.req[r] = [S.req[r] EXCEPT !.state = "admitted"]
          BY <2>1, <3>1 DEF Admitting
        <5> QED BY <3>1, <5>1, <5>2, <5>3
      <4>6. ASSUME NEW o \in RequestIds
            PROVE  /\ U.req[o].state = "waiting" => S.req[o].state = "waiting"
                   /\ \/ U.req[o] = S.req[o]
                      \/ /\ S.req[o].state = "waiting"
                         /\ U.req[o] = [S.req[o] EXCEPT !.state = "admitted"]
        <5>1. CASE o = r BY <4>2, <4>4, <4>5, <5>1
        <5>2. CASE o # r BY <2>1, <4>2, <5>2 DEF Admitting
        <5> QED BY <5>1, <5>2
      <4>7. InOrder(S, U)
        <5>1. SUFFICES ASSUME NEW o \in RequestIds, NEW later \in RequestIds,
                              o < later, U.req[o].state = "waiting",
                              U.req[later].state \in Active
                       PROVE  S.req[later].state \in Active
          BY DEF InOrder
        <5>2. o # r BY <4>4, <5>1
        <5>3. T.req[o].state = "waiting" BY <4>2, <5>1, <5>2
        <5>4. r < o
          <6>1. o \in ToSet(Tail(T.waiting)) BY <2>3, <3>1, <5>2, <5>3 DEF Control, Queues
          <6> QED BY <3>1, <6>1
        <5>5. later # r
          <6>1. o \in Int /\ later \in Int /\ r \in Int BY <3>1 DEF RequestIds
          <6> QED BY <5>1, <5>4, <6>1
        <5>6. T.req[later].state \in Active BY <4>2, <5>1, <5>5
        <5>7. InOrder(S, T) BY <2>1 DEF Admitting
        <5> QED BY <5>1, <5>3, <5>6, <5>7 DEF InOrder
      <4>8. U.inflight = S.inflight /\ U.next = S.next /\ U.index = S.index
        BY <2>1, <4>2 DEF Admitting
      <4>9. Admitting(S, U, d) BY <4>1, <4>6, <4>7, <4>8 DEF Admitting
      <4> QED BY <1>1, <2>1, <4>9 DEF W, U
    <3>4. CASE U = T BY <1>1, <2>1, <3>4 DEF W, U
    <3> QED BY <3>2, <3>3, <3>4
  <2> QED BY <2>4, <2>5
<1>5. N \in W
  <2> HIDE DEF W, N
  <2>1. \A n \in 0 .. N : n \in W BY <1>1, <1>3, <1>4, CountUp
  <2> QED BY <1>1, <2>1
<1> QED BY <1>2, <1>5 DEF AdmitWaitingTurns

\* T is S after steps that move requests and leave the plan.
Drifts(S, T) == Moves(S, T) /\ T.inflight = S.inflight

\* Drifting twice is drifting.
LEMMA DriftsTwice ==
    ASSUME NEW S, NEW T, NEW U, Drifts(S, T), Drifts(T, U)
    PROVE  Drifts(S, U)
  BY MovesTwice DEF Drifts

\* Standing still is drifting.
LEMMA DriftsNot ==
    ASSUME NEW S, Shape(S)
    PROVE  Drifts(S, S)
  BY MovesNot DEF Drifts

\* Only request r changes, in what it has cached; what it may publish changes less.
DriftsIn(S, T, r) ==
    /\ Drifts(S, T)
    /\ \A o \in RequestIds \ {r} : T.req[o] = S.req[o]
    /\ T.req[r].state = S.req[r].state /\ T.req[r].generated = S.req[r].generated
    /\ T.req[r].pending = S.req[r].pending /\ T.req[r].deferred = S.req[r].deferred

PublishesIn(S, T, r) ==
    /\ DriftsIn(S, T, r)
    /\ T.req[r].cursor = S.req[r].cursor /\ T.req[r].length = S.req[r].length
    /\ Fits(S.req[r]) => Fits(T.req[r])

\* Adopting leaves a request at rest.
AdoptsIn(S, T, r) ==
    DriftsIn(S, T, r) /\ (S.req[r].state = "admitted" /\ Rest(S.req[r]) => Rest(T.req[r]))

\* Requests at rest stay so.
KeepsRest(S, T) == \A r \in RequestIds : Rest(S.req[r]) => Rest(T.req[r])

\* Standing still is drifting within any request.
LEMMA DriftsInNot ==
    ASSUME NEW S, Shape(S), NEW r
    PROVE  DriftsIn(S, S, r) /\ AdoptsIn(S, S, r) /\ PublishesIn(S, S, r)
  BY DriftsNot DEF DriftsIn, AdoptsIn, PublishesIn

\* Drifting twice within one request is drifting within it.
LEMMA DriftsInTwice ==
    ASSUME NEW S, NEW T, NEW U, NEW r
    PROVE  /\ DriftsIn(S, T, r) /\ DriftsIn(T, U, r) => DriftsIn(S, U, r)
           /\ AdoptsIn(S, T, r) /\ AdoptsIn(T, U, r) => AdoptsIn(S, U, r)
           /\ PublishesIn(S, T, r) /\ PublishesIn(T, U, r) => PublishesIn(S, U, r)
<1>1. ASSUME DriftsIn(S, T, r), DriftsIn(T, U, r) PROVE DriftsIn(S, U, r)
  <2>1. Drifts(S, U) BY <1>1, DriftsTwice DEF DriftsIn
  <2> QED BY <1>1, <2>1 DEF DriftsIn
<1>2. ASSUME AdoptsIn(S, T, r), AdoptsIn(T, U, r) PROVE AdoptsIn(S, U, r)
  <2>1. T.req[r].state = S.req[r].state BY <1>2 DEF AdoptsIn, DriftsIn
  <2> QED BY <1>1, <1>2, <2>1 DEF AdoptsIn
<1> QED BY <1>1, <1>2 DEF PublishesIn

\* The elementary steps are such.
LEMMA StepsDriftIn ==
    ASSUME NEW S, Shape(S), NEW T, NEW r \in RequestIds
    PROVE  /\ \A id : Adopts(S, T, r, id) => AdoptsIn(S, T, r)
           /\ Unlinks(S, T, r) => PublishesIn(S, T, r)
           /\ Lists(S, T, r) => PublishesIn(S, T, r)
           /\ Reindexes(S, T) => PublishesIn(S, T, r) /\ AdoptsIn(S, T, r)
<1>1. RequestShape(S.req[r]) BY DEF Shape
<1>2. ASSUME NEW id, Adopts(S, T, r, id) PROVE AdoptsIn(S, T, r)
  <2>1. Drifts(S, T) /\ \A o \in RequestIds \ {r} : T.req[o] = S.req[o]
    BY <1>2 DEF Adopts, Drifts
  <2>2. T.req[r] = AdoptedOf(S, S.req[r], id) BY <1>2 DEF Adopts
  <2>3. DriftsIn(S, T, r) BY <1>1, <2>1, <2>2 DEF DriftsIn, AdoptedOf, RequestShape
  <2>4. id \in Adoptable(S, S.req[r]) BY <1>2 DEF Adopts
  <2> QED BY <1>1, <2>2, <2>3, <2>4, AdoptedRests DEF AdoptsIn
<1>3. ASSUME Unlinks(S, T, r) PROVE PublishesIn(S, T, r)
  <2>1. Drifts(S, T) /\ \A o \in RequestIds \ {r} : T.req[o] = S.req[o]
    BY <1>3 DEF Unlinks, Drifts
  <2>2. T.req[r] = [S.req[r] EXCEPT !.linked = FALSE] BY <1>3 DEF Unlinks
  <2>3. T.req[r].shared = S.req[r].shared /\ T.req[r].cursor = S.req[r].cursor
    BY <1>1, <2>2 DEF RequestShape
  <2>4. Fits(S.req[r]) => Fits(T.req[r]) BY <2>3 DEF Fits
  <2> QED BY <1>1, <2>1, <2>2, <2>4 DEF DriftsIn, PublishesIn, RequestShape
<1>4. ASSUME Lists(S, T, r) PROVE PublishesIn(S, T, r)
  <2>1. Drifts(S, T) /\ \A o \in RequestIds \ {r} : T.req[o] = S.req[o]
    BY <1>4 DEF Lists, Drifts
  <2>2. T.req[r] = [S.req[r] EXCEPT !.shared = Append(@, ListedOf(S, S.req[r])),
                                    !.tip = NextEntry(RoomIn(S))]
    BY <1>4 DEF Lists
  <2>3. /\ T.req[r].shared = Append(S.req[r].shared, ListedOf(S, S.req[r]))
        /\ T.req[r].cursor = S.req[r].cursor
        /\ ~(Len(S.req[r].shared) >= S.req[r].cursor \div BlockSize)
    BY SMTT(30), <1>1, <1>4, <2>2 DEF Lists, RequestShape
  <2>4. Fits(S.req[r]) => Fits(T.req[r]) BY <2>3, ListedFits
  <2> QED BY <1>1, <2>1, <2>2, <2>4 DEF DriftsIn, PublishesIn, RequestShape
<1>5. ASSUME Reindexes(S, T) PROVE PublishesIn(S, T, r) /\ AdoptsIn(S, T, r)
  BY <1>5 DEF Reindexes, Drifts, DriftsIn, PublishesIn, AdoptsIn
<1> QED BY <1>2, <1>3, <1>4, <1>5

\* The adoption loop changes one request, in what it has cached.
LEMMA AdoptBlocksDrifts ==
    ASSUME NEW S, Shape(S), PromptsAreSeqs(S), NEW r \in RequestIds
    PROVE  AdoptsIn(S, AdoptBlocks(S, r), r)
<1> DEFINE N == Len(S.req[r].prompt)
<1>1. N \in Nat BY DEF PromptsAreSeqs
<1>2. PICK turn : AdoptBlocksTurns(turn, S, r) BY <1>1, AdoptBlocksTurnsExist
<1> DEFINE W == {n \in 0 .. N : AdoptsIn(S, turn[n], r)}
<1>3. 0 \in W BY <1>1, <1>2, DriftsInNot DEF AdoptBlocksTurns
<1>4. ASSUME NEW n \in 0 .. N - 1, n \in W PROVE n + 1 \in W
  <2>1. AdoptsIn(S, turn[n], r) /\ Shape(turn[n]) BY <1>4 DEF AdoptsIn, DriftsIn, Drifts, Moves
  <2>2. n + 1 \in 1 .. N /\ (n + 1) - 1 = n BY <1>1
  <2>3. turn[n + 1] = AdoptNext(turn[n], r) BY <1>2, <2>2 DEF AdoptBlocksTurns
  <2>4. turn[n + 1] = turn[n] \/ AdoptsIn(turn[n], turn[n + 1], r)
    BY <2>1, <2>3, AdoptNextIs, StepsDriftIn
  <2>5. AdoptsIn(S, turn[n + 1], r) BY <2>1, <2>4, DriftsInTwice
  <2> QED BY <1>1, <2>2, <2>5
<1>5. N \in W
  <2> HIDE DEF W, N
  <2>1. \A n \in 0 .. N : n \in W BY <1>1, <1>3, <1>4, CountUp
  <2> QED BY <1>1, <2>1
<1> QED BY <1>2, <1>5 DEF AdoptBlocksTurns

\* So does adopt_cached_prefix.
LEMMA AdoptCachedPrefixDrifts ==
    ASSUME NEW S, Shape(S), PromptsAreSeqs(S), NEW r \in RequestIds
    PROVE  DriftsIn(S, AdoptCachedPrefix(S, r), r) /\ KeepsRest(S, AdoptCachedPrefix(S, r))
<1> DEFINE T == AdoptBlocks(S, r)
           x == TouchPath(T.index, T.req[r].tip)
           U == AdoptCachedPrefix(S, r)
<1>1. AdoptsIn(S, T, r) BY AdoptBlocksDrifts
<1>2. /\ U \in {S, T, [T EXCEPT !.index = x]}
      /\ S.req[r].state # "admitted" => U = S
  BY DEF AdoptCachedPrefix
<1> HIDE DEF T, U
<1>3. Shape(T) BY <1>1 DEF AdoptsIn, DriftsIn, Drifts, Moves
<1>4. Reindexes(T, [T EXCEPT !.index = x]) BY <1>3, IndexMoves
<1>5. AdoptsIn(S, [T EXCEPT !.index = x], r)
  <2> HIDE DEF x
  <2>1. AdoptsIn(T, [T EXCEPT !.index = x], r) BY <1>3, <1>4, StepsDriftIn
  <2> QED BY <1>1, <2>1, DriftsInTwice
<1>6. AdoptsIn(S, U, r) BY <1>1, <1>2, <1>5, DriftsInNot
<1>7. KeepsRest(S, U)
  <2>1. CASE S.req[r].state = "admitted"
    <3>1. Rest(S.req[r]) => Rest(U.req[r]) BY <1>6, <2>1 DEF AdoptsIn
    <3>2. \A o \in RequestIds \ {r} : U.req[o] = S.req[o] BY <1>6 DEF AdoptsIn, DriftsIn
    <3> QED BY <3>1, <3>2 DEF KeepsRest
  <2>2. CASE S.req[r].state # "admitted" BY <1>2, <2>2 DEF KeepsRest
  <2> QED BY <2>1, <2>2
<1> QED BY <1>6, <1>7 DEF AdoptsIn, U

\* Adopting for every live request leaves the plan and the queues.
LEMMA AdoptCachedPrefixesDrifts ==
    ASSUME NEW S, Shape(S), PromptsAreSeqs(S), S.requests \in Seq(RequestIds)
    PROVE  Drifts(S, AdoptCachedPrefixes(S)) /\ KeepsRest(S, AdoptCachedPrefixes(S))
<1> DEFINE N == Len(S.requests)
<1>1. N \in Nat OBVIOUS
<1>2. PICK turn : AdoptTurns(turn, S) BY <1>1, AdoptTurnsExist
<1> DEFINE W == {n \in 0 .. N : Drifts(S, turn[n]) /\ KeepsRest(S, turn[n])}
<1>3. 0 \in W BY <1>1, <1>2, DriftsNot DEF AdoptTurns, KeepsRest
<1>4. ASSUME NEW n \in 0 .. N - 1, n \in W PROVE n + 1 \in W
  <2>1. Drifts(S, turn[n]) /\ Shape(turn[n]) /\ KeepsRest(S, turn[n]) BY <1>4 DEF Drifts, Moves
  <2>2. PromptsAreSeqs(turn[n]) BY <2>1 DEF PromptsAreSeqs, Drifts, Moves, Alike
  <2>3. n + 1 \in 1 .. N /\ (n + 1) - 1 = n /\ S.requests[n + 1] \in RequestIds BY <1>1
  <2>4. turn[n + 1] = AdoptCachedPrefix(turn[n], S.requests[n + 1])
    BY <1>2, <2>3 DEF AdoptTurns
  <2>5. Drifts(turn[n], turn[n + 1]) /\ KeepsRest(turn[n], turn[n + 1])
    BY <2>1, <2>2, <2>3, <2>4, AdoptCachedPrefixDrifts DEF DriftsIn
  <2>6. Drifts(S, turn[n + 1]) BY <2>1, <2>5, DriftsTwice
  <2>7. KeepsRest(S, turn[n + 1]) BY <2>1, <2>5 DEF KeepsRest
  <2> QED BY <1>1, <2>3, <2>6, <2>7
<1>5. N \in W
  <2> HIDE DEF W, N
  <2>1. \A n \in 0 .. N : n \in W BY <1>1, <1>3, <1>4, CountUp
  <2> QED BY <1>1, <2>1
<1> QED BY <1>2, <1>5 DEF AdoptTurns

\* The publication loop changes one request, in what it shares.
LEMMA PublishBlocksDrifts ==
    ASSUME NEW S, Shape(S), PromptsAreSeqs(S), NEW r \in RequestIds
    PROVE  PublishesIn(S, PublishBlocks(S, r), r)
<1> DEFINE N == Len(S.req[r].prompt)
<1>1. N \in Nat BY DEF PromptsAreSeqs
<1>2. PICK turn : PublishBlocksTurns(turn, S, r) BY <1>1, PublishBlocksTurnsExist
<1> DEFINE W == {n \in 0 .. N : PublishesIn(S, turn[n], r)}
<1>3. 0 \in W BY <1>1, <1>2, DriftsInNot DEF PublishBlocksTurns
<1>4. ASSUME NEW n \in 0 .. N - 1, n \in W PROVE n + 1 \in W
  <2>1. PublishesIn(S, turn[n], r) /\ Shape(turn[n]) BY <1>4 DEF PublishesIn, DriftsIn, Drifts, Moves
  <2>2. n + 1 \in 1 .. N /\ (n + 1) - 1 = n BY <1>1
  <2>3. turn[n + 1] = PublishNext(turn[n], r) BY <1>2, <2>2 DEF PublishBlocksTurns
  <2>4. turn[n + 1] = turn[n] \/ PublishesIn(turn[n], turn[n + 1], r)
    BY <2>1, <2>3, PublishNextIs, StepsDriftIn
  <2>5. PublishesIn(S, turn[n + 1], r) BY <2>1, <2>4, DriftsInTwice
  <2> QED BY <1>1, <2>2, <2>5
<1>5. N \in W
  <2> HIDE DEF W, N
  <2>1. \A n \in 0 .. N : n \in W BY <1>1, <1>3, <1>4, CountUp
  <2> QED BY <1>1, <2>1
<1> QED BY <1>2, <1>5 DEF PublishBlocksTurns

\* So does publish_prompt_blocks.
LEMMA PublishPromptBlocksDrifts ==
    ASSUME NEW S, Shape(S), PromptsAreSeqs(S), NEW r \in RequestIds
    PROVE  PublishesIn(S, PublishPromptBlocks(S, r), r)
<1> DEFINE T == PublishBlocks(S, r)
           x == TouchPath(T.index, T.req[r].tip)
<1>1. PublishesIn(S, T, r) BY PublishBlocksDrifts
<1>2. PublishPromptBlocks(S, r) \in {S, T, [T EXCEPT !.index = x]} BY DEF PublishPromptBlocks
<1> HIDE DEF T
<1>3. Reindexes(T, [T EXCEPT !.index = x]) BY <1>1, IndexMoves DEF PublishesIn, DriftsIn, Drifts, Moves
<1>4. PublishesIn(S, [T EXCEPT !.index = x], r)
  <2>1. PublishesIn(T, [T EXCEPT !.index = x], r)
    <3>1. Shape(T) BY <1>1 DEF PublishesIn, DriftsIn, Drifts, Moves
    <3> HIDE DEF x
    <3> QED BY <1>3, <3>1, StepsDriftIn
  <2> HIDE DEF x
  <2> QED BY <1>1, <2>1, DriftsInTwice
<1> QED BY <1>1, <1>2, <1>4, DriftsInNot

\* Evicting changes the index alone.
LEMMA EvictUntilReindexes ==
    ASSUME NEW S, Shape(S), NEW needed
    PROVE  Reindexes(S, EvictUntil(S, needed))
<1>1. Capacity \in Nat BY CapacityAssumption
<1>2. PICK turn : EvictTurns(turn, S, needed) BY EvictTurnsExist
<1> DEFINE W == {n \in 0 .. Capacity : Reindexes(S, turn[n])}
<1>3. 0 \in W BY <1>1, <1>2, MovesNot DEF EvictTurns, Reindexes
<1>4. ASSUME NEW n \in 0 .. Capacity - 1, n \in W PROVE n + 1 \in W
  <2>1. Reindexes(S, turn[n]) /\ Shape(turn[n]) BY <1>4 DEF Reindexes, Moves
  <2>2. n + 1 \in 1 .. Capacity /\ (n + 1) - 1 = n BY <1>1
  <2>3. turn[n + 1] = EvictNext(turn[n], needed) BY <1>2, <2>2 DEF EvictTurns
  <2>4. turn[n + 1] = turn[n] \/ Reindexes(turn[n], turn[n + 1]) BY <2>1, <2>3, EvictNextIs
  <2>5. Reindexes(S, turn[n + 1]) BY <2>1, <2>4, MovesTwice DEF Reindexes
  <2> QED BY <1>1, <2>2, <2>5
<1>5. Capacity \in W
  <2> HIDE DEF W
  <2>1. \A n \in 0 .. Capacity : n \in W BY <1>1, <1>3, <1>4, CountUp
  <2> QED BY <1>1, <2>1
<1> QED BY <1>2, <1>5 DEF EvictTurns

\* A reservation.
LEMMA ReserveMoves ==
    ASSUME NEW S, Shape(S), NEW item, item.id \in RequestIds
    PROVE  /\ Reserves(S, Reserve(S, item), item)
           /\ Moves(S, Reserve(S, item))
           /\ Reserve(S, item).inflight = Append(S.inflight, item)
           /\ \A o \in RequestIds \ {item.id} : Reserve(S, item).req[o] = S.req[o]
           /\ Reserve(S, item).req[item.id] = [S.req[item.id] EXCEPT !.pending = item.target]
<1> DEFINE needed == BlocksForLength(item.target) - BlocksForLength(TableLength(S.req[item.id]))
           U == EvictUntil(S, needed)
           T == Reserve(S, item)
<1>1. Reindexes(S, U) BY EvictUntilReindexes
<1>2. Shape(U) BY <1>1 DEF Reindexes, Moves
<1>3. Reserves(S, T, item) BY SMTT(30), <1>2, ReserveIs
<1>4. /\ Moves(U, T) /\ T.inflight = Append(U.inflight, item)
      /\ T.req[item.id] = [U.req[item.id] EXCEPT !.pending = item.target]
      /\ \A o \in RequestIds \ {item.id} : T.req[o] = U.req[o]
  BY <1>3 DEF Reserves
<1> HIDE DEF T, U
<1>5. Moves(S, T) BY <1>1, <1>4, MovesTwice DEF Reindexes
<1>6. U.req = S.req /\ U.inflight = S.inflight BY <1>1 DEF Reindexes
<1> QED BY <1>3, <1>4, <1>5, <1>6 DEF T

-----------------------------------------------------------------------------
(* Plans. *)

\* An item of a plan belongs to an active request, and no other does.
Planned(S) ==
    /\ S.inflight \in Seq(ToSet(S.inflight))
    /\ \A i \in DOMAIN S.inflight :
        /\ S.inflight[i].id \in RequestIds /\ S.inflight[i].previous \in Active
        /\ S.req[S.inflight[i].id].state \in Active
    /\ \A i, j \in DOMAIN S.inflight : S.inflight[i].id = S.inflight[j].id => i = j

\* A selection lists distinct ready requests.
LEMMA SelectionIs ==
    ASSUME NEW X, X \subseteq RequestIds, NEW ids \in SetToAllKPermutations(X)
    PROVE  /\ ids \in Seq(RequestIds) /\ IsInjectiveSeq(ids) /\ Len(ids) \in Nat
           /\ DOMAIN ids = 1 .. Len(ids) /\ \A i \in 1 .. Len(ids) : ids[i] \in X
           /\ Len(ids) <= Cardinality(X)
<1>1. PICK s \in SUBSET X : ids \in SetToSeqs(s) BY DEF SetToAllKPermutations
<1> DEFINE n == Cardinality(s)
<1>2. IsFiniteSet(X)
  <2>1. IsFiniteSet(RequestIds) BY ConfigAssumption, FS_Interval DEF RequestIds
  <2> QED BY <2>1, FS_Subset
<1>3. n \in Nat /\ n <= Cardinality(X) BY <1>1, <1>2, FS_Subset, FS_CardinalityType
<1>4. ids \in [1 .. n -> s] /\ \A i, j \in 1 .. n : i # j => ids[i] # ids[j]
  BY <1>1 DEF SetToSeqs
<1> HIDE DEF n
<1>5. ids \in Seq(s) /\ Len(ids) = n /\ DOMAIN ids = 1 .. n BY <1>3, <1>4
<1>6. ids \in Seq(RequestIds)
  <2>1. s \subseteq RequestIds BY <1>1
  <2> QED BY <1>5, <2>1, SeqWider
<1>7. \A i \in 1 .. n : ids[i] \in X BY <1>4
<1> QED BY <1>3, <1>4, <1>5, <1>6, <1>7 DEF IsInjectiveSeq

\* The item of a candidate.
LEMMA WorkItemIs ==
    ASSUME NEW S, NEW r, NEW t
    PROVE  LET item == WorkItem(S, r, t)
               q    == S.req[r]
           IN  /\ item.id = r /\ item.previous = q.state
               /\ item.decode = (q.state = "decoding")
               /\ item.target = IF q.state = "decoding" THEN q.length + 1 ELSE q.cursor + t
               /\ item.output = (q.state = "decoding" \/ item.target = Len(q.prompt))
  BY DEF WorkItem

\* What a plan makes of a request at rest that it picks.
LEMMA PickedIsBusy ==
    ASSUME NEW S, NEW r, Rest(S.req[r]), S.req[r].state \in Active,
           NEW t \in Nat, 1 <= t, S.req[r].state # "decoding" =>
                                    t <= Len(S.req[r].prompt) - S.req[r].cursor,
           NEW q, q = Working([S.req[r] EXCEPT !.pending = WorkItem(S, r, t).target]),
           RequestShape(S.req[r])
    PROVE  Busy(q, WorkItem(S, r, t))
<1> DEFINE p == S.req[r]
           item == WorkItem(S, r, t)
<1>1. /\ item.previous = p.state /\ item.decode = (p.state = "decoding")
      /\ item.target = IF p.state = "decoding" THEN p.length + 1 ELSE p.cursor + t
      /\ item.output = (p.state = "decoding" \/ item.target = Len(p.prompt))
  BY WorkItemIs
<1> HIDE DEF item
<1>2. /\ q.state = (IF p.state = "decoding" THEN "decoding" ELSE "prefilling")
      /\ q.pending = item.target
      /\ q.prompt = p.prompt /\ q.maxNew = p.maxNew /\ q.cursor = p.cursor
      /\ q.generated = p.generated /\ q.length = p.length /\ q.shared = p.shared
      /\ q.deferred = p.deferred
  BY DEF Working, RequestShape, item
<1> HIDE DEF p
<1>3. Asked(p) /\ Numbers(p) /\ Progress(p, p.state) /\ p.state \in Active BY DEF Rest, p
<1>4. /\ "decoding" \in Live /\ "prefilling" \in Live /\ Active \subseteq Live
  BY DEF Live, Active
<1>5. Asked(q) BY <1>2, <1>3, <1>4 DEF Asked
<1>6. Numbers(q) BY <1>2, <1>3 DEF Numbers
<1>7. Progress(q, item.previous) BY <1>1, <1>2, <1>3 DEF Progress
<1>8. Asks(q, item)
  <2>1. Len(p.prompt) \in Nat /\ p.cursor \in Nat /\ p.length \in Nat
    BY <1>3 DEF Asked, Numbers
  <2>2. CASE p.state = "decoding"
    <3>1. item.decode = TRUE /\ item.output = TRUE /\ item.target = p.length + 1
          /\ item.decode = (item.previous = "decoding")
      BY <1>1, <2>2
    <3> QED BY <1>1, <1>2, <1>3, <2>1, <3>1 DEF Asks
  <2>3. CASE p.state # "decoding"
    <3>1. item.decode = FALSE /\ item.output = (item.target = Len(p.prompt))
          /\ item.target = p.cursor + t /\ item.decode = (item.previous = "decoding")
      BY <1>1, <2>3
    <3>2. t <= Len(p.prompt) - p.cursor BY <2>3 DEF p
    <3>3. item.target \in Nat /\ p.cursor < item.target /\ item.target <= Len(p.prompt)
      BY <2>1, <3>1, <3>2
    <3> QED BY <1>1, <1>2, <1>3, <3>1, <3>3 DEF Asks
  <2> QED BY <2>2, <2>3
<1> HIDE DEF item
<1>9. Busy(q, item) BY <1>1, <1>2, <1>5, <1>6, <1>7, <1>8 DEF Busy
<1> QED BY <1>9 DEF item

\* What prepare_plan has made of S after its first n candidates.
PreparedTo(S, T, ids, tokens, n) ==
    /\ Moves(S, T)
    /\ T.inflight \in Seq(ToSet(T.inflight)) /\ Len(T.inflight) = n
    /\ \A i \in 1 .. n :
        /\ T.inflight[i] = WorkItem(S, ids[i], tokens[i])
        /\ T.req[ids[i]] = [S.req[ids[i]] EXCEPT
                                !.pending = WorkItem(S, ids[i], tokens[i]).target]
    /\ \A r \in RequestIds : (\A i \in 1 .. n : ids[i] # r) => T.req[r] = S.req[r]

\* The loop of prepare_plan reserves for one candidate after the other.
LEMMA PrepareIs ==
    ASSUME NEW S, Shape(S), S.inflight = <<>>, NEW ids \in Seq(RequestIds), IsInjectiveSeq(ids),
           NEW tokens, NEW m \in 0 .. Len(ids)
    PROVE  PreparedTo(S, Prepare(S, ids, tokens, m), ids, tokens, m)
<1>1. m \in Nat /\ DOMAIN ids = 1 .. Len(ids) /\ Len(ids) \in Nat
      /\ \A i \in 1 .. Len(ids) : ids[i] \in RequestIds
  OBVIOUS
<1>2. PICK turn : PrepareTurns(turn, S, ids, tokens, m) BY <1>1, PrepareTurnsExist
<1> DEFINE W == {n \in 0 .. m : PreparedTo(S, turn[n], ids, tokens, n)}
<1>3. 0 \in W
  <2>1. S.inflight \in Seq(ToSet(S.inflight)) /\ Len(S.inflight) = 0 OBVIOUS
  <2>2. PreparedTo(S, S, ids, tokens, 0) BY <2>1, MovesNot DEF PreparedTo
  <2> QED BY <1>1, <1>2, <2>2 DEF PrepareTurns
<1>4. ASSUME NEW n \in 0 .. m - 1, n \in W PROVE n + 1 \in W
  <2> DEFINE T == turn[n]
             U == turn[n + 1]
             r == ids[n + 1]
             item == WorkItem(S, r, tokens[n + 1])
  <2>1. PreparedTo(S, T, ids, tokens, n) /\ n \in Nat /\ n + 1 \in 1 .. m /\ (n + 1) - 1 = n
        /\ n + 1 \in 1 .. Len(ids)
    BY <1>1, <1>4
  <2>2. U = Reserve(T, item) BY <1>2, <2>1 DEF PrepareTurns
  <2>3. r \in RequestIds /\ item.id = r BY <1>1, <2>1 DEF WorkItem
  <2>4. \A i \in 1 .. n + 1 : i \in 1 .. n \/ i = n + 1 BY <2>1
  <2>5. \A i \in 1 .. n : i \in 1 .. Len(ids) /\ i # n + 1 /\ i \in 1 .. n + 1 BY <1>1, <2>1
  <2>6. \A i \in 1 .. n : ids[i] # r BY <1>1, <2>1, <2>5 DEF IsInjectiveSeq
  <2>7. \A i \in 1 .. n : ids[i] \in RequestIds BY <1>1, <2>5
  <2> HIDE DEF T, U, W, r, item
  <2>8. Shape(T) BY <2>1 DEF PreparedTo, Moves
  <2>9. /\ Moves(T, U) /\ U.inflight = Append(T.inflight, item)
        /\ \A o \in RequestIds \ {r} : U.req[o] = T.req[o]
        /\ U.req[r] = [T.req[r] EXCEPT !.pending = item.target]
    BY SMTT(30), <2>2, <2>3, <2>8, ReserveMoves
  <2>10. T.req[r] = S.req[r] BY <2>1, <2>3, <2>6 DEF PreparedTo
  <2>11. Moves(S, U) BY <2>1, <2>9, MovesTwice DEF PreparedTo
  <2>12. /\ U.inflight \in Seq(ToSet(U.inflight)) /\ Len(U.inflight) = n + 1
         /\ U.inflight[n + 1] = item /\ \A i \in 1 .. n : U.inflight[i] = T.inflight[i]
    BY <2>1, <2>9, PlanGrows DEF PreparedTo
  <2>13. ASSUME NEW i \in 1 .. n + 1
         PROVE  /\ U.inflight[i] = WorkItem(S, ids[i], tokens[i])
                /\ U.req[ids[i]] = [S.req[ids[i]] EXCEPT
                                        !.pending = WorkItem(S, ids[i], tokens[i]).target]
    <3>1. CASE i = n + 1 BY <2>9, <2>10, <2>12, <3>1 DEF r, item
    <3>2. CASE i \in 1 .. n
      <4>1. U.req[ids[i]] = T.req[ids[i]] BY <2>6, <2>7, <2>9, <3>2
      <4> QED BY <2>1, <2>12, <3>2, <4>1 DEF PreparedTo
    <3> QED BY <2>4, <3>1, <3>2
  <2>14. ASSUME NEW o \in RequestIds, \A i \in 1 .. n + 1 : ids[i] # o
         PROVE  U.req[o] = S.req[o]
    <3>1. n + 1 \in 1 .. n + 1 BY <2>1
    <3>2. o # r BY <2>14, <3>1 DEF r
    <3>3. T.req[o] = S.req[o] BY <2>1, <2>5, <2>14 DEF PreparedTo
    <3> QED BY <2>9, <3>2, <3>3
  <2>15. PreparedTo(S, U, ids, tokens, n + 1) BY <2>11, <2>12, <2>13, <2>14 DEF PreparedTo
  <2> QED BY <1>1, <2>1, <2>15 DEF W, U
<1>5. m \in W
  <2> HIDE DEF W
  <2>1. \A n \in 0 .. m : n \in W BY <1>1, <1>3, <1>4, CountUp
  <2> QED BY <1>1, <2>1
<1> QED BY <1>2, <1>5 DEF PrepareTurns

\* The plan it makes.
LEMMA PreparePlans ==
    ASSUME NEW S, Shape(S), S.inflight = <<>>, NEW ids \in Seq(RequestIds), IsInjectiveSeq(ids),
           \A i \in 1 .. Len(ids) : S.req[ids[i]].state \in Active,
           NEW tokens, NEW T, PreparedTo(S, T, ids, tokens, Len(ids))
    PROVE  Planned(T) /\ Inflight(T) = ToSet(ids)
<1> DEFINE n == Len(ids)
<1>1. /\ T.inflight \in Seq(ToSet(T.inflight)) /\ Len(T.inflight) = n /\ Moves(S, T)
      /\ \A i \in 1 .. n : T.inflight[i] = WorkItem(S, ids[i], tokens[i])
  BY DEF PreparedTo
<1>2. DOMAIN T.inflight = 1 .. n /\ DOMAIN ids = 1 .. n /\ \A i \in 1 .. n : ids[i] \in RequestIds
  BY <1>1
<1> HIDE DEF n
<1>3. \A i \in 1 .. n : T.inflight[i].id = ids[i] /\ T.inflight[i].previous = S.req[ids[i]].state
  BY <1>1, WorkItemIs
<1>4. \A i \in 1 .. n : S.req[ids[i]].state \in Active BY DEF n
<1>5. \A i \in 1 .. n : T.req[ids[i]].state \in Active BY <1>1, <1>2, <1>4 DEF Moves, Alike
<1>6. Planned(T)
  <2>1. \A i, j \in 1 .. n : ids[i] = ids[j] => i = j BY <1>2 DEF IsInjectiveSeq
  <2> QED BY SMTT(30), <1>1, <1>2, <1>3, <1>4, <1>5, <2>1 DEF Planned
<1>7. Inflight(T) = ToSet(ids) BY SMTT(30), <1>2, <1>3 DEF Inflight, ToSet
<1> QED BY <1>6, <1>7

-----------------------------------------------------------------------------
(* Settling a plan. *)

\* What publish_committed_item has made of S before it looks at the token.
Processed(S, item) ==
    IF item.decode THEN S
    ELSE PublishPromptBlocks([S EXCEPT !.req[item.id].cursor = item.target], item.id)

\* The same once a request has its token.
Continued(S, item) ==
    [Processed(S, item) EXCEPT !.req[item.id].generated = @ + 1,
                               !.req[item.id].state = "decoding"]

\* publish_committed_item ends the request, continues it or processes its prompt.
LEMMA PublishIs ==
    ASSUME NEW S, NEW item, NEW stop
    PROVE  LET r == item.id
               T == Publish(S, item, stop)
           IN  \/ S.req[r].deferred /\ T = Finish(S, r, "cancelled")
               \/ ~S.req[r].deferred /\ ~item.output /\ T = Processed(S, item)
               \/ /\ ~S.req[r].deferred /\ item.output
                  /\ \/ T = Finish(Continued(S, item), r, "stop")
                     \/ T = Finish(Continued(S, item), r, "length")
                     \/ /\ T = Continued(S, item)
                        /\ T.req[r].generated # T.req[r].maxNew
  BY DEF Publish, Continued, Processed

\* T is S after item's prompt was processed: its cursor and what it shares have changed.
Processes(S, T, item) ==
    /\ Drifts(S, T)
    /\ \A o \in RequestIds \ {item.id} : T.req[o] = S.req[o]
    /\ T.req[item.id].state = S.req[item.id].state
    /\ T.req[item.id].generated = S.req[item.id].generated
    /\ T.req[item.id].pending = S.req[item.id].pending
    /\ T.req[item.id].deferred = S.req[item.id].deferred
    /\ T.req[item.id].length = S.req[item.id].length
    /\ T.req[item.id].cursor = IF item.decode THEN S.req[item.id].cursor ELSE item.target
    /\ item.decode => T.req[item.id].shared = S.req[item.id].shared
    /\ ~item.decode /\ Fits([S.req[item.id] EXCEPT !.cursor = item.target])
            => Fits(T.req[item.id])

\* What publish_committed_item does before it looks at the token.
LEMMA ProcessedIs ==
    ASSUME NEW S, Shape(S), PromptsAreSeqs(S), NEW item, item.id \in RequestIds
    PROVE  Processes(S, Processed(S, item), item)
<1> DEFINE r == item.id
           q == S.req[r]
           p == [q EXCEPT !.cursor = item.target]
           C == [S EXCEPT !.req[r].cursor = item.target]
           T == Processed(S, item)
<1>1. CASE item.decode
  <2>1. T = S BY <1>1 DEF Processed
  <2> HIDE DEF T
  <2>2. Processes(S, T, item) BY <1>1, <2>1, DriftsNot DEF Processes
  <2> QED BY <2>2 DEF T
<1>2. CASE ~item.decode
  <2>1. T = PublishPromptBlocks(C, r) BY <1>2 DEF Processed
  <2>2. RequestShape(q) BY DEF Shape
  <2> HIDE DEF q
  <2>3. /\ RequestShape(p) /\ Alike(q, p) /\ p.cursor = item.target
        /\ p.state = q.state /\ p.generated = q.generated /\ p.pending = q.pending
        /\ p.deferred = q.deferred /\ p.length = q.length
    BY <2>2 DEF RequestShape, Alike
  <2> HIDE DEF p
  <2>4. Becomes(S, C, r, p) /\ C.inflight = S.inflight
    BY DEF Shape, SchedulerShape, SameQueues, p, q, Becomes
  <2> HIDE DEF C, T
  <2>5. Moves(S, C) /\ C.req[r] = p /\ \A o \in RequestIds \ {r} : C.req[o] = S.req[o]
    BY <2>3, <2>4, OneMoves DEF q
  <2>6. Shape(C) BY <2>5 DEF Moves
  <2>7. PromptsAreSeqs(C) BY <2>5 DEF PromptsAreSeqs, Moves, Alike
  <2>8. PublishesIn(C, T, r) BY <2>1, <2>6, <2>7, PublishPromptBlocksDrifts
  <2>9. Drifts(S, T) BY <2>4, <2>5, <2>8, MovesTwice DEF PublishesIn, DriftsIn, Drifts
  <2>10. \A o \in RequestIds \ {r} : T.req[o] = S.req[o]
    BY <2>5, <2>8 DEF PublishesIn, DriftsIn
  <2>11. /\ T.req[r].state = p.state /\ T.req[r].generated = p.generated
         /\ T.req[r].pending = p.pending /\ T.req[r].deferred = p.deferred
         /\ T.req[r].length = p.length /\ T.req[r].cursor = p.cursor
    BY <2>5, <2>8 DEF PublishesIn, DriftsIn
  <2>12. Fits(p) => Fits(T.req[r]) BY <2>5, <2>8 DEF PublishesIn
  <2>13. Processes(S, T, item) BY <1>2, <2>3, <2>9, <2>10, <2>11, <2>12 DEF q, p, Processes
  <2> QED BY <2>13 DEF T
<1> QED BY <1>1, <1>2

Continues(S, U, item) ==
    /\ Drifts(S, U)
    /\ \A o \in RequestIds \ {item.id} : U.req[o] = S.req[o]
    /\ U.req[item.id] = [Processed(S, item).req[item.id] EXCEPT !.generated = @ + 1,
                                                               !.state = "decoding"]

\* A token more leaves the request active.
LEMMA ContinuedIs ==
    ASSUME NEW S, Shape(S), PromptsAreSeqs(S), NEW item, item.id \in RequestIds,
           S.req[item.id].state \in Active
    PROVE  Continues(S, Continued(S, item), item)
<1> DEFINE r == item.id
           T == Processed(S, item)
           q == T.req[r]
           p == [q EXCEPT !.generated = @ + 1, !.state = "decoding"]
           U == Continued(S, item)
<1>1. U = [T EXCEPT !.req[r].generated = @ + 1, !.req[r].state = "decoding"]
  BY DEF Continued
<1>2. /\ Drifts(S, T) /\ \A o \in RequestIds \ {r} : T.req[o] = S.req[o]
      /\ q.state = S.req[r].state
  <2>1. Processes(S, T, item) BY ProcessedIs
  <2> QED BY <2>1 DEF Processes
<1> HIDE DEF T, U
<1>3. Shape(T) BY <1>2 DEF Drifts, Moves
<1>4. RequestShape(q) /\ q.state \in Active BY SMTT(30), <1>2, <1>3 DEF Shape
<1> HIDE DEF q
<1>5. "decoding" \in Active BY SMTT(30) DEF Active
<1>6. RequestShape(p) /\ Alike(q, p) BY <1>4, <1>5 DEF RequestShape, Alike
<1> HIDE DEF p
<1>7. Becomes(T, U, r, p) /\ U.inflight = T.inflight
  BY <1>1, <1>3 DEF Shape, SchedulerShape, SameQueues, p, q, Becomes
<1>8. Moves(T, U) /\ U.req[r] = p /\ \A o \in RequestIds \ {r} : U.req[o] = T.req[o]
  BY <1>3, <1>6, <1>7, OneMoves DEF q
<1>9. Drifts(S, U) BY <1>2, <1>7, <1>8, MovesTwice DEF Drifts
<1> QED BY <1>2, <1>8, <1>9 DEF Continues, T, U, p, q

\* One item of a plan is settled: nothing happens to the other requests.
Settles(S, T, d, r) ==
    /\ Control(T, d) /\ Quiet(S, T)
    /\ T.inflight = S.inflight /\ T.next = S.next
    /\ \A o \in RequestIds \ {r} : T.req[o] = S.req[o]

\* What a request must be for its item to be settled: committed, or still reserved.
Way(q, item, way) == IF way = "publish" THEN Half(q, item) ELSE Busy(q, item)

SettlesItem(S, T, d, item, way) ==
    Settles(S, T, d, item.id) /\ (Way(S.req[item.id], item, way) => Rest(T.req[item.id]))

\* Settling one more way.
LEMMA SettlesBy ==
    ASSUME NEW S, NEW d, Control(S, d), NEW r \in RequestIds, S.req[r].state \in Active,
           NEW T, Drifts(S, T), \A o \in RequestIds \ {r} : T.req[o] = S.req[o]
    PROVE  /\ Settles(S, T, d, r)
           /\ \A reason \in Reasons : /\ Settles(S, Finish(T, r, reason), d, r)
                                      /\ Rest(Finish(T, r, reason).req[r])
<1>1. Control(T, d) /\ Quiet(S, T) /\ T.inflight = S.inflight /\ T.next = S.next
  BY MovesControl DEF Drifts, Moves, SameQueues
<1>2. ASSUME NEW reason \in Reasons
      PROVE  Settles(S, Finish(T, r, reason), d, r) /\ Rest(Finish(T, r, reason).req[r])
  <2> DEFINE U == Finish(T, r, reason)
  <2>1. T.req[r].state \in Active BY DEF Drifts, Moves, Alike
  <2>2. r \in LiveRequests(T) BY <1>1, <2>1, LiveIs, StatesAre
  <2>3. /\ Control(U, d) /\ Quiet(T, U) /\ U.inflight = T.inflight /\ U.next = T.next
        /\ \A o \in RequestIds \ {r} : U.req[o] = T.req[o]
        /\ Rest(U.req[r])
    BY <1>1, <2>2, FinishControl
  <2> HIDE DEF U
  <2>4. Quiet(S, U) BY <1>1, <2>3 DEF Quiet
  <2>5. Settles(S, U, d, r) BY <1>1, <2>3, <2>4 DEF Settles
  <2> QED BY <2>3, <2>5 DEF U
<1> QED BY <1>1, <1>2 DEF Settles

\* A committed request that is published is at rest, whether it gets a token or not.
LEMMA PublishRests ==
    ASSUME NEW S, Shape(S), PromptsAreSeqs(S), NEW item, item.id \in RequestIds,
           Half(S.req[item.id], item), ~S.req[item.id].deferred, S.req[item.id].state \in Active
    PROVE  /\ ~item.output => Rest(Processed(S, item).req[item.id])
           /\ /\ item.output
              /\ Continued(S, item).req[item.id].generated # Continued(S, item).req[item.id].maxNew
              => Rest(Continued(S, item).req[item.id])
<1> DEFINE r == item.id
           T == Processed(S, item)
           U == Continued(S, item)
           p == S.req[r]
           q == T.req[r]
           u == U.req[r]
<1>1. /\ Drifts(S, T) /\ q.state = p.state /\ q.generated = p.generated
      /\ q.pending = p.pending /\ q.deferred = p.deferred /\ q.length = p.length
      /\ q.cursor = (IF item.decode THEN p.cursor ELSE item.target)
      /\ item.decode => q.shared = p.shared
      /\ ~item.decode /\ Fits([p EXCEPT !.cursor = item.target]) => Fits(q)
  <2>1. Processes(S, T, item) BY SMTT(30), ProcessedIs
  <2> QED BY SMTT(30), <2>1 DEF Processes
<1>2. Continues(S, U, item) BY SMTT(30), ContinuedIs
<1> HIDE DEF T, U
<1>3. q.prompt = p.prompt /\ q.maxNew = p.maxNew /\ RequestShape(q)
  BY <1>1 DEF Drifts, Moves, Alike, Shape
<1>4. u = [q EXCEPT !.generated = @ + 1, !.state = "decoding"] BY <1>2 DEF Continues, T
<1>5. ~item.decode => Fits(q)
  <2>1. SUFFICES ASSUME ~item.decode PROVE Fits([p EXCEPT !.cursor = item.target]) BY <1>1
  <2>2. RequestShape(p) BY DEF Shape
  <2> DEFINE w == [p EXCEPT !.cursor = item.target]
  <2> HIDE DEF p
  <2>3. w.shared = p.shared /\ w.cursor = item.target BY <2>2 DEF RequestShape
  <2>4. /\ Numbers(p) /\ p.length = item.target /\ Len(p.shared) * BlockSize <= item.target
    BY DEF Half, p
  <2> HIDE DEF w
  <2>5. Fits(w) BY <2>3, <2>4 DEF Fits, Numbers
  <2> QED BY <2>5 DEF w
<1>6. Half(p, item) /\ ~p.deferred OBVIOUS
<1> HIDE DEF p, q, u
<1>7. ~item.output => Rest(q) BY <1>1, <1>3, <1>5, <1>6, PublishedRests
<1>8. /\ u.state = "decoding" /\ u.generated = q.generated + 1
      /\ u.prompt = q.prompt /\ u.maxNew = q.maxNew /\ u.length = q.length
      /\ u.pending = q.pending /\ u.deferred = q.deferred /\ u.cursor = q.cursor
      /\ u.shared = q.shared
  BY <1>3, <1>4 DEF RequestShape
<1>9. ~item.decode => Fits(u) BY <1>5, <1>8 DEF Fits
<1>10. item.output /\ u.generated # u.maxNew => Rest(u)
  <2>1. /\ u.prompt = p.prompt /\ u.maxNew = p.maxNew /\ u.length = p.length
        /\ u.pending = p.pending /\ u.deferred = p.deferred
        /\ u.cursor = (IF item.decode THEN p.cursor ELSE item.target)
        /\ item.decode => u.shared = p.shared
        /\ u.generated = p.generated + 1 /\ u.state = "decoding"
    BY <1>1, <1>3, <1>8
  <2> QED BY <1>6, <1>9, <2>1, PublishedRests
<1> QED BY <1>7, <1>10 DEF q, u, T, U

\* Publishing an item ends its request at most, and no other.
LEMMA PublishSettles ==
    ASSUME NEW S, NEW d, Control(S, d), NEW item, item.id \in RequestIds,
           S.req[item.id].state \in Active, NEW stop
    PROVE  SettlesItem(S, Publish(S, item, stop), d, item, "publish")
<1> DEFINE r == item.id
           P == Processed(S, item)
           C == Continued(S, item)
           T == Publish(S, item, stop)
<1>1. Shape(S) /\ PromptsAreSeqs(S) BY DEF Control
<1>2. Drifts(S, P) /\ \A o \in RequestIds \ {r} : P.req[o] = S.req[o]
  <2>1. Processes(S, P, item) BY <1>1, ProcessedIs
  <2> QED BY <2>1 DEF Processes
<1>3. Drifts(S, C) /\ \A o \in RequestIds \ {r} : C.req[o] = S.req[o]
  <2>1. Continues(S, C, item) BY <1>1, ContinuedIs
  <2> HIDE DEF C
  <2> QED BY <2>1 DEF Continues
<1>4. Drifts(S, S) BY <1>1, DriftsNot
<1>5. \/ T = Finish(S, r, "cancelled")
      \/ T = P /\ ~S.req[r].deferred /\ ~item.output
      \/ T = Finish(C, r, "stop")
      \/ T = Finish(C, r, "length")
      \/ T = C /\ ~S.req[r].deferred /\ item.output /\ T.req[r].generated # T.req[r].maxNew
  BY PublishIs
<1>6. /\ Half(S.req[r], item) /\ ~S.req[r].deferred /\ ~item.output => Rest(P.req[r])
      /\ Half(S.req[r], item) /\ ~S.req[r].deferred /\ item.output
            /\ C.req[r].generated # C.req[r].maxNew => Rest(C.req[r])
  BY <1>1, PublishRests
<1> HIDE DEF P, C, T
<1>7. "cancelled" \in Reasons /\ "stop" \in Reasons /\ "length" \in Reasons BY DEF Reasons
<1>8. /\ Settles(S, Finish(S, r, "cancelled"), d, r)
      /\ Rest(Finish(S, r, "cancelled").req[r])
  BY <1>4, <1>7, SettlesBy
<1>9. Settles(S, P, d, r) BY <1>2, SettlesBy
<1>10. /\ Settles(S, C, d, r)
       /\ Settles(S, Finish(C, r, "stop"), d, r) /\ Rest(Finish(C, r, "stop").req[r])
       /\ Settles(S, Finish(C, r, "length"), d, r) /\ Rest(Finish(C, r, "length").req[r])
  BY <1>3, <1>7, SettlesBy
<1>11. Settles(S, T, d, r) BY <1>5, <1>8, <1>9, <1>10
<1>12. Half(S.req[r], item) => Rest(T.req[r]) BY <1>5, <1>6, <1>8, <1>10
<1> QED BY <1>11, <1>12 DEF SettlesItem, Way, T

\* Rolling an item back ends its request at most, and no other.
LEMMA AbortItemSettles ==
    ASSUME NEW S, NEW d, Control(S, d), NEW item, item.id \in RequestIds,
           S.req[item.id].state \in Active, item.previous \in Active
    PROVE  SettlesItem(S, AbortItem(S, item), d, item, "abort")
<1> DEFINE r == item.id
           q == S.req[r]
           p == [q EXCEPT !.pending = 0]
           B == [S EXCEPT !.req[r].pending = 0]
           p2 == [p EXCEPT !.state = item.previous]
           U == [B EXCEPT !.req[r].state = item.previous]
<1>1. AbortItem(S, item) = IF S.req[r].deferred THEN Finish(B, r, "cancelled") ELSE U
  BY DEF AbortItem
<1>2. Shape(S) BY DEF Control
<1>3. RequestShape(q) BY <1>2 DEF Shape
<1> HIDE DEF q
<1>4. RequestShape(p) /\ Alike(q, p) /\ p.state = q.state BY <1>3 DEF RequestShape, Alike
<1> HIDE DEF p
<1>5. Becomes(S, B, r, p) /\ B.inflight = S.inflight
  BY <1>2 DEF Shape, SchedulerShape, SameQueues, p, q, Becomes
<1> HIDE DEF B, U
<1>6. Moves(S, B) /\ B.req[r] = p /\ \A o \in RequestIds \ {r} : B.req[o] = S.req[o]
  BY <1>2, <1>4, <1>5, OneMoves DEF q
<1>7. Drifts(S, B) BY <1>5, <1>6 DEF Drifts
<1>8. p.state \in Active BY <1>4 DEF q
<1>9. RequestShape(p2) /\ Alike(p, p2) BY <1>4, <1>8 DEF RequestShape, Alike
<1> HIDE DEF p2
<1>10. Shape(B) BY <1>6 DEF Moves
<1>11. Becomes(B, U, r, p2) /\ U.inflight = B.inflight
  BY <1>6, <1>10 DEF Shape, SchedulerShape, SameQueues, p2, U, Becomes
<1>12. Alike(B.req[r], p2) BY <1>6, <1>9
<1>13. Moves(B, U) /\ U.req[r] = p2 /\ \A o \in RequestIds \ {r} : U.req[o] = B.req[o]
  BY <1>9, <1>10, <1>11, <1>12, OneMoves
<1>14. Drifts(S, U) BY <1>7, <1>11, <1>13, MovesTwice DEF Drifts
<1>15. Settles(S, U, d, r) BY <1>6, <1>13, <1>14, SettlesBy
<1>16. Settles(S, Finish(B, r, "cancelled"), d, r) /\ Rest(Finish(B, r, "cancelled").req[r])
  <2>1. "cancelled" \in Reasons BY DEF Reasons
  <2> QED BY <1>6, <1>7, <2>1, SettlesBy
<1>17. Busy(q, item) /\ ~q.deferred => Rest(p2)
  <2>1. p2 = [q EXCEPT !.pending = 0, !.state = item.previous] BY <1>3 DEF p, p2, RequestShape
  <2> QED BY <1>3, <2>1, RolledBackRests
<1> DEFINE A == AbortItem(S, item)
<1>18. A = IF q.deferred THEN Finish(B, r, "cancelled") ELSE U BY <1>1 DEF q, U, B
<1> HIDE DEF A
<1>19. Settles(S, A, d, r) BY <1>15, <1>16, <1>18
<1>20. Busy(q, item) => Rest(A.req[r]) BY <1>13, <1>16, <1>17, <1>18
<1> QED BY <1>19, <1>20 DEF SettlesItem, Way, A, q

\* Items of distinct active requests.
Settleable(S, items) ==
    /\ Len(items) \in Nat /\ DOMAIN items = 1 .. Len(items)
    /\ \A i \in 1 .. Len(items) :
        /\ items[i].id \in RequestIds /\ items[i].previous \in Active
        /\ S.req[items[i].id].state \in Active
    /\ \A i, j \in 1 .. Len(items) : items[i].id = items[j].id => i = j

\* The items of a plan can be settled.
LEMMA PlannedSettleable ==
    ASSUME NEW S, Planned(S)
    PROVE  Settleable(S, S.inflight)
<1>1. S.inflight \in Seq(ToSet(S.inflight)) BY DEF Planned
<1>2. Len(S.inflight) \in Nat /\ DOMAIN S.inflight = 1 .. Len(S.inflight) BY <1>1
<1> QED BY <1>2 DEF Planned, Settleable

\* The first n items are settled.
SettledTo(S, T, d, items, n, way) ==
    /\ Control(T, d) /\ Quiet(S, T)
    /\ T.inflight = S.inflight /\ T.next = S.next
    /\ \A r \in RequestIds : (\A i \in 1 .. n : items[i].id # r) => T.req[r] = S.req[r]
    /\ \A i \in 1 .. n : Way(S.req[items[i].id], items[i], way) => Rest(T.req[items[i].id])

\* Before the first item nothing has changed.
LEMMA SettledNot ==
    ASSUME NEW S, NEW d, Control(S, d), NEW items, NEW way
    PROVE  SettledTo(S, S, d, items, 0, way)
  BY DEF SettledTo, Quiet

\* Settling the next item.
LEMMA SettledNext ==
    ASSUME NEW S, NEW d, NEW items, Settleable(S, items), NEW n \in 0 .. Len(items) - 1,
           NEW way, NEW T, SettledTo(S, T, d, items, n, way), NEW U,
           T.req[items[n + 1].id].state \in Active => SettlesItem(T, U, d, items[n + 1], way)
    PROVE  SettledTo(S, U, d, items, n + 1, way)
<1> DEFINE r == items[n + 1].id
<1>1. Len(items) \in Nat BY DEF Settleable
<1>2. /\ n + 1 \in 1 .. Len(items) /\ n + 1 \in 1 .. n + 1 /\ n \in Nat
      /\ \A i \in 1 .. n : i \in 1 .. Len(items) /\ i # n + 1 /\ i \in 1 .. n + 1
  BY <1>1
<1>3. \A i \in 1 .. n : items[i].id # r BY <1>2 DEF Settleable
<1>4. r \in RequestIds /\ S.req[r].state \in Active BY <1>2 DEF Settleable
<1> HIDE DEF r
<1>5. T.req[r] = S.req[r] BY <1>3, <1>4 DEF SettledTo
<1>6. Settles(T, U, d, r) /\ (Way(S.req[r], items[n + 1], way) => Rest(U.req[r]))
  BY <1>4, <1>5 DEF r, SettlesItem
<1>7. /\ Control(U, d) /\ Quiet(T, U) /\ U.inflight = T.inflight /\ U.next = T.next
      /\ \A o \in RequestIds \ {r} : U.req[o] = T.req[o]
  BY <1>6 DEF Settles
<1>8. Quiet(S, U) BY <1>7 DEF SettledTo, Quiet
<1>9. ASSUME NEW o \in RequestIds, \A i \in 1 .. n + 1 : items[i].id # o
      PROVE  U.req[o] = S.req[o]
  <2>1. o # r BY <1>2, <1>9 DEF r
  <2>2. T.req[o] = S.req[o] BY <1>2, <1>9 DEF SettledTo
  <2> QED BY <1>7, <2>1, <2>2
<1>10. U.inflight = S.inflight /\ U.next = S.next BY <1>7 DEF SettledTo
<1>11. ASSUME NEW i \in 1 .. n + 1, Way(S.req[items[i].id], items[i], way)
       PROVE  Rest(U.req[items[i].id])
  <2>1. CASE i = n + 1 BY <1>6, <1>11, <2>1 DEF r
  <2>2. CASE i \in 1 .. n
    <3>1. Rest(T.req[items[i].id]) BY <1>11, <2>2 DEF SettledTo
    <3>2. items[i].id \in RequestIds \ {r} BY <1>2, <1>3, <2>2 DEF Settleable
    <3> QED BY <1>7, <3>1, <3>2
  <2> QED BY <1>2, <2>1, <2>2
<1> QED BY <1>7, <1>8, <1>9, <1>10, <1>11 DEF SettledTo

\* The request of the next item has not changed.
LEMMA StillActive ==
    ASSUME NEW S, NEW d, NEW items, Settleable(S, items), NEW n \in 0 .. Len(items) - 1,
           NEW way, NEW T, SettledTo(S, T, d, items, n, way)
    PROVE  /\ items[n + 1].id \in RequestIds /\ items[n + 1].previous \in Active
           /\ T.req[items[n + 1].id] = S.req[items[n + 1].id]
           /\ T.req[items[n + 1].id].state \in Active
<1>1. Len(items) \in Nat BY DEF Settleable
<1>2. n + 1 \in 1 .. Len(items) /\ \A i \in 1 .. n : i \in 1 .. Len(items) /\ i # n + 1 BY <1>1
<1>3. \A i \in 1 .. n : items[i].id # items[n + 1].id BY <1>2 DEF Settleable
<1>4. /\ items[n + 1].id \in RequestIds /\ items[n + 1].previous \in Active
      /\ S.req[items[n + 1].id].state \in Active
  BY <1>2 DEF Settleable
<1> QED BY <1>3, <1>4 DEF SettledTo

\* Every item is published.
LEMMA PublishAllSettles ==
    ASSUME NEW S, NEW d, Control(S, d), NEW items, Settleable(S, items), NEW stops
    PROVE  SettledTo(S, PublishAll(S, items, stops), d, items, Len(items), "publish")
<1> DEFINE N == Len(items)
<1>1. N \in Nat BY DEF Settleable
<1>2. PICK turn : PublishTurns(turn, S, items, stops) BY <1>1, PublishTurnsExist
<1> DEFINE W == {n \in 0 .. N : SettledTo(S, turn[n], d, items, n, "publish")}
<1>3. 0 \in W BY <1>1, <1>2, SettledNot DEF PublishTurns
<1>4. ASSUME NEW n \in 0 .. N - 1, n \in W PROVE n + 1 \in W
  <2>1. SettledTo(S, turn[n], d, items, n, "publish") BY <1>4
  <2>2. n + 1 \in 1 .. N /\ (n + 1) - 1 = n BY <1>1
  <2>3. turn[n + 1] = Publish(turn[n], items[n + 1], items[n + 1].id \in stops)
    BY <1>2, <2>2 DEF PublishTurns
  <2>4. Control(turn[n], d) BY <2>1 DEF SettledTo
  <2>5. /\ items[n + 1].id \in RequestIds /\ items[n + 1].previous \in Active
        /\ turn[n].req[items[n + 1].id].state \in Active
    BY <2>1, StillActive
  <2>6. SettlesItem(turn[n], turn[n + 1], d, items[n + 1], "publish")
    BY <2>3, <2>4, <2>5, PublishSettles
  <2>7. SettledTo(S, turn[n + 1], d, items, n + 1, "publish") BY <2>1, <2>6, SettledNext
  <2> QED BY <1>1, <2>2, <2>7
<1>5. N \in W
  <2> HIDE DEF W, N
  <2>1. \A n \in 0 .. N : n \in W BY <1>1, <1>3, <1>4, CountUp
  <2> QED BY <1>1, <2>1
<1> QED BY <1>2, <1>5 DEF PublishTurns

\* The plan is taken out of the scheduler.
Emptied(S) == [S EXCEPT !.inflight = <<>>]

\* Taking the plan out changes no request.
LEMMA EmptiedIs ==
    ASSUME NEW S, Shape(S)
    PROVE  Moves(S, Emptied(S)) /\ Emptied(S).req = S.req /\ Emptied(S).inflight = <<>>
           /\ Emptied(S).index = S.index
<1> DEFINE T == Emptied(S)
<1>1. /\ SchedulerShape(T) /\ SameQueues(S, T) /\ T.index = S.index /\ T.inflight = <<>>
      /\ T.req = S.req
  BY DEF Shape, SchedulerShape, SameQueues, Emptied
<1> HIDE DEF T
<1>2. Shape(T) BY <1>1 DEF Shape
<1>3. Moves(S, T) BY <1>1, <1>2 DEF Moves, Alike
<1> QED BY <1>1, <1>3 DEF T

\* Every item is rolled back.
LEMMA AbortItemsSettle ==
    ASSUME NEW S, NEW d, Control(Emptied(S), d), Settleable(Emptied(S), S.inflight)
    PROVE  SettledTo(Emptied(S), AbortNotDispatched(S), d, S.inflight, Len(S.inflight),
                     "abort")
<1> DEFINE N == Len(S.inflight)
<1>1. N \in Nat BY DEF Settleable
<1>2. PICK turn : AbortTurns(turn, S) BY <1>1, AbortTurnsExist
<1> DEFINE W == {n \in 0 .. N : SettledTo(Emptied(S), turn[n], d, S.inflight, n, "abort")}
<1>3. 0 \in W BY <1>1, <1>2, SettledNot DEF AbortTurns, Emptied
<1>4. ASSUME NEW n \in 0 .. N - 1, n \in W PROVE n + 1 \in W
  <2>1. SettledTo(Emptied(S), turn[n], d, S.inflight, n, "abort") BY <1>4
  <2>2. n + 1 \in 1 .. N /\ (n + 1) - 1 = n BY <1>1
  <2>3. turn[n + 1] = AbortItem(turn[n], S.inflight[n + 1])
    BY <1>2, <2>2 DEF AbortTurns
  <2>4. Control(turn[n], d) BY <2>1 DEF SettledTo
  <2>5. /\ S.inflight[n + 1].id \in RequestIds /\ S.inflight[n + 1].previous \in Active
        /\ turn[n].req[S.inflight[n + 1].id].state \in Active
    BY <2>1, StillActive
  <2>6. SettlesItem(turn[n], turn[n + 1], d, S.inflight[n + 1], "abort")
    BY <2>3, <2>4, <2>5, AbortItemSettles
  <2>7. SettledTo(Emptied(S), turn[n + 1], d, S.inflight, n + 1, "abort")
    BY <2>1, <2>6, SettledNext
  <2> QED BY <1>1, <2>2, <2>7
<1>5. N \in W
  <2> HIDE DEF W, N
  <2>1. \A n \in 0 .. N : n \in W BY <1>1, <1>3, <1>4, CountUp
  <2> QED BY <1>1, <2>1
<1> QED BY <1>2, <1>5 DEF AbortTurns

\* Every request is at rest.
AllRest(S) == \A r \in RequestIds : Rest(S.req[r])

\* The requests of the plan are busy with their items, and all others at rest.
Steady(S) ==
    /\ \A i \in DOMAIN S.inflight : Busy(S.req[S.inflight[i].id], S.inflight[i])
    /\ \A r \in RequestIds \ Inflight(S) : Rest(S.req[r])

\* T is S after its plan was given up.
GivesUp(S, T, d) ==
    /\ Control(T, d) /\ Quiet(S, T) /\ T.inflight = <<>> /\ T.next = S.next
    /\ Steady(S) => AllRest(T)

\* A dispatched plan that never reached the device leaves no plan behind.
LEMMA AbortNotDispatchedControl ==
    ASSUME NEW S, NEW d, Control(S, d), Planned(S)
    PROVE  GivesUp(S, AbortNotDispatched(S), d)
<1> DEFINE E == Emptied(S)
           T == AbortNotDispatched(S)
<1>1. Moves(S, E) /\ E.req = S.req /\ E.inflight = <<>> BY EmptiedIs DEF Control
<1>2. Control(E, d) /\ Quiet(S, E) /\ E.next = S.next BY <1>1, MovesControl DEF Moves, SameQueues
<1>3. Settleable(E, S.inflight) BY <1>1, PlannedSettleable DEF Settleable
<1>4. SettledTo(E, T, d, S.inflight, Len(S.inflight), "abort") BY <1>2, <1>3, AbortItemsSettle
<1> HIDE DEF E, T
<1>5. Quiet(S, T) BY <1>2, <1>4 DEF SettledTo, Quiet
<1>6. Len(S.inflight) \in Nat /\ DOMAIN S.inflight = 1 .. Len(S.inflight)
  BY <1>3 DEF Settleable
<1>7. ASSUME Steady(S) PROVE AllRest(T)
  <2>1. SUFFICES ASSUME NEW r \in RequestIds PROVE Rest(T.req[r]) BY DEF AllRest
  <2>2. CASE r \notin Inflight(S)
    <3>1. \A i \in 1 .. Len(S.inflight) : S.inflight[i].id # r BY <1>6, <2>2 DEF Inflight
    <3>2. T.req[r] = S.req[r] BY <1>1, <1>4, <3>1 DEF SettledTo
    <3> QED BY <1>7, <2>2, <3>2 DEF Steady
  <2>3. CASE r \in Inflight(S)
    <3>1. PICK i \in 1 .. Len(S.inflight) : S.inflight[i].id = r BY <1>6, <2>3 DEF Inflight
    <3>2. Busy(E.req[S.inflight[i].id], S.inflight[i]) BY <1>1, <1>6, <1>7 DEF Steady
    <3>3. Way(E.req[S.inflight[i].id], S.inflight[i], "abort") BY <3>2 DEF Way
    <3> QED BY <1>4, <3>1, <3>3 DEF SettledTo
  <2> QED BY <2>2, <2>3
<1>8. GivesUp(S, T, d) BY <1>1, <1>2, <1>4, <1>5, <1>7 DEF SettledTo, GivesUp
<1> QED BY <1>8 DEF T

\* T is S after all of rs ended.
AllEnd(S, T, d, rs) ==
    /\ Control(T, d) /\ Quiet(S, T) /\ T.inflight = S.inflight /\ T.next = S.next
    /\ \A r \in ToSet(rs) : T.req[r].state \in Terminal /\ Rest(T.req[r])
    /\ \A r \in RequestIds \ ToSet(rs) : T.req[r] = S.req[r]

\* All of rs end.
LEMMA FinishAllControl ==
    ASSUME NEW S, NEW d, Control(S, d), NEW rs \in Seq(RequestIds), IsInjectiveSeq(rs),
           ToSet(rs) \subseteq LiveRequests(S), NEW reason \in Reasons
    PROVE  AllEnd(S, FinishAll(S, rs, reason), d, rs)
<1> DEFINE T == FinishAll(S, rs, reason)
<1>1. DOMAIN rs = 1 .. Len(rs) OBVIOUS
<1>2. \A i \in 1 .. Len(rs) : rs[i] \in ToSet(rs) BY <1>1 DEF ToSet
<1>3. \A i \in 1 .. Len(rs) : rs[i] \in ToSet(rs) => rs[i] \in LiveRequests(S) BY <1>2
<1>4. T = FinishThose(S, rs, ToSet(rs), reason) BY DEF FinishAll
<1> DEFINE which == ToSet(rs)
<1>5. \A i \in 1 .. Len(rs) : rs[i] \in which => rs[i] \in LiveRequests(S) BY <1>3
<1> HIDE DEF which
<1>6. Ending(S, FinishThose(S, rs, which, reason), d, rs, which, Len(rs))
  BY <1>5, FinishThoseControl
<1> HIDE DEF T
<1>7. Ending(S, T, d, rs, which, Len(rs)) BY <1>4, <1>6 DEF which
<1>8. \A r \in which : T.req[r].state \in Terminal /\ Rest(T.req[r])
  BY <1>1, <1>2, <1>7 DEF Ending, which, ToSet
<1>9. ASSUME NEW r \in RequestIds \ which PROVE T.req[r] = S.req[r]
  <2>1. \A i \in 1 .. Len(rs) : rs[i] \in which => rs[i] # r BY <1>2, <1>9 DEF which
  <2> QED BY <1>7, <2>1 DEF Ending
<1>10. AllEnd(S, T, d, rs) BY <1>7, <1>8, <1>9 DEF Ending, AllEnd, which
<1> QED BY <1>10 DEF T

\* Dropping the entries of the cache leaves requests as they are, but for their links.
LEMMA DropDrifts ==
    ASSUME NEW S, Shape(S)
    PROVE  LET T == DropPrefixCacheEntries(S)
           IN  /\ Drifts(S, T)
               /\ \A r \in RequestIds : SameWork(S.req[r], T.req[r])
<1> DEFINE T == DropPrefixCacheEntries(S)
<1>1. \A r \in RequestIds : RequestShape(S.req[r]) BY DEF Shape
<1>2. CASE Capacity = 0
  <2>1. T = S BY <1>2 DEF DropPrefixCacheEntries
  <2> QED BY <2>1, DriftsNot DEF SameWork
<1>3. CASE Capacity # 0
  <2>1. /\ Moves(S, T) /\ T.inflight = S.inflight
        /\ \A r \in RequestIds :
             T.req[r] = IF r \in LiveRequests(S) THEN [S.req[r] EXCEPT !.linked = FALSE]
                                                 ELSE S.req[r]
    BY <1>3, DropIs
  <2> HIDE DEF T
  <2>2. ASSUME NEW r \in RequestIds PROVE SameWork(S.req[r], T.req[r])
    BY <1>1, <2>1 DEF SameWork, RequestShape
  <2> QED BY <2>1, <2>2 DEF Drifts, T
<1> QED BY <1>2, <1>3

\* A plan whose device state is unknown takes its requests with it.
LEMMA AbortMutationUnknownControl ==
    ASSUME NEW S, NEW d, Control(S, d), Planned(S)
    PROVE  GivesUp(S, AbortMutationUnknown(S), d)
<1> DEFINE X == [S EXCEPT !.inflight = <<>>, !.suspect = SharedBlocks(S)]
           D == DropPrefixCacheEntries(X)
           ids == [i \in DOMAIN S.inflight |-> S.inflight[i].id]
           T == FinishAll(D, ids, "executor_failure")
<1>1. AbortMutationUnknown(S) = T BY DEF AbortMutationUnknown
<1>2. /\ SchedulerShape(X) /\ X.req = S.req /\ X.inflight = <<>> /\ X.next = S.next
      /\ X.requests = S.requests /\ X.waiting = S.waiting /\ X.outbox = S.outbox
      /\ SameCounters(S, X)
  BY DEF Control, Shape, SchedulerShape, SameCounters
<1> HIDE DEF X
<1>3. Shape(X) BY <1>2 DEF Control, Shape
<1>4. Control(X, d) /\ Quiet(S, X)
  <2>1. Accounts(X) BY <1>2, AccountsLike DEF Control
  <2> QED BY <1>2, <1>3, <2>1 DEF Control, Queues, Reports, PromptsAreSeqs, Quiet
<1>5. Drifts(X, D) /\ \A r \in RequestIds : SameWork(X.req[r], D.req[r]) BY <1>3, DropDrifts
<1> HIDE DEF D
<1>6. /\ Control(D, d) /\ Quiet(S, D) /\ D.inflight = <<>> /\ D.next = S.next
      /\ \A r \in RequestIds : S.req[r].state \in Active => D.req[r].state \in Active
  <2>1. Control(D, d) /\ Quiet(X, D) BY <1>4, <1>5, MovesControl DEF Drifts
  <2>2. Quiet(S, D) BY <1>4, <2>1 DEF Quiet
  <2>3. D.next = X.next /\ D.inflight = X.inflight BY <1>5 DEF Drifts, Moves, SameQueues
  <2>4. \A r \in RequestIds : X.req[r].state \in Active => D.req[r].state \in Active
    BY <1>5 DEF Drifts, Moves, Alike
  <2> QED BY <1>2, <2>1, <2>2, <2>3, <2>4
<1>7. Settleable(S, S.inflight) BY PlannedSettleable
<1>8. ids \in Seq(RequestIds) /\ IsInjectiveSeq(ids) /\ ToSet(ids) \subseteq LiveRequests(D)
      /\ \A r \in Inflight(S) : r \in ToSet(ids)
  <2> DEFINE n == Len(S.inflight)
  <2>1. n \in Nat /\ DOMAIN S.inflight = 1 .. n /\ \A i \in 1 .. n : S.inflight[i].id \in RequestIds
    BY <1>7 DEF Settleable
  <2> HIDE DEF n
  <2>2. ids \in [1 .. n -> RequestIds] BY <2>1
  <2>3. \A i \in 1 .. n : ids[i] = S.inflight[i].id BY <2>1
  <2> HIDE DEF ids
  <2>4. ids \in Seq(RequestIds) /\ DOMAIN ids = 1 .. n BY <2>1, <2>2
  <2>5. IsInjectiveSeq(ids) BY <1>7, <2>3, <2>4 DEF IsInjectiveSeq, Settleable, n
  <2>6. \A i \in 1 .. n : ids[i] \in RequestIds /\ S.req[ids[i]].state \in Active
    BY <1>7, <2>3 DEF Settleable, n
  <2>7. \A i \in 1 .. n : ids[i] \in LiveRequests(D) BY <1>6, <2>6, LiveIs, StatesAre
  <2>8. \A r \in Inflight(S) : r \in ToSet(ids) BY <2>1, <2>3, <2>4 DEF Inflight, ToSet
  <2> QED BY <2>4, <2>5, <2>7, <2>8 DEF ToSet
<1>9. "executor_failure" \in Reasons BY DEF Reasons
<1> HIDE DEF ids
<1>10. AllEnd(D, T, d, ids) BY <1>6, <1>8, <1>9, FinishAllControl
<1> HIDE DEF T
<1>11. Quiet(S, T) BY <1>6, <1>10 DEF Quiet, AllEnd
<1>12. ASSUME Steady(S) PROVE AllRest(T)
  <2>1. SUFFICES ASSUME NEW r \in RequestIds PROVE Rest(T.req[r]) BY DEF AllRest
  <2>2. CASE r \in ToSet(ids) BY <1>10, <2>2 DEF AllEnd
  <2>3. CASE r \notin ToSet(ids)
    <3>1. Rest(S.req[r]) BY <1>8, <1>12, <2>3 DEF Steady
    <3>2. Rest(D.req[r]) BY <1>2, <1>5, <3>1, SameWorkRests
    <3> QED BY <1>10, <2>3, <3>2 DEF AllEnd
  <2> QED BY <2>2, <2>3
<1>13. GivesUp(S, T, d) BY <1>6, <1>10, <1>11, <1>12 DEF GivesUp, AllEnd
<1> QED BY <1>1, <1>13

\* T is S after every live request ended.
ShutsDown(S, T, d) ==
    /\ Control(T, d) /\ Quiet(S, T) /\ T.inflight = S.inflight /\ T.next = S.next
    /\ \A r \in RequestIds : T.req[r].state \notin Live
    /\ KeepsRest(S, T)

\* Shutting down ends every live request.
LEMMA ShutDownControl ==
    ASSUME NEW S, NEW d, Control(S, d)
    PROVE  ShutsDown(S, ShutDown(S), d)
<1> DEFINE rs == Reverse(S.requests)
           F == FinishAll(S, rs, "cancelled")
           D == DropPrefixCacheEntries(F)
           T == [D EXCEPT !.accepting = FALSE]
<1>1. ShutDown(S) = T BY DEF ShutDown
<1>2. rs \in Seq(RequestIds) /\ IsInjectiveSeq(rs) /\ ToSet(rs) = LiveRequests(S)
  BY ReverseInjective DEF Control, Queues, LiveRequests
<1>3. "cancelled" \in Reasons BY DEF Reasons
<1> HIDE DEF rs
<1>4. AllEnd(S, F, d, rs) BY <1>2, <1>3, FinishAllControl
<1> HIDE DEF F
<1>5. \A r \in RequestIds : F.req[r].state \notin Live
  <2>1. \A r \in RequestIds : r \in ToSet(rs) \/ S.req[r].state \notin Live BY <1>2, LiveIs
  <2> QED BY <1>4, <2>1, StatesAre DEF AllEnd
<1>6. Drifts(F, D) /\ \A r \in RequestIds : SameWork(F.req[r], D.req[r])
  <2>1. Shape(F) BY <1>4 DEF Control, AllEnd
  <2> QED BY <2>1, DropDrifts
<1> HIDE DEF D
<1>7. /\ Control(D, d) /\ Quiet(F, D) /\ D.inflight = F.inflight /\ D.next = F.next
      /\ \A r \in RequestIds : D.req[r].state \notin Live
  <2>1. Control(D, d) /\ Quiet(F, D) BY <1>4, <1>6, MovesControl DEF Drifts, AllEnd
  <2>2. \A r \in RequestIds : D.req[r].state \notin Live
    BY <1>5, <1>6, StatesAre DEF Drifts, Moves, Alike
  <2> QED BY <1>6, <2>1, <2>2 DEF Drifts, Moves, SameQueues
<1>8. /\ SchedulerShape(T) /\ T.req = D.req /\ T.inflight = D.inflight /\ T.next = D.next
      /\ T.requests = D.requests /\ T.waiting = D.waiting /\ T.outbox = D.outbox
      /\ SameCounters(D, T)
  BY <1>7 DEF Control, Shape, SchedulerShape, SameCounters
<1> HIDE DEF T
<1>9. Shape(T) BY <1>7, <1>8 DEF Control, Shape
<1>10. Control(T, d)
  <2>1. Accounts(T) BY <1>7, <1>8, AccountsLike DEF Control
  <2> QED BY <1>7, <1>8, <1>9, <2>1 DEF Control, Queues, Reports, PromptsAreSeqs
<1>11. Quiet(S, T) BY <1>4, <1>7, <1>8 DEF Quiet, AllEnd
<1>12. KeepsRest(S, T)
  <2>1. SUFFICES ASSUME NEW r \in RequestIds, Rest(S.req[r]) PROVE Rest(T.req[r])
    BY DEF KeepsRest
  <2>2. Rest(F.req[r]) BY <1>4, <2>1 DEF AllEnd
  <2>3. Rest(D.req[r]) BY <1>6, <2>2, SameWorkRests
  <2> QED BY <1>8, <2>3
<1>13. ShutsDown(S, T, d) BY <1>4, <1>7, <1>8, <1>10, <1>11, <1>12 DEF ShutsDown, AllEnd
<1> QED BY <1>1, <1>13

\* T is S after the requests that have waited longest expired.
Expires(S, T, d) ==
    /\ Control(T, d) /\ Quiet(S, T) /\ T.inflight = S.inflight /\ T.next = S.next
    /\ \A r \in RequestIds : S.req[r].state \in Active => T.req[r] = S.req[r]
    /\ KeepsRest(S, T)

\* Expiring the requests that have waited longest.
LEMMA ExpireWaitingControl ==
    ASSUME NEW S, NEW d, Control(S, d), NEW count \in 0 .. Len(S.waiting)
    PROVE  Expires(S, ExpireWaiting(S, count), d)
<1> DEFINE rs == SubSeq(S.waiting, 1, count)
           T == FinishAll(S, rs, "admission_timeout")
<1>1. ExpireWaiting(S, count) = T BY DEF ExpireWaiting
<1>2. S.waiting \in Seq(RequestIds) /\ Increasing(S.waiting) BY DEF Control, Queues
<1>3. /\ rs \in Seq(RequestIds) /\ DOMAIN rs = 1 .. count
      /\ \A i \in 1 .. count : i \in DOMAIN S.waiting /\ rs[i] = S.waiting[i]
  BY <1>2
<1> HIDE DEF rs
<1>4. IsInjectiveSeq(rs)
  <2>1. RequestIds \subseteq Nat BY DEF RequestIds
  <2>2. S.waiting \in Seq(Nat) BY <1>2, <2>1, SeqWider
  <2>3. IsInjectiveSeq(S.waiting) BY <1>2, <2>2, IncreasingInjective
  <2> QED BY <1>3, <2>3 DEF IsInjectiveSeq
<1>5. \A r \in ToSet(rs) : r \in RequestIds /\ S.req[r].state = "waiting"
  <2>1. \A i \in 1 .. count : rs[i] \in ToSet(S.waiting) /\ rs[i] \in RequestIds
    BY <1>2, <1>3 DEF ToSet
  <2>2. \A i \in 1 .. count : S.req[rs[i]].state = "waiting" BY <2>1 DEF Control, Queues
  <2> QED BY <1>3, <2>1, <2>2 DEF ToSet
<1>6. ToSet(rs) \subseteq LiveRequests(S) BY <1>5, LiveIs, StatesAre
<1>7. "admission_timeout" \in Reasons BY DEF Reasons
<1>8. AllEnd(S, T, d, rs) BY <1>3, <1>4, <1>6, <1>7, FinishAllControl
<1>9. \A r \in RequestIds : S.req[r].state \in Active => r \notin ToSet(rs) BY <1>5, StatesAre
<1> HIDE DEF T
<1>10. KeepsRest(S, T) BY <1>8 DEF KeepsRest, AllEnd
<1>11. Expires(S, T, d) BY <1>8, <1>9, <1>10 DEF Expires, AllEnd
<1> QED BY <1>1, <1>11

-----------------------------------------------------------------------------
(* The calls. *)

\* A request that just came in.
Newcomer(prompt, maxNew, state) ==
    [NoRequest EXCEPT !.state = state, !.prompt = prompt, !.maxNew = maxNew]

IsNewcomer(q, prompt, maxNew, state) ==
    /\ RequestShape(q) /\ q.state = state /\ q.prompt = prompt /\ q.maxNew = maxNew
    /\ q.cursor = 0 /\ q.generated = 0 /\ q.length = 0 /\ q.pending = 0
    /\ q.shared = <<>> /\ q.tip = Root /\ q.linked = TRUE /\ q.deferred = FALSE

\* What such a request starts with.
LEMMA NewcomerIs ==
    ASSUME NEW prompt, NEW maxNew, NEW state
    PROVE  IsNewcomer(Newcomer(prompt, maxNew, state), prompt, maxNew, state)
  BY DEF Newcomer, NoRequest, RequestShape, IsNewcomer

\* It has made no progress yet.
LEMMA NewcomerRests ==
    ASSUME NEW prompt \in Seq(Nat), prompt # <<>>, NEW maxNew \in Nat, maxNew > 0,
           NEW state \in {"admitted", "waiting"}, NEW q, IsNewcomer(q, prompt, maxNew, state)
    PROVE  Rest(q)
<1>1. /\ q.state = state /\ q.prompt = prompt /\ q.maxNew = maxNew /\ q.cursor = 0
      /\ q.generated = 0 /\ q.length = 0 /\ q.pending = 0 /\ q.shared = <<>>
      /\ q.deferred = FALSE
  BY DEF IsNewcomer
<1>2. Asked(q) BY <1>1 DEF Asked
<1>3. <<>> \in Seq(ToSet(<<>>)) /\ Len(<<>>) = 0 OBVIOUS
<1>4. Numbers(q)
  <2>1. q.shared \in Seq(ToSet(q.shared)) BY <1>1, <1>3
  <2>2. q.deferred \in BOOLEAN BY <1>1
  <2>3. q.cursor \in Nat /\ q.generated \in Nat /\ q.length \in Nat BY <1>1
  <2> QED BY <2>1, <2>2, <2>3 DEF Numbers
<1>5. 0 * BlockSize = 0 BY ConfigAssumption
<1>6. Len(prompt) \in Nat /\ 0 < Len(prompt) OBVIOUS
<1>7. /\ state = "admitted" => state \in Active
      /\ state = "waiting" => state \notin Active
  BY StatesAre DEF Active
<1>8. Progress(q, q.state) BY <1>1, <1>3, <1>5, <1>6, <1>7 DEF Progress
<1> QED BY <1>1, <1>2, <1>4, <1>8 DEF Rest

\* T is S with one more request, which waits or was admitted at once.
Submits(S, T, prompt, maxNew) ==
    LET r == S.next
        b == BlocksForLength(MaximumLogicalLength(prompt, maxNew))
    IN  /\ SchedulerShape(T)
        /\ T.next = r + 1 /\ T.requests = Append(S.requests, r)
        /\ T.outbox = S.outbox /\ T.inflight = S.inflight /\ T.index = S.index
        /\ T.accepting = S.accepting /\ T.suspect = S.suspect
        /\ \/ /\ S.waiting = <<>> /\ CanAdmit(S, b)
              /\ T.req = [S.req EXCEPT ![r] = Newcomer(prompt, maxNew, "admitted")]
              /\ T.waiting = S.waiting /\ T.waitingTokens = S.waitingTokens
              /\ T.active = S.active + 1 /\ T.promised = S.promised + b
           \/ /\ T.req = [S.req EXCEPT ![r] = Newcomer(prompt, maxNew, "waiting")]
              /\ T.waiting = Append(S.waiting, r)
              /\ T.waitingTokens = S.waitingTokens + Len(prompt)
              /\ T.active = S.active /\ T.promised = S.promised

\* What submit does, whether it admits the request or lets it wait.
LEMMA SubmitIs ==
    ASSUME NEW prompt, NEW maxNew, Shape(sch), Submit(prompt, maxNew)
    PROVE  /\ Submits(sch, sch', prompt, maxNew)
           /\ sch.next \in RequestIds /\ Callable /\ prompt # <<>> /\ maxNew > 0
           /\ BlocksForLength(MaximumLogicalLength(prompt, maxNew)) <= MaxPromised
           /\ UNCHANGED <<delivered, phase>>
<1> DEFINE r == sch.next
           b == BlocksForLength(MaximumLogicalLength(prompt, maxNew))
           q == Newcomer(prompt, maxNew, "waiting")
           S == [sch EXCEPT !.next = r + 1, !.requests = Append(@, r), !.req[r] = q]
           now == AdmitsAtOnce(sch, b)
           A == [S EXCEPT !.req[r].state = "admitted", !.active = @ + 1,
                          !.promised = @ + Promise(S.req[r])]
           B == [S EXCEPT !.waiting = Append(@, r), !.waitingTokens = @ + Len(prompt)]
<1>1. /\ sch' = IF now THEN A ELSE B
      /\ r \in RequestIds /\ Callable /\ prompt # <<>> /\ maxNew > 0 /\ b <= MaxPromised
      /\ UNCHANGED <<delivered, phase>>
  BY DEF Submit, Newcomer, Admit
<1>2. /\ RequestShape(q) /\ q.prompt = prompt /\ q.maxNew = maxNew
  <2>1. IsNewcomer(q, prompt, maxNew, "waiting") BY NewcomerIs
  <2> HIDE DEF q
  <2> QED BY <2>1 DEF IsNewcomer
<1>3. [q EXCEPT !.state = "admitted"] = Newcomer(prompt, maxNew, "admitted")
  BY DEF Newcomer, NoRequest
<1> HIDE DEF q
<1>4. /\ SchedulerShape(S) /\ S.next = r + 1 /\ S.requests = Append(sch.requests, r)
      /\ S.req = [sch.req EXCEPT ![r] = q]
      /\ S.outbox = sch.outbox /\ S.inflight = sch.inflight /\ S.index = sch.index
      /\ S.accepting = sch.accepting /\ S.suspect = sch.suspect
      /\ S.waiting = sch.waiting /\ S.waitingTokens = sch.waitingTokens
      /\ S.active = sch.active /\ S.promised = sch.promised
  BY DEF Shape, SchedulerShape
<1>5. S.req[r] = q /\ S.req \in [RequestIds -> {S.req[o] : o \in RequestIds}]
  BY <1>1, <1>4 DEF Shape
<1>6. Promise(S.req[r]) = b BY <1>2, <1>5 DEF Promise
<1> HIDE DEF r, b, S
<1>7. CASE now
  <2> HIDE DEF now
  <2>1. /\ SchedulerShape(A) /\ A.next = S.next /\ A.requests = S.requests
        /\ A.req = [S.req EXCEPT ![r] = [q EXCEPT !.state = "admitted"]]
        /\ A.outbox = S.outbox /\ A.inflight = S.inflight /\ A.index = S.index
        /\ A.accepting = S.accepting /\ A.suspect = S.suspect
        /\ A.waiting = S.waiting /\ A.waitingTokens = S.waitingTokens
        /\ A.active = S.active + 1 /\ A.promised = S.promised + b
    BY <1>4, <1>5, <1>6 DEF SchedulerShape
  <2> HIDE DEF A
  <2>2. A.req = [sch.req EXCEPT ![r] = Newcomer(prompt, maxNew, "admitted")]
    BY <1>1, <1>3, <1>4, <2>1 DEF Shape
  <2>3. sch.waiting = <<>> /\ CanAdmit(sch, b) BY <1>7 DEF AdmitsAtOnce, now
  <2>4. sch' = A BY <1>1, <1>7
  <2>5. Submits(sch, A, prompt, maxNew) BY <1>4, <2>1, <2>2, <2>3 DEF Submits, r, b
  <2> QED BY <1>1, <2>4, <2>5 DEF r, b
<1>8. CASE ~now
  <2> HIDE DEF now
  <2>1. /\ SchedulerShape(B) /\ B.next = S.next /\ B.requests = S.requests
        /\ B.req = S.req
        /\ B.outbox = S.outbox /\ B.inflight = S.inflight /\ B.index = S.index
        /\ B.accepting = S.accepting /\ B.suspect = S.suspect
        /\ B.waiting = Append(S.waiting, r) /\ B.waitingTokens = S.waitingTokens + Len(prompt)
        /\ B.active = S.active /\ B.promised = S.promised
    BY <1>4 DEF SchedulerShape
  <2> HIDE DEF B
  <2>2. B.req = [sch.req EXCEPT ![r] = Newcomer(prompt, maxNew, "waiting")]
    BY <1>4, <2>1 DEF q
  <2>3. sch' = B BY <1>1, <1>8
  <2>4. Submits(sch, B, prompt, maxNew) BY <1>4, <2>1, <2>2 DEF Submits, r, b
  <2> QED BY <1>1, <2>3, <2>4 DEF r, b
<1> QED BY <1>7, <1>8

\* A new request joins the queues behind every other.
LEMMA SubmitsControl ==
    ASSUME NEW S, NEW d, Control(S, d), NEW prompt \in Seq(Nat), NEW maxNew \in Nat,
           prompt # <<>>, maxNew > 0,
           S.next \in RequestIds, NEW T, Submits(S, T, prompt, maxNew)
    PROVE  /\ Control(T, d) /\ InOrder(S, T) /\ T.inflight = S.inflight
           /\ \A o \in RequestIds \ {S.next} : T.req[o] = S.req[o]
           /\ S.req[S.next].state = "unborn" /\ T.req[S.next].state \in {"admitted", "waiting"}
           /\ Rest(T.req[S.next])
<1> DEFINE r == S.next
<1>1. PICK state \in {"admitted", "waiting"} :
        /\ T.req = [S.req EXCEPT ![r] = Newcomer(prompt, maxNew, state)]
        /\ state = "admitted" => T.waiting = S.waiting /\ S.waiting = <<>>
        /\ state = "waiting" => T.waiting = Append(S.waiting, r)
  BY DEF Submits
<1>2. /\ SchedulerShape(T) /\ T.next = r + 1 /\ T.requests = Append(S.requests, r)
      /\ T.outbox = S.outbox /\ T.inflight = S.inflight
  BY DEF Submits
<1>3. ASSUME NEW o \in RequestIds
      PROVE  /\ S.req[o].state \in States /\ (S.req[o].state = "unborn" <=> o >= S.next)
             /\ (o \in ToSet(S.requests) <=> S.req[o].state \in Live)
             /\ (o \in ToSet(S.waiting) <=> S.req[o].state = "waiting")
             /\ d[o] + Events(S.outbox, o) = IF S.req[o].state \in Terminal THEN 1 ELSE 0
             /\ RequestShape(S.req[o]) /\ S.req[o].prompt \in Seq(Nat)
  BY DEF Control, Queues, Reports, Shape, PromptsAreSeqs
<1>4. r \in Nat /\ S.next = r /\ r \in RequestIds BY DEF RequestIds
<1>5. S.req[r].state = "unborn" BY <1>3, <1>4
<1> HIDE DEF r
<1>6. r \notin ToSet(S.requests) /\ r \notin ToSet(S.waiting) BY <1>3, <1>4, <1>5, StatesAre
<1>7. /\ T.req = [o \in RequestIds |-> T.req[o]]
      /\ T.req[r] = Newcomer(prompt, maxNew, state)
      /\ \A o \in RequestIds \ {r} : T.req[o] = S.req[o]
  BY <1>1, <1>4 DEF Control, Shape
<1>8. T.req[r].state = state /\ T.req[r].prompt = prompt /\ RequestShape(T.req[r])
  <2>1. IsNewcomer(T.req[r], prompt, maxNew, state) BY <1>7, NewcomerIs
  <2> QED BY <2>1 DEF IsNewcomer
<1>9. Shape(T) /\ PromptsAreSeqs(T)
  <2>1. \A o \in RequestIds : RequestShape(T.req[o]) /\ T.req[o].prompt \in Seq(Nat)
    BY <1>3, <1>7, <1>8
  <2> QED BY <1>2, <1>7, <2>1 DEF Shape, PromptsAreSeqs
<1>10. /\ T.requests \in Seq(RequestIds) /\ IsInjectiveSeq(T.requests)
       /\ ToSet(T.requests) = ToSet(S.requests) \cup {r}
  BY <1>2, <1>4, <1>6, AppendIs DEF Control, Queues
<1>11. \A e \in ToSet(S.waiting) : e \in Nat /\ e < r
  <2>1. S.waiting \in Seq(RequestIds) BY DEF Control, Queues
  <2>2. \A e \in ToSet(S.waiting) : e \in RequestIds BY <2>1 DEF ToSet
  <2>3. \A e \in ToSet(S.waiting) : ~(e >= S.next) /\ e \in Nat
    BY <1>3, <2>2 DEF RequestIds
  <2> QED BY <1>4, <2>3
<1>12. /\ T.waiting \in Seq(RequestIds) /\ Increasing(T.waiting)
       /\ \A o \in RequestIds : o \in ToSet(T.waiting) <=>
              o \in ToSet(S.waiting) \/ (o = r /\ state = "waiting")
  <2>1. S.waiting \in Seq(RequestIds) /\ Increasing(S.waiting) BY DEF Control, Queues
  <2>2. CASE state = "admitted" BY <1>1, <2>1, <2>2
  <2>3. CASE state = "waiting"
    <3>1. T.waiting = Append(S.waiting, r) BY <1>1, <2>3
    <3>2. /\ Append(S.waiting, r) \in Seq(RequestIds) /\ Increasing(Append(S.waiting, r))
          /\ ToSet(Append(S.waiting, r)) = ToSet(S.waiting) \cup {r}
      BY <1>4, <1>11, <2>1, AppendIs
    <3> QED BY <2>3, <3>1, <3>2
  <2> QED BY <1>1, <2>2, <2>3
<1>13. state \in Live /\ state \in States /\ state \notin Terminal /\ state # "unborn"
  BY <1>1, StatesAre DEF Live, Active, States, Terminal
<1>14. ASSUME NEW o \in RequestIds
       PROVE  /\ T.req[o].state \in States /\ (T.req[o].state = "unborn" <=> o >= r + 1)
              /\ (o \in ToSet(T.requests) <=> T.req[o].state \in Live)
              /\ (o \in ToSet(T.waiting) <=> T.req[o].state = "waiting")
              /\ d[o] + Events(S.outbox, o) = IF T.req[o].state \in Terminal THEN 1 ELSE 0
  <2>1. CASE o = r
    <3>1. ~(o >= r + 1) BY <1>4, <2>1
    <3>2. d[o] + Events(S.outbox, o) = 0 BY <1>3, <1>5, <2>1, StatesAre
    <3> QED BY <1>6, <1>8, <1>10, <1>12, <1>13, <2>1, <3>1, <3>2
  <2>2. CASE o # r
    <3>1. (o >= r + 1) <=> (o >= S.next) BY <1>4, <2>2 DEF RequestIds
    <3> QED BY <1>3, <1>7, <1>10, <1>12, <2>2, <3>1
  <2> QED BY <2>1, <2>2
<1>15. T.next \in 1 .. MaxRequests + 1 BY SMTT(30), <1>2, <1>4, ConfigAssumption DEF RequestIds
<1>16. Queues(T) BY <1>2, <1>10, <1>12, <1>14, <1>15 DEF Queues
<1>17. Reports(T, d) BY <1>2, <1>14 DEF Control, Reports
<1>18. InOrder(S, T)
  <2>1. SUFFICES ASSUME NEW o \in RequestIds, NEW later \in RequestIds, o < later,
                        T.req[o].state = "waiting", T.req[later].state \in Active
                 PROVE  S.req[later].state \in Active
    BY DEF InOrder
  <2>2. CASE later = r
    <3>1. state = "admitted" BY <1>1, <1>8, <2>1, <2>2, StatesAre
    <3>2. S.waiting = <<>> BY <1>1, <3>1
    <3>3. ToSet(S.waiting) = {} BY <3>2 DEF ToSet
    <3>4. o \in ToSet(T.waiting) BY <1>14, <2>1
    <3>5. FALSE BY <1>12, <3>1, <3>3, <3>4
    <3> QED BY <3>5
  <2>3. CASE later # r BY <1>7, <2>1, <2>3
  <2> QED BY <2>2, <2>3
<1>19. Accounts(T)
  <2>1. Accounts(S) BY DEF Control
  <2>2. T.req[r].maxNew = maxNew
    <3>1. IsNewcomer(T.req[r], prompt, maxNew, state) BY <1>7, NewcomerIs
    <3> QED BY <3>1 DEF IsNewcomer
  <2>3. Asked(T.req[r]) BY <1>8, <2>2 DEF Asked
  <2>4. ButFor(S, T, r) BY <1>7, <2>1, <2>3 DEF ButFor, Accounts
  <2>5. S.req[r].state \notin Active /\ S.req[r].state # "waiting" BY <1>5, StatesAre
  <2>6. Promise(T.req[r]) = BlocksForLength(MaximumLogicalLength(prompt, maxNew))
    BY <1>8, <2>2 DEF Promise
  <2>7. \/ /\ state = "admitted" /\ CanAdmit(S, Promise(T.req[r]))
           /\ T.waitingTokens = S.waitingTokens
           /\ T.active = S.active + 1 /\ T.promised = S.promised + Promise(T.req[r])
        \/ /\ state = "waiting"
           /\ T.waitingTokens = S.waitingTokens + Len(T.req[r].prompt)
           /\ T.active = S.active /\ T.promised = S.promised
    <3>1. T.req[r] = Newcomer(prompt, maxNew, "admitted") => state = "admitted"
      <4>1. IsNewcomer(Newcomer(prompt, maxNew, "admitted"), prompt, maxNew, "admitted") BY NewcomerIs
      <4> QED BY <1>8, <4>1 DEF IsNewcomer
    <3>2. T.req[r] = Newcomer(prompt, maxNew, "waiting") => state = "waiting"
      <4>1. IsNewcomer(Newcomer(prompt, maxNew, "waiting"), prompt, maxNew, "waiting") BY NewcomerIs
      <4> QED BY <1>8, <4>1 DEF IsNewcomer
    <3>3. \/ /\ T.req[r] = Newcomer(prompt, maxNew, "admitted")
             /\ CanAdmit(S, BlocksForLength(MaximumLogicalLength(prompt, maxNew)))
             /\ T.waitingTokens = S.waitingTokens /\ T.active = S.active + 1
             /\ T.promised = S.promised + BlocksForLength(MaximumLogicalLength(prompt, maxNew))
          \/ /\ T.req[r] = Newcomer(prompt, maxNew, "waiting")
             /\ T.waitingTokens = S.waitingTokens + Len(prompt)
             /\ T.active = S.active /\ T.promised = S.promised
      <4>1. S.req = [o \in RequestIds |-> S.req[o]] BY DEF Control, Shape
      <4> QED BY <1>4, <4>1 DEF Submits, r
    <3> QED BY <1>8, <2>6, <3>1, <3>2, <3>3
  <2>8. CASE state = "admitted"
    <3>1. "admitted" \in Active /\ "admitted" # "waiting" BY DEF Active
    <3>2. T.active = S.active + 1 /\ T.promised = S.promised + Promise(T.req[r])
          /\ CanAdmit(S, Promise(T.req[r])) /\ T.waitingTokens = S.waitingTokens
      BY <2>7, <2>8
    <3>3. /\ T.active = Cardinality(StateIn(T, Active))
          /\ T.promised = Part(PromiseOf(T), StateIn(T, Active))
      BY <1>4, <1>8, <2>1, <2>4, <2>5, <2>8, <3>1, <3>2, JoinsActive
    <3>4. T.waitingTokens = Part(LengthOf(T), StateIn(T, {"waiting"}))
      BY <1>4, <1>8, <2>1, <2>4, <2>5, <2>8, <3>1, <3>2, KeepsWaiting
    <3>5. T.promised <= MaxPromised BY <3>2 DEF CanAdmit
    <3> QED BY <2>4, <3>3, <3>4, <3>5 DEF Accounts, ButFor
  <2>9. CASE state = "waiting"
    <3>1. T.req[r].state \notin Active BY <1>8, <2>9, StatesAre
    <3>2. T.active = S.active /\ T.promised = S.promised
          /\ T.waitingTokens = S.waitingTokens + Len(T.req[r].prompt)
      BY <2>7, <2>9
    <3>3. /\ T.active = Cardinality(StateIn(T, Active))
          /\ T.promised = Part(PromiseOf(T), StateIn(T, Active))
      BY <1>4, <2>1, <2>4, <2>5, <3>1, <3>2, KeepsActive
    <3>4. T.waitingTokens = Part(LengthOf(T), StateIn(T, {"waiting"}))
      BY <1>4, <1>8, <2>1, <2>4, <2>5, <2>9, <3>2, JoinsWaiting
    <3>5. T.promised <= MaxPromised BY <2>1, <3>2 DEF Accounts
    <3> QED BY <2>4, <3>3, <3>4, <3>5 DEF Accounts, ButFor
  <2> QED BY <1>1, <2>8, <2>9
<1>20. Rest(T.req[r])
  <2>1. IsNewcomer(T.req[r], prompt, maxNew, state) BY <1>7, NewcomerIs
  <2> QED BY <1>1, <2>1, NewcomerRests
<1> QED BY <1>1, <1>2, <1>5, <1>7, <1>8, <1>9, <1>16, <1>17, <1>18, <1>19, <1>20 DEF Control, r

\* The outbox of S reaches the caller.
Emptying(S, X) == [S EXCEPT !.outbox = <<>>, !.suspect = X]

Received(S, d) == [r \in RequestIds |-> d[r] + Events(S.outbox, r)]

\* Delivering the outbox keeps every request reported once.
LEMMA DeliveredControl ==
    ASSUME NEW S, NEW d, Control(S, d), NEW X
    PROVE  /\ Control(Emptying(S, X), Received(S, d))
           /\ Emptying(S, X).req = S.req /\ Emptying(S, X).inflight = S.inflight
           /\ Emptying(S, X).next = S.next /\ Emptying(S, X).outbox = <<>>
<1> DEFINE T == Emptying(S, X)
           e == Received(S, d)
<1>1. /\ SchedulerShape(T) /\ T.req = S.req /\ T.inflight = S.inflight /\ T.next = S.next
      /\ T.requests = S.requests /\ T.waiting = S.waiting /\ T.outbox = <<>>
      /\ SameCounters(S, T)
  BY DEF Control, Shape, SchedulerShape, Emptying, SameCounters
<1> HIDE DEF T
<1>2. ASSUME NEW r \in RequestIds
      PROVE  /\ e[r] = d[r] + Events(S.outbox, r) /\ e[r] \in Nat
             /\ e[r] + Events(T.outbox, r) = IF S.req[r].state \in Terminal THEN 1 ELSE 0
  <2>1. d[r] + Events(S.outbox, r) = IF S.req[r].state \in Terminal THEN 1 ELSE 0
    BY DEF Control, Reports
  <2>2. e[r] = d[r] + Events(S.outbox, r) BY DEF Received
  <2>3. Events(T.outbox, r) = 0 BY <1>1, EventsNone
  <2> HIDE DEF e
  <2> QED BY <2>1, <2>2, <2>3
<1>3. e \in [RequestIds -> Nat]
  <2>1. e = [r \in RequestIds |-> e[r]] BY DEF Received
  <2> HIDE DEF e
  <2> QED BY <1>2, <2>1
<1> HIDE DEF e
<1>4. T.outbox \in Seq(Notifications) BY <1>1
<1>5. Reports(T, e) BY <1>1, <1>2, <1>3, <1>4 DEF Reports
<1>6. Shape(T) BY <1>1 DEF Control, Shape
<1>7. Queues(T) /\ PromptsAreSeqs(T) /\ Accounts(T)
  BY <1>1, AccountsLike DEF Control, Queues, PromptsAreSeqs
<1> QED BY <1>1, <1>5, <1>6, <1>7 DEF Control, T, e

\* Deliver empties the outbox and counts what was in it.
LEMMA DeliverIs ==
    ASSUME NEW S, Deliver(S)
    PROVE  /\ sch' = Emptying(S, S.suspect \cap SharedBlocks(S))
           /\ delivered' = Received(S, delivered)
  BY DEF Deliver, Emptying, Received, Events
-----------------------------------------------------------------------------
(* The invariant of the queues, the plan and the reports. *)

\* A successful close has reported every request.
ClosedReported ==
    phase = "closed" => \A r \in RequestIds : r < sch.next => delivered[r] = 1

IInv == Control(sch, delivered) /\ Planned(sch) /\ Steady(sch) /\ ClosedReported

\* A plan stays one while its requests stay active.
LEMMA PlannedKept ==
    ASSUME NEW S, NEW T, Planned(S), T.inflight = S.inflight,
           \A i \in DOMAIN S.inflight : T.req[S.inflight[i].id].state \in Active
    PROVE  Planned(T)
  BY DEF Planned

\* No items are a plan.
LEMMA PlannedEmpty ==
    ASSUME NEW T, T.inflight = <<>>
    PROVE  Planned(T)
<1>1. DOMAIN T.inflight = {} OBVIOUS
<1>2. T.inflight \in Seq(ToSet(T.inflight)) OBVIOUS
<1> QED BY <1>1, <1>2 DEF Planned

\* Without a plan, every request is at rest.
LEMMA SteadyEmpty ==
    ASSUME NEW S, S.inflight = <<>>
    PROVE  Steady(S) <=> AllRest(S)
<1>1. DOMAIN S.inflight = {} OBVIOUS
<1>2. Inflight(S) = {} BY <1>1 DEF Inflight
<1> QED BY <1>1, <1>2 DEF Steady, AllRest

\* What a step must leave of the requests.
LEMMA SteadyKept ==
    ASSUME NEW S, NEW T, Steady(S), T.inflight = S.inflight,
           \A i \in DOMAIN S.inflight :
               LET r == S.inflight[i].id
               IN  Busy(S.req[r], S.inflight[i]) => Busy(T.req[r], S.inflight[i]),
           \A r \in RequestIds \ Inflight(S) : Rest(S.req[r]) => Rest(T.req[r])
    PROVE  Steady(T)
<1>1. Inflight(T) = Inflight(S) BY DEF Inflight
<1> QED BY <1>1 DEF Steady

\* Steps that admit nobody, before or after, keep the order of admission.
LEMMA InOrderQuiet ==
    ASSUME NEW S, NEW T, NEW U
    PROVE  /\ Quiet(S, T) => InOrder(S, T)
           /\ Quiet(S, T) /\ InOrder(T, U) => InOrder(S, U)
           /\ InOrder(S, T) /\ Quiet(T, U) => InOrder(S, U)
           /\ Quiet(S, T) /\ Quiet(T, U) => Quiet(S, U)
<1>1. Quiet(S, T) => InOrder(S, T) BY DEF Quiet, InOrder
<1>2. Quiet(S, T) /\ InOrder(T, U) => InOrder(S, U) BY DEF Quiet, InOrder
<1>3. InOrder(S, T) /\ Quiet(T, U) => InOrder(S, U) BY DEF Quiet, InOrder
<1>4. Quiet(S, T) /\ Quiet(T, U) => Quiet(S, U) BY DEF Quiet
<1> QED BY <1>1, <1>2, <1>3, <1>4

\* What a call leaves when the outbox reaches the caller.
LEMMA DeliverControl ==
    ASSUME NEW S, Control(S, delivered), Planned(S), Deliver(S)
    PROVE  /\ Control(sch', delivered') /\ Planned(sch')
           /\ sch'.req = S.req /\ sch'.next = S.next /\ sch'.outbox = <<>>
           /\ Steady(S) => Steady(sch')
           /\ \A T : /\ InOrder(T, S) => InOrder(T, sch')
                     /\ Quiet(T, S) => InOrder(T, sch')
<1> DEFINE X == S.suspect \cap SharedBlocks(S)
<1>1. sch' = Emptying(S, X) /\ delivered' = Received(S, delivered) BY DeliverIs
<1> HIDE DEF X
<1>2. /\ Control(sch', delivered') /\ sch'.req = S.req /\ sch'.inflight = S.inflight
      /\ sch'.next = S.next /\ sch'.outbox = <<>>
  BY <1>1, DeliveredControl
<1>3. \A i \in DOMAIN S.inflight : sch'.req[S.inflight[i].id].state \in Active
  BY <1>2 DEF Planned
<1>4. Planned(sch')
  <2>1. PICK T : T = sch' OBVIOUS
  <2>2. Planned(T) BY <1>2, <1>3, <2>1, PlannedKept
  <2> QED BY <2>1, <2>2
<1>5. ASSUME NEW T
      PROVE  /\ InOrder(T, S) => InOrder(T, sch')
             /\ Quiet(T, S) => InOrder(T, sch')
  BY <1>2 DEF InOrder, Quiet
<1>6. Steady(S) => Steady(sch')
  <2>1. PICK T : T = sch' OBVIOUS
  <2>2. Steady(S) => Steady(T) BY <1>2, <2>1, SteadyKept
  <2> QED BY <2>1, <2>2
<1> QED BY <1>2, <1>4, <1>5, <1>6

-----------------------------------------------------------------------------
(* Every call keeps it, and admits in order. *)

\* submit keeps the invariant.
LEMMA SubmitKeeps ==
    ASSUME IInv, NEW prompt \in Prompts, NEW maxNew \in MaxNewTokens, Submit(prompt, maxNew)
    PROVE  IInv' /\ InOrder(sch, sch')
<1>1. Shape(sch) BY DEF IInv, Control
<1>2. /\ Submits(sch, sch', prompt, maxNew) /\ sch.next \in RequestIds
      /\ prompt # <<>> /\ maxNew > 0
      /\ UNCHANGED <<delivered, phase>> /\ phase = "open"
  BY <1>1, SubmitIs DEF Callable
<1>3. prompt \in Seq(Nat) /\ maxNew \in Nat BY ConfigAssumption
<1>4. /\ Control(sch', delivered) /\ InOrder(sch, sch') /\ sch'.inflight = sch.inflight
      /\ \A o \in RequestIds \ {sch.next} : sch'.req[o] = sch.req[o]
      /\ sch.req[sch.next].state = "unborn" /\ Rest(sch'.req[sch.next])
  <2>1. Control(sch, delivered) BY DEF IInv
  <2> QED BY <1>2, <1>3, <2>1, SubmitsControl
<1>5. ASSUME NEW i \in DOMAIN sch.inflight
      PROVE  sch'.req[sch.inflight[i].id].state \in Active
  <2>1. sch.inflight[i].id \in RequestIds /\ sch.req[sch.inflight[i].id].state \in Active
    BY DEF IInv, Planned
  <2>2. sch.inflight[i].id # sch.next BY <1>4, <2>1, StatesAre
  <2> QED BY <1>4, <2>1, <2>2
<1>6. Planned(sch') BY <1>4, <1>5, PlannedKept DEF IInv
<1>7. Steady(sch')
  <2>1. ASSUME NEW i \in DOMAIN sch.inflight
        PROVE  sch'.req[sch.inflight[i].id] = sch.req[sch.inflight[i].id]
    <3>1. sch.inflight[i].id \in RequestIds /\ sch.req[sch.inflight[i].id].state \in Active
      BY DEF IInv, Planned
    <3>2. sch.inflight[i].id # sch.next BY <1>4, <3>1, StatesAre
    <3> QED BY <1>4, <3>1, <3>2
  <2>2. \A r \in RequestIds : Rest(sch.req[r]) => Rest(sch'.req[r]) BY <1>4
  <2>3. PICK T : T = sch' OBVIOUS
  <2>4. Steady(T) BY <1>4, <2>1, <2>2, <2>3, SteadyKept DEF IInv
  <2> QED BY <2>3, <2>4
<1> QED BY <1>2, <1>4, <1>6, <1>7 DEF IInv, ClosedReported

\* What plan_iteration does before it selects.
Refreshes(S, T, d) ==
    /\ Control(T, d) /\ InOrder(S, T) /\ T.inflight = <<>> /\ T.next = S.next
    /\ KeepsRest(S, T)

\* Admitting leaves requests at rest.
LEMMA AdmittingRests ==
    ASSUME NEW S, NEW T, NEW d, Shape(S), Admitting(S, T, d)
    PROVE  KeepsRest(S, T)
<1> SUFFICES ASSUME NEW r \in RequestIds, Rest(S.req[r]) PROVE Rest(T.req[r])
  BY DEF KeepsRest
<1>1. CASE T.req[r] = S.req[r] BY <1>1
<1>2. CASE S.req[r].state = "waiting" /\ T.req[r] = [S.req[r] EXCEPT !.state = "admitted"]
  <2> DEFINE p == S.req[r]
             q == [p EXCEPT !.state = "admitted"]
  <2>1. RequestShape(p) BY DEF Shape
  <2> HIDE DEF p
  <2>2. /\ q.state = "admitted" /\ q.prompt = p.prompt /\ q.maxNew = p.maxNew
        /\ q.cursor = p.cursor /\ q.generated = p.generated /\ q.length = p.length
        /\ q.shared = p.shared /\ q.pending = p.pending /\ q.deferred = p.deferred
    BY <2>1 DEF RequestShape
  <2> HIDE DEF q
  <2>3. Rest(p) /\ p.state = "waiting" BY <1>2 DEF p
  <2>4. Rest(q) BY <2>2, <2>3, AdmittedRests
  <2> QED BY <1>2, <2>4 DEF p, q
<1> QED BY <1>1, <1>2 DEF Admitting

\* Expiring, admitting and adopting keep the queues and the order.
LEMMA RefreshedControl ==
    ASSUME NEW S, NEW d, Control(S, d), S.inflight = <<>>, NEW expired \in 0 .. Len(S.waiting)
    PROVE  Refreshes(S, Refreshed(S, expired), d)
<1> DEFINE A == ExpireWaiting(S, expired)
           B == AdmitWaiting(A)
           C == AdoptCachedPrefixes(B)
<1>1. /\ Control(A, d) /\ Quiet(S, A) /\ A.inflight = <<>> /\ A.next = S.next
      /\ KeepsRest(S, A)
  <2>1. Expires(S, A, d) BY ExpireWaitingControl
  <2> HIDE DEF A
  <2> QED BY <2>1 DEF Expires
<1> HIDE DEF A
<1>2. /\ Control(B, d) /\ InOrder(A, B) /\ B.inflight = <<>> /\ B.next = S.next
      /\ KeepsRest(A, B)
  <2>1. Admitting(A, B, d) BY <1>1, AdmitWaitingControl
  <2> HIDE DEF B
  <2>2. KeepsRest(A, B) BY <1>1, <2>1, AdmittingRests DEF Control
  <2> QED BY <1>1, <2>1, <2>2 DEF Admitting
<1> HIDE DEF B
<1>3. Drifts(B, C) /\ KeepsRest(B, C)
  <2>1. Shape(B) /\ PromptsAreSeqs(B) /\ B.requests \in Seq(RequestIds)
    BY <1>2 DEF Control, Queues
  <2> QED BY <2>1, AdoptCachedPrefixesDrifts
<1> HIDE DEF C
<1>4. Moves(B, C) /\ C.inflight = <<>> /\ C.next = S.next
  BY <1>2, <1>3 DEF Drifts, Moves, SameQueues
<1>5. Control(C, d) /\ Quiet(B, C) BY <1>2, <1>4, MovesControl
<1>6. InOrder(S, C) BY <1>1, <1>2, <1>5, InOrderQuiet
<1>7. Refreshed(S, expired) = C BY DEF Refreshed, A, B, C
<1>8. KeepsRest(S, C) BY <1>1, <1>2, <1>3 DEF KeepsRest
<1> QED BY <1>4, <1>5, <1>6, <1>7, <1>8 DEF Refreshes

\* The plan of a selection, or the start of one.
Prepares(S, T, d) ==
    /\ Control(T, d) /\ Quiet(S, T) /\ T.next = S.next
    /\ \A r \in RequestIds : [T.req[r] EXCEPT !.pending = 0] = [S.req[r] EXCEPT !.pending = 0]

\* Requests at rest whose plan could not be made are at rest again.
LEMMA RolledBackSteady ==
    ASSUME NEW S, NEW T, NEW d, Shape(S), AllRest(S), Prepares(S, T, d), NEW U,
           \A r \in RequestIds : U.req[r] = [T.req[r] EXCEPT !.pending = 0]
    PROVE  AllRest(U)
<1> SUFFICES ASSUME NEW r \in RequestIds PROVE Rest(U.req[r]) BY DEF AllRest
<1>1. U.req[r] = [S.req[r] EXCEPT !.pending = 0] BY DEF Prepares
<1>2. RequestShape(S.req[r]) /\ Rest(S.req[r]) BY DEF Shape, AllRest
<1> QED BY <1>1, <1>2, UnreservedRests

\* A share of work is positive and stays within the prompt.
LEMMA ShareIs ==
    ASSUME NEW q, Rest(q), q.state \in Active, NEW t \in 1 .. WorkLimit(q)
    PROVE  t \in Nat /\ 1 <= t /\ (q.state # "decoding" => t <= Len(q.prompt) - q.cursor)
<1>1. Len(q.prompt) \in Nat /\ q.cursor \in Nat BY DEF Rest, Asked, Numbers
<1>2. CASE q.state = "decoding" BY <1>2 DEF WorkLimit
<1>3. CASE q.state # "decoding"
  <2> DEFINE left == Len(q.prompt) - q.cursor
             least == Min({left, MaxChunk})
  <2>1. left \in Int /\ MaxChunk \in Nat BY SMTT(30), <1>1, ConfigAssumption
  <2> HIDE DEF left
  <2>2. least \in {left, MaxChunk} /\ least <= left /\ least <= MaxChunk
    <3>1. \E x \in {left, MaxChunk} : \A y \in {left, MaxChunk} : x <= y BY <2>1
    <3> QED BY <3>1 DEF Min
  <2> HIDE DEF least
  <2>3. t \in 1 .. least BY <1>3 DEF WorkLimit, least, left
  <2>4. t \in Nat /\ 1 <= t /\ t <= left BY <2>1, <2>2, <2>3
  <2> QED BY <2>4 DEF left
<1> QED BY <1>2, <1>3

\* ids picks active requests, and tokens gives each a share of its work.
Picks(S, ids, tokens) ==
    /\ ids \in Seq(RequestIds)
    /\ \A i \in 1 .. Len(ids) : /\ S.req[ids[i]].state \in Active
                                /\ tokens[i] \in 1 .. WorkLimit(S.req[ids[i]])

\* U is T after the requests of its plan moved to their working state.
Dispatched(T, U) ==
    /\ U.inflight = T.inflight
    /\ \A r \in RequestIds :
           U.req[r] = IF r \in Inflight(T) THEN Working(T.req[r]) ELSE T.req[r]

\* The requests of a dispatched plan are busy with their items.
LEMMA DispatchedSteady ==
    ASSUME NEW S, Shape(S), AllRest(S), NEW ids, NEW tokens, Picks(S, ids, tokens),
           NEW T, PreparedTo(S, T, ids, tokens, Len(ids)), NEW U, Dispatched(T, U)
    PROVE  Steady(U)
<1>0. /\ ids \in Seq(RequestIds) /\ U.inflight = T.inflight
      /\ \A i \in 1 .. Len(ids) : /\ S.req[ids[i]].state \in Active
                                  /\ tokens[i] \in 1 .. WorkLimit(S.req[ids[i]])
      /\ \A r \in RequestIds :
           U.req[r] = IF r \in Inflight(T) THEN Working(T.req[r]) ELSE T.req[r]
  BY DEF Picks, Dispatched
<1>1. Len(ids) \in Nat /\ DOMAIN T.inflight = 1 .. Len(ids)
  <2>1. T.inflight \in Seq(ToSet(T.inflight)) /\ Len(T.inflight) = Len(ids)
    BY <1>0 DEF PreparedTo
  <2> QED BY <1>0, <2>1
<1>2. ASSUME NEW i \in 1 .. Len(ids)
      PROVE  /\ T.inflight[i].id = ids[i] /\ ids[i] \in RequestIds
             /\ Busy(U.req[T.inflight[i].id], T.inflight[i])
  <2> DEFINE r == ids[i]
             item == WorkItem(S, r, tokens[i])
             q == Working([S.req[r] EXCEPT !.pending = item.target])
  <2>1. r \in RequestIds BY <1>0, <1>1
  <2>2. T.inflight[i] = item /\ T.req[r] = [S.req[r] EXCEPT !.pending = item.target]
    BY DEF PreparedTo
  <2>3. item.id = r BY WorkItemIs
  <2>4. r \in Inflight(T) BY <1>1, <2>2, <2>3 DEF Inflight
  <2>5. U.req[r] = q BY <1>0, <2>1, <2>2, <2>4
  <2>6. Rest(S.req[r]) /\ S.req[r].state \in Active /\ RequestShape(S.req[r])
    BY <1>0, <2>1 DEF AllRest, Shape
  <2>7. /\ tokens[i] \in Nat /\ 1 <= tokens[i]
        /\ S.req[r].state # "decoding" => tokens[i] <= Len(S.req[r].prompt) - S.req[r].cursor
    BY <1>0, <2>6, ShareIs
  <2>8. Busy(q, item) BY <2>6, <2>7, PickedIsBusy
  <2> HIDE DEF item, q
  <2> QED BY <2>1, <2>2, <2>3, <2>5, <2>8
<1>3. ASSUME NEW r \in RequestIds \ Inflight(U)
      PROVE  Rest(U.req[r])
  <2>1. Inflight(U) = Inflight(T) BY <1>0 DEF Inflight
  <2>2. \A i \in 1 .. Len(ids) : ids[i] # r BY <1>1, <1>2, <2>1 DEF Inflight
  <2>3. U.req[r] = S.req[r] BY <1>0, <2>1, <2>2 DEF PreparedTo
  <2> QED BY <2>3 DEF AllRest
<1> QED BY <1>0, <1>1, <1>2, <1>3 DEF Steady

\* prepare_plan keeps the queues, and its plan is one.
LEMMA PrepareControl ==
    ASSUME NEW S, NEW d, Control(S, d), S.inflight = <<>>,
           NEW ids \in SetToAllKPermutations(Ready(S)), NEW tokens, NEW m \in 0 .. Len(ids)
    PROVE  /\ Prepares(S, Prepare(S, ids, tokens, m), d)
           /\ m = Len(ids) => Planned(Prepare(S, ids, tokens, m))
           /\ m = Len(ids) /\ AllRest(S) /\ Selection(S, ids, tokens)
                => Steady(Dispatch(Prepare(S, ids, tokens, m)))
<1>1. /\ ids \in Seq(RequestIds) /\ IsInjectiveSeq(ids)
      /\ \A i \in 1 .. Len(ids) : S.req[ids[i]].state \in Active
  <2>1. Ready(S) \subseteq RequestIds BY LiveIs DEF Ready
  <2>2. /\ ids \in Seq(RequestIds) /\ IsInjectiveSeq(ids)
        /\ \A i \in 1 .. Len(ids) : ids[i] \in Ready(S)
    BY <2>1, SelectionIs
  <2> QED BY <2>2 DEF Ready
<1>2. Shape(S) BY DEF Control
<1> DEFINE T == Prepare(S, ids, tokens, m)
<1>3. PreparedTo(S, T, ids, tokens, m) BY <1>1, <1>2, PrepareIs
<1> HIDE DEF T
<1>4. Moves(S, T) BY <1>3 DEF PreparedTo
<1>5. Prepares(S, T, d)
  <2>1. Control(T, d) /\ Quiet(S, T) BY <1>4, MovesControl
  <2>2. T.next = S.next BY <1>4 DEF Moves, SameQueues
  <2>3. ASSUME NEW r \in RequestIds
        PROVE  [T.req[r] EXCEPT !.pending = 0] = [S.req[r] EXCEPT !.pending = 0]
    <3>1. CASE \A i \in 1 .. m : ids[i] # r
      <4>1. T.req[r] = S.req[r] BY <1>3, <3>1 DEF PreparedTo
      <4> QED BY <4>1
    <3>2. ASSUME NEW i \in 1 .. m, ids[i] = r
          PROVE  [T.req[r] EXCEPT !.pending = 0] = [S.req[r] EXCEPT !.pending = 0]
      <4> DEFINE t == WorkItem(S, ids[i], tokens[i]).target
      <4>1. T.req[r] = [S.req[r] EXCEPT !.pending = t] BY <1>3, <3>2 DEF PreparedTo
      <4> HIDE DEF t
      <4>2. RequestShape(S.req[r]) BY <1>2 DEF Shape
      <4> QED BY <4>1, <4>2 DEF RequestShape
    <3> QED BY <3>1, <3>2
  <2> QED BY <2>1, <2>2, <2>3 DEF Prepares
<1>6. m = Len(ids) => Planned(T) BY <1>1, <1>2, <1>3, PreparePlans
<1>7. ASSUME m = Len(ids), AllRest(S), Selection(S, ids, tokens)
      PROVE  Steady(Dispatch(T))
  <2>1. Picks(S, ids, tokens)
    <3>1. DOMAIN ids = 1 .. Len(ids) BY <1>1
    <3> QED BY <1>1, <1>7, <3>1 DEF Selection, Picks
  <2>2. Shape(T) BY <1>5 DEF Prepares, Control
  <2>3. \A r \in Inflight(T) : r \in RequestIds => T.req[r].state \in Active
    BY <1>6, <1>7 DEF Planned, Inflight
  <2>4. Dispatched(T, Dispatch(T)) BY <2>2, <2>3, DispatchIs DEF Dispatched
  <2>5. PreparedTo(S, T, ids, tokens, Len(ids)) BY <1>3, <1>7
  <2> QED BY <1>2, <1>7, <2>1, <2>4, <2>5, DispatchedSteady
<1> QED BY <1>5, <1>6, <1>7 DEF T

\* plan_iteration, whether its reservations fit or not.
LEMMA PlanIterationKeeps ==
    ASSUME IInv, NEW expired \in 0 .. Len(sch.waiting),
           NEW ids \in SetToAllKPermutations(Ready(Refreshed(sch, expired))), NEW tokens,
           PlanIteration(expired, ids, tokens)
    PROVE  IInv' /\ InOrder(sch, sch')
<1> DEFINE S == Refreshed(sch, expired)
           T == Prepare(S, ids, tokens, Len(ids))
<1>1. /\ sch.inflight = <<>> /\ phase = "open" /\ Selection(S, ids, tokens)
      /\ \/ /\ sch' = RollbackPrepared(T) /\ phase' = "out_of_blocks" /\ delivered' = delivered
         \/ Deliver(Dispatch(T)) /\ phase' = phase
  BY DEF PlanIteration, Callable
<1>2. Control(S, delivered) /\ InOrder(sch, S) /\ S.inflight = <<>> /\ AllRest(S)
  <2>1. Refreshes(sch, S, delivered) BY <1>1, RefreshedControl DEF IInv
  <2>2. AllRest(sch) BY <1>1, SteadyEmpty DEF IInv
  <2> HIDE DEF S
  <2> QED BY <2>1, <2>2 DEF Refreshes, KeepsRest, AllRest
<1>3. Prepares(S, T, delivered) /\ Planned(T) /\ Steady(Dispatch(T))
  <2>1. ids \in SetToAllKPermutations(Ready(S)) OBVIOUS
  <2>2. Len(ids) \in 0 .. Len(ids)
    <3>1. Ready(S) \subseteq RequestIds BY <1>2, LiveIs DEF Ready
    <3>2. Len(ids) \in Nat BY <2>1, <3>1, SelectionIs
    <3> QED BY <3>2
  <2> HIDE DEF S
  <2> QED BY <1>1, <1>2, <2>1, <2>2, PrepareControl
<1> HIDE DEF S, T
<1>4. Control(T, delivered) /\ InOrder(sch, T) /\ Shape(T)
  BY <1>2, <1>3, InOrderQuiet DEF Prepares, Control
<1>5. CASE sch' = RollbackPrepared(T) /\ phase' = "out_of_blocks" /\ delivered' = delivered
  <2>1. Moves(T, sch') /\ sch'.inflight = <<>> BY <1>4, <1>5, RollbackIs
  <2>2. Control(sch', delivered') /\ Quiet(T, sch') BY <1>4, <1>5, <2>1, MovesControl
  <2>3. Planned(sch') BY <2>1, PlannedEmpty
  <2>4. Steady(sch')
    <3>1. PICK U : U = sch' OBVIOUS
    <3>2. \A r \in RequestIds : U.req[r] = [T.req[r] EXCEPT !.pending = 0]
      BY <1>4, <1>5, <3>1, RollbackIs
    <3>3. AllRest(U) BY <1>2, <1>3, <3>2, RolledBackSteady DEF Control
    <3>4. Steady(U) BY <2>1, <3>1, <3>3, SteadyEmpty
    <3> QED BY <3>1, <3>4
  <2> QED BY <1>4, <1>5, <2>2, <2>3, <2>4, InOrderQuiet DEF IInv, ClosedReported
<1>6. CASE Deliver(Dispatch(T)) /\ phase' = phase
  <2> DEFINE U == Dispatch(T)
  <2>1. Moves(T, U) /\ U.inflight = T.inflight
    <3>1. \A r \in Inflight(T) : r \in RequestIds => T.req[r].state \in Active
      BY <1>3 DEF Planned, Inflight
    <3> QED BY <1>4, <3>1, DispatchIs
  <2>2. Deliver(U) /\ Steady(U) BY <1>3, <1>6
  <2> HIDE DEF U
  <2>3. Control(U, delivered) /\ Quiet(T, U) BY <1>4, <2>1, MovesControl
  <2>4. Planned(U)
    <3>1. \A i \in DOMAIN T.inflight : U.req[T.inflight[i].id].state \in Active
      BY <1>3, <2>1 DEF Planned, Moves, Alike
    <3> QED BY <1>3, <2>1, <3>1, PlannedKept
  <2>5. InOrder(sch, U) BY <1>4, <2>3, InOrderQuiet
  <2>6. /\ Control(sch', delivered') /\ Planned(sch') /\ Steady(sch') /\ InOrder(sch, sch')
    BY <2>2, <2>3, <2>4, <2>5, DeliverControl
  <2> QED BY <1>1, <1>6, <2>6 DEF IInv, ClosedReported
<1> QED BY <1>1, <1>5, <1>6

\* plan_iteration that the host cannot finish.
LEMMA PlanIterationFailsKeeps ==
    ASSUME IInv, NEW expired \in 0 .. Len(sch.waiting),
           NEW ids \in SetToAllKPermutations(Ready(Refreshed(sch, expired))), NEW tokens,
           NEW prepared \in 1 .. Len(ids), PlanIterationFails(expired, ids, tokens, prepared)
    PROVE  IInv' /\ InOrder(sch, sch')
<1> DEFINE S == Refreshed(sch, expired)
           T == Prepare(S, ids, tokens, prepared)
<1>1. /\ sch.inflight = <<>> /\ sch' = RollbackPrepared(T)
      /\ phase' = phase /\ delivered' = delivered /\ phase = "open"
  BY DEF PlanIterationFails, Callable
<1>2. Control(S, delivered) /\ InOrder(sch, S) /\ S.inflight = <<>> /\ AllRest(S)
  <2>1. Refreshes(sch, S, delivered) BY <1>1, RefreshedControl DEF IInv
  <2>2. AllRest(sch) BY <1>1, SteadyEmpty DEF IInv
  <2> HIDE DEF S
  <2> QED BY <2>1, <2>2 DEF Refreshes, KeepsRest, AllRest
<1>3. Prepares(S, T, delivered)
  <2>1. ids \in SetToAllKPermutations(Ready(S)) OBVIOUS
  <2> HIDE DEF S
  <2>2. Ready(S) \subseteq RequestIds BY <1>2, LiveIs DEF Ready
  <2>3. Len(ids) \in Nat BY <2>1, <2>2, SelectionIs
  <2>4. prepared \in 0 .. Len(ids) BY <2>3
  <2> QED BY <1>2, <2>1, <2>4, PrepareControl
<1> HIDE DEF S, T
<1>4. Control(T, delivered) /\ InOrder(sch, T) /\ Shape(T)
  BY <1>2, <1>3, InOrderQuiet DEF Prepares, Control
<1>5. Moves(T, sch') /\ sch'.inflight = <<>> BY <1>1, <1>4, RollbackIs
<1>6. Control(sch', delivered') /\ Quiet(T, sch') BY <1>1, <1>4, <1>5, MovesControl
<1>7. Planned(sch') BY <1>5, PlannedEmpty
<1>8. Steady(sch')
  <2>1. PICK U : U = sch' OBVIOUS
  <2>2. \A r \in RequestIds : U.req[r] = [T.req[r] EXCEPT !.pending = 0]
    BY <1>1, <1>4, <2>1, RollbackIs
  <2>3. AllRest(U) BY <1>2, <1>3, <2>2, RolledBackSteady DEF Control
  <2>4. Steady(U) BY <1>5, <2>1, <2>3, SteadyEmpty
  <2> QED BY <2>1, <2>4
<1> QED BY <1>1, <1>4, <1>6, <1>7, <1>8, InOrderQuiet DEF IInv, ClosedReported

\* T is S with its plan committed and taken out.
Commits(S, T) ==
    \A r \in RequestIds :
        T.req[r] = IF r \in Inflight(S)
                   THEN [S.req[r] EXCEPT !.length = S.req[r].pending, !.pending = 0]
                   ELSE S.req[r]

\* A plan that was committed and published leaves every request at rest.
LEMMA CompletedRests ==
    ASSUME NEW S, Shape(S), Planned(S), Steady(S), NEW T, Commits(S, T), NEW U, NEW d,
           SettledTo(T, U, d, S.inflight, Len(S.inflight), "publish")
    PROVE  AllRest(U)
<1> DEFINE items == S.inflight
<1>1. /\ DOMAIN items = 1 .. Len(items)
      /\ \A i \in 1 .. Len(items) : items[i].id \in RequestIds
  BY PlannedSettleable DEF Settleable
<1>2. ASSUME NEW i \in 1 .. Len(items)
      PROVE  Rest(U.req[items[i].id])
  <2> DEFINE r == items[i].id
             q == [S.req[r] EXCEPT !.length = S.req[r].pending, !.pending = 0]
  <2>1. r \in Inflight(S) /\ r \in RequestIds BY <1>1 DEF Inflight
  <2>2. T.req[r] = q BY <2>1 DEF Commits
  <2>3. Busy(S.req[r], items[i]) BY SMTT(30), <1>1 DEF Steady
  <2>4. RequestShape(S.req[r]) BY <2>1 DEF Shape
  <2>5. Half(q, items[i]) BY <2>3, <2>4, CommittedIsHalf
  <2> HIDE DEF q
  <2>6. Way(T.req[r], items[i], "publish") BY <2>2, <2>5 DEF Way
  <2> QED BY <2>6 DEF SettledTo
<1>3. ASSUME NEW r \in RequestIds
      PROVE  Rest(U.req[r])
  <2>1. CASE r \in Inflight(S)
    <3>1. \E i \in 1 .. Len(items) : items[i].id = r BY <1>1, <2>1 DEF Inflight
    <3> QED BY <1>2, <3>1
  <2>2. CASE r \notin Inflight(S)
    <3>1. \A i \in 1 .. Len(items) : items[i].id # r BY <1>1, <2>2 DEF Inflight
    <3>2. U.req[r] = T.req[r] BY <3>1 DEF SettledTo
    <3>3. T.req[r] = S.req[r] /\ Rest(S.req[r]) BY <2>2 DEF Commits, Steady
    <3> QED BY <3>2, <3>3
  <2> QED BY <2>1, <2>2
<1> QED BY <1>3 DEF AllRest

\* complete_iteration.
LEMMA CompleteIterationKeeps ==
    ASSUME IInv, NEW stops, CompleteIteration(stops)
    PROVE  IInv' /\ InOrder(sch, sch')
<1> DEFINE items == sch.inflight
           T == [Committed(sch) EXCEPT !.inflight = <<>>]
           U == PublishAll(T, items, stops)
<1>1. Deliver(U) /\ phase' = phase /\ phase = "open" BY DEF CompleteIteration, Callable
<1>2. Moves(sch, T) /\ T.inflight = <<>> /\ Commits(sch, T)
  <2>1. Shape(sch) BY DEF IInv, Control
  <2> QED BY <2>1, CommittedIs DEF Commits
<1>3. Settleable(sch, items) BY PlannedSettleable DEF IInv
<1> HIDE DEF T
<1>4. Control(T, delivered) /\ Quiet(sch, T) BY <1>2, MovesControl DEF IInv
<1>5. Settleable(T, items) BY <1>2, <1>3 DEF Settleable, Moves, Alike
<1>6. SettledTo(T, U, delivered, items, Len(items), "publish") BY <1>4, <1>5, PublishAllSettles
<1> HIDE DEF U
<1>7. Control(U, delivered) /\ Quiet(T, U) /\ U.inflight = <<>> BY <1>2, <1>6 DEF SettledTo
<1>8. Planned(U) /\ Steady(U)
  <2>1. AllRest(U) BY <1>2, <1>6, CompletedRests DEF IInv, Control
  <2> QED BY <1>7, <2>1, PlannedEmpty, SteadyEmpty
<1>9. InOrder(sch, U) BY <1>4, <1>7, InOrderQuiet
<1>10. Control(sch', delivered') /\ Planned(sch') /\ Steady(sch') /\ InOrder(sch, sch')
  BY <1>1, <1>7, <1>8, <1>9, DeliverControl
<1> QED BY <1>1, <1>10 DEF IInv, ClosedReported

\* complete_iteration when a commit fails.
LEMMA CompleteIterationFaultedKeeps ==
    ASSUME IInv, NEW failed, CompleteIterationFaulted(failed)
    PROVE  IInv' /\ InOrder(sch, sch')
<1> DEFINE items == sch.inflight
           ids   == [i \in DOMAIN items |-> items[i].id]
           A     == [sch EXCEPT !.inflight = <<>>]
           lost  == FinishThose(A, ids, failed, "executor_failure")
           U     == FinishThose(lost, ids, Inflight(sch) \ failed, "executor_failure")
<1>1. Deliver(U) /\ phase' = phase /\ phase = "open" BY DEF CompleteIterationFaulted, Callable
<1>2. Settleable(sch, items) BY PlannedSettleable DEF IInv
<1>3. /\ ids \in Seq(RequestIds) /\ Len(ids) = Len(items) /\ Len(items) \in Nat
      /\ \A i \in 1 .. Len(items) : ids[i] = items[i].id
  <2>1. /\ Len(items) \in Nat /\ DOMAIN items = 1 .. Len(items)
        /\ \A i \in 1 .. Len(items) : items[i].id \in RequestIds
    BY <1>2 DEF Settleable
  <2> QED BY <2>1
<1>4. IsInjectiveSeq(ids)
  <2>1. \A i, j \in 1 .. Len(ids) : ids[i] = ids[j] => i = j BY <1>2, <1>3 DEF Settleable
  <2>2. DOMAIN ids = 1 .. Len(ids) BY <1>3
  <2> HIDE DEF ids
  <2> QED BY <2>1, <2>2 DEF IsInjectiveSeq, IsInjective
<1> HIDE DEF ids
<1>5. Moves(sch, A) /\ A.req = sch.req /\ A.inflight = <<>>
  BY EmptiedIs DEF IInv, Control, Emptied
<1> HIDE DEF A
<1>6. Control(A, delivered) /\ Quiet(sch, A) BY <1>5, MovesControl DEF IInv
<1>7. \A i \in 1 .. Len(ids) : ids[i] \in RequestIds /\ A.req[ids[i]].state \in Active
  BY <1>2, <1>3, <1>5 DEF Settleable
<1>8. "executor_failure" \in Reasons BY DEF Reasons
<1>9. Ending(A, lost, delivered, ids, failed, Len(ids))
  <2>1. \A i \in 1 .. Len(ids) : ids[i] \in failed => ids[i] \in LiveRequests(A)
    BY <1>6, <1>7, LiveIs, StatesAre
  <2> QED BY <1>3, <1>4, <1>6, <1>8, <2>1, FinishThoseControl
<1> HIDE DEF lost
<1>10. Control(lost, delivered) /\ Quiet(A, lost) /\ lost.inflight = <<>>
  BY <1>5, <1>9 DEF Ending
<1>11. Ending(lost, U, delivered, ids, Inflight(sch) \ failed, Len(ids))
  <2>1. ASSUME NEW i \in 1 .. Len(ids), ids[i] \in Inflight(sch) \ failed
        PROVE  ids[i] \in LiveRequests(lost)
    <3>1. ids[i] \in RequestIds /\ A.req[ids[i]].state \in Live BY <1>7, StatesAre
    <3>2. \A j \in 1 .. Len(ids) : ids[j] \in failed => ids[j] # ids[i] BY <2>1
    <3>3. lost.req[ids[i]] = A.req[ids[i]] BY <1>9, <3>1, <3>2 DEF Ending
    <3> QED BY <1>10, <3>1, <3>3, LiveIs
  <2> QED BY <1>3, <1>4, <1>8, <1>10, <2>1, FinishThoseControl
<1> HIDE DEF U
<1>12. Control(U, delivered) /\ Quiet(lost, U) /\ U.inflight = <<>>
  BY <1>10, <1>11 DEF Ending
<1>13. Planned(U) /\ Steady(U)
  <2>1. ASSUME NEW r \in RequestIds
        PROVE  Rest(U.req[r])
    <3>1. CASE r \in Inflight(sch)
      <4>1. PICK i \in 1 .. Len(ids) : ids[i] = r
        BY <1>2, <1>3, <3>1 DEF Inflight, Settleable
      <4>2. CASE r \in failed
        <5>1. Rest(lost.req[r]) BY <1>9, <4>1, <4>2 DEF Ending
        <5>2. U.req[r] = lost.req[r] BY <1>11, <4>2 DEF Ending
        <5> QED BY <5>1, <5>2
      <4>3. CASE r \notin failed BY <1>11, <3>1, <4>1, <4>3 DEF Ending
      <4> QED BY <4>2, <4>3
    <3>2. CASE r \notin Inflight(sch)
      <4>1. \A i \in 1 .. Len(ids) : ids[i] # r
        BY <1>2, <1>3, <3>2 DEF Inflight, Settleable
      <4>2. U.req[r] = lost.req[r] BY <1>11, <4>1 DEF Ending
      <4>3. lost.req[r] = A.req[r] BY <1>9, <4>1 DEF Ending
      <4>4. Rest(sch.req[r]) BY <3>2 DEF IInv, Steady
      <4> QED BY <1>5, <4>2, <4>3, <4>4
    <3> QED BY <3>1, <3>2
  <2>2. AllRest(U) BY <2>1 DEF AllRest
  <2> QED BY <1>12, <2>2, PlannedEmpty, SteadyEmpty
<1>14. InOrder(sch, U)
  <2>1. Quiet(sch, lost) BY <1>6, <1>10, InOrderQuiet
  <2> QED BY <1>12, <2>1, InOrderQuiet
<1>15. Control(sch', delivered') /\ Planned(sch') /\ Steady(sch') /\ InOrder(sch, sch')
  BY <1>1, <1>12, <1>13, <1>14, DeliverControl
<1> QED BY <1>1, <1>15 DEF IInv, ClosedReported

\* A plan that is given up leaves no plan.
Unplanned(S, T, d) ==
    /\ Control(T, d) /\ Quiet(S, T) /\ Planned(T) /\ T.inflight = <<>> /\ T.next = S.next
    /\ Steady(S) => Steady(T) /\ AllRest(T)

\* Either way to abort an iteration settles its plan.
LEMMA AbortUnplans ==
    ASSUME NEW S, NEW d, Control(S, d), Planned(S)
    PROVE  /\ Unplanned(S, AbortMutationUnknown(S), d)
           /\ Unplanned(S, AbortNotDispatched(S), d)
<1> DEFINE A == AbortMutationUnknown(S)
           B == AbortNotDispatched(S)
<1>1. GivesUp(S, A, d) BY AbortMutationUnknownControl
<1>2. GivesUp(S, B, d) BY AbortNotDispatchedControl
<1> HIDE DEF A, B
<1>3. ASSUME NEW T, GivesUp(S, T, d)
      PROVE  Unplanned(S, T, d)
  <2>1. T.inflight = <<>> BY <1>3 DEF GivesUp
  <2>2. Planned(T) /\ (AllRest(T) => Steady(T)) BY <2>1, PlannedEmpty, SteadyEmpty
  <2> QED BY <1>3, <2>2 DEF GivesUp, Unplanned
<1> QED BY <1>1, <1>2, <1>3 DEF A, B

\* abort_iteration.
LEMMA AbortIterationKeeps ==
    ASSUME IInv, NEW unknown \in BOOLEAN, AbortIteration(unknown)
    PROVE  IInv' /\ InOrder(sch, sch')
<1> DEFINE U == IF unknown THEN AbortMutationUnknown(sch) ELSE AbortNotDispatched(sch)
<1>1. Deliver(U) /\ phase' = phase /\ phase = "open" BY DEF AbortIteration, Callable
<1>2. Unplanned(sch, U, delivered) BY AbortUnplans DEF IInv
<1> HIDE DEF U
<1>3. Control(U, delivered) /\ Quiet(sch, U) /\ Planned(U) /\ Steady(U)
  BY <1>2 DEF Unplanned, IInv
<1>4. Control(sch', delivered') /\ Planned(sch') /\ Steady(sch') /\ InOrder(sch, sch')
  BY <1>1, <1>3, DeliverControl
<1> QED BY <1>1, <1>4 DEF IInv, ClosedReported

\* cancel, at once or deferred.
LEMMA CancelKeeps ==
    ASSUME IInv, NEW r \in RequestIds, Cancel(r)
    PROVE  IInv' /\ InOrder(sch, sch')
<1>1. /\ phase' = phase /\ phase = "open" /\ r \in LiveRequests(sch) /\ Control(sch, delivered)
      /\ Planned(sch) /\ Shape(sch)
  BY DEF Cancel, Callable, IInv, Control
<1>2. CASE r \in Inflight(sch)
  <2> DEFINE T == [sch EXCEPT !.req[r].deferred = TRUE]
             q == [sch.req[r] EXCEPT !.deferred = TRUE]
  <2>1. sch' = T /\ delivered' = delivered BY <1>2 DEF Cancel
  <2>2. /\ SchedulerShape(T) /\ SameQueues(sch, T) /\ T.req = [sch.req EXCEPT ![r] = q]
        /\ T.inflight = sch.inflight
    BY <1>1 DEF Shape, SchedulerShape, SameQueues
  <2> HIDE DEF T
  <2>3. RequestShape(q) /\ Alike(sch.req[r], q) BY <1>1 DEF Shape, RequestShape, Alike
  <2> HIDE DEF q
  <2>4. Becomes(sch, T, r, q) BY <2>2 DEF Becomes
  <2>5. Moves(sch, T) BY <1>1, <2>3, <2>4, OneMoves
  <2>6. Control(T, delivered) /\ Quiet(sch, T) BY <1>1, <2>5, MovesControl
  <2>7. \A i \in DOMAIN sch.inflight : T.req[sch.inflight[i].id].state \in Active
    BY <1>1, <2>5 DEF Planned, Moves, Alike
  <2>8. Planned(T) BY <1>1, <2>2, <2>7, PlannedKept
  <2>9. Steady(T)
    <3>1. /\ T.req[r] = q /\ \A o \in RequestIds \ {r} : T.req[o] = sch.req[o]
      BY <1>1, <2>3, <2>4, OneMoves
    <3>2. \A item : Busy(sch.req[r], item) => Busy(q, item)
      <4>1. RequestShape(sch.req[r]) BY <1>1 DEF Shape
      <4>2. /\ q.state = sch.req[r].state /\ q.prompt = sch.req[r].prompt
            /\ q.maxNew = sch.req[r].maxNew /\ q.cursor = sch.req[r].cursor
            /\ q.generated = sch.req[r].generated /\ q.length = sch.req[r].length
            /\ q.shared = sch.req[r].shared /\ q.pending = sch.req[r].pending
            /\ q.deferred = TRUE
        BY <4>1 DEF RequestShape, q
      <4> QED BY ZenonT(60), <4>2 DEF Busy, Asked, Numbers, Progress, Asks
    <3>3. ASSUME NEW i \in DOMAIN sch.inflight
          PROVE  LET o == sch.inflight[i].id
                 IN  Busy(sch.req[o], sch.inflight[i]) => Busy(T.req[o], sch.inflight[i])
      <4>1. sch.inflight[i].id \in RequestIds BY <1>1 DEF Planned
      <4> QED BY <3>1, <3>2, <4>1
    <3>4. \A o \in RequestIds \ Inflight(sch) : Rest(sch.req[o]) => Rest(T.req[o])
      BY <1>2, <3>1
    <3> QED BY <2>2, <3>3, <3>4, SteadyKept DEF IInv
  <2> QED BY <1>1, <2>1, <2>6, <2>8, <2>9, InOrderQuiet DEF IInv, ClosedReported
<1>3. CASE r \notin Inflight(sch)
  <2> DEFINE U == Finish(sch, r, "cancelled")
  <2>1. Deliver(U) BY <1>3 DEF Cancel
  <2>2. "cancelled" \in Reasons BY DEF Reasons
  <2>3. /\ Control(U, delivered) /\ Quiet(sch, U) /\ U.inflight = sch.inflight
        /\ Rest(U.req[r]) /\ \A o \in RequestIds \ {r} : U.req[o] = sch.req[o]
    BY <1>1, <2>2, FinishControl
  <2> HIDE DEF U
  <2>4. \A i \in DOMAIN sch.inflight : U.req[sch.inflight[i].id].state \in Active
    BY <1>1, <1>3, <2>3 DEF Planned, Inflight
  <2>5. Planned(U) BY <1>1, <2>3, <2>4, PlannedKept
  <2>6. Steady(U)
    <3>1. ASSUME NEW i \in DOMAIN sch.inflight
          PROVE  LET o == sch.inflight[i].id
                 IN  Busy(sch.req[o], sch.inflight[i]) => Busy(U.req[o], sch.inflight[i])
      <4>1. sch.inflight[i].id \in RequestIds /\ sch.inflight[i].id # r
        BY <1>1, <1>3 DEF Planned, Inflight
      <4> QED BY <2>3, <4>1
    <3>2. \A o \in RequestIds \ Inflight(sch) : Rest(sch.req[o]) => Rest(U.req[o])
      BY <2>3
    <3> QED BY <2>3, <3>1, <3>2, SteadyKept DEF IInv
  <2>7. Control(sch', delivered') /\ Planned(sch') /\ Steady(sch') /\ InOrder(sch, sch')
    BY <2>1, <2>3, <2>5, <2>6, DeliverControl
  <2> QED BY <1>1, <2>7 DEF IInv, ClosedReported
<1> QED BY <1>2, <1>3

\* Popping a completion moves it from the outbox to the caller.
LEMMA PopPendingCompletionKeeps ==
    ASSUME IInv, PopPendingCompletion
    PROVE  IInv' /\ InOrder(sch, sch')
<1> DEFINE o == sch.outbox
           r == Head(o).id
           T == [sch EXCEPT !.outbox = Tail(@)]
<1>1. /\ o # <<>> /\ phase = "open" /\ phase' = phase /\ sch' = T
      /\ delivered' = [delivered EXCEPT ![r] = @ + 1]
  BY DEF PopPendingCompletion
<1>2. /\ Control(sch, delivered) /\ Planned(sch) /\ Shape(sch) /\ Queues(sch)
      /\ PromptsAreSeqs(sch) /\ Reports(sch, delivered)
  BY DEF IInv, Control
<1>3. o \in Seq(Notifications) /\ delivered \in [RequestIds -> Nat] BY <1>2 DEF Reports
<1>4. Head(o) \in Notifications /\ Tail(o) \in Seq(Notifications) BY <1>1, <1>3
<1>5. r \in RequestIds BY <1>4 DEF Notifications
<1>6. /\ SchedulerShape(T) /\ T.req = sch.req /\ T.next = sch.next
      /\ T.requests = sch.requests /\ T.waiting = sch.waiting
      /\ T.inflight = sch.inflight /\ T.outbox = Tail(o) /\ SameCounters(sch, T)
  BY <1>2 DEF Shape, SchedulerShape, SameCounters
<1> HIDE DEF T
<1>7. \A q \in RequestIds : /\ Events(Tail(o), q) \in Nat
                            /\ Events(o, q) = Events(Tail(o), q) + IF r = q THEN 1 ELSE 0
  BY <1>1, <1>3, EventsTail
<1> HIDE DEF r
<1>8. ASSUME NEW q \in RequestIds
      PROVE  /\ delivered'[q] = delivered[q] + IF r = q THEN 1 ELSE 0
             /\ delivered'[q] \in Nat
  BY <1>1, <1>3, <1>5
<1>9. delivered' \in [RequestIds -> Nat] BY <1>1, <1>3, <1>5
<1>10. ASSUME NEW q \in RequestIds
       PROVE  delivered'[q] + Events(T.outbox, q) = IF T.req[q].state \in Terminal THEN 1 ELSE 0
  <2>1. delivered[q] + Events(o, q) = IF sch.req[q].state \in Terminal THEN 1 ELSE 0
    BY <1>2 DEF Reports
  <2>2. delivered[q] \in Nat BY <1>3
  <2> QED BY <1>6, <1>7, <1>8, <2>1, <2>2
<1>11. Reports(T, delivered') BY <1>4, <1>6, <1>9, <1>10 DEF Reports
<1>12. Shape(T) /\ Queues(T) /\ PromptsAreSeqs(T)
  BY <1>2, <1>6 DEF Shape, Queues, PromptsAreSeqs
<1>13. Planned(T) BY <1>2, <1>6 DEF Planned
<1>14. InOrder(sch, T) BY <1>6 DEF InOrder
<1>15. Accounts(T) BY <1>2, <1>6, AccountsLike DEF Control
<1>16. Steady(T) BY <1>6, SteadyKept DEF IInv
<1> QED BY <1>1, <1>11, <1>12, <1>13, <1>14, <1>15, <1>16 DEF IInv, Control, ClosedReported

\* begin_shutdown.
LEMMA BeginShutdownKeeps ==
    ASSUME IInv, BeginShutdown
    PROVE  IInv' /\ InOrder(sch, sch')
<1> DEFINE T == [sch EXCEPT !.accepting = FALSE]
<1>1. phase = "open" /\ phase' = phase /\ sch' = T /\ delivered' = delivered
  BY DEF BeginShutdown
<1>2. /\ Planned(sch) /\ Shape(sch) /\ Queues(sch)
      /\ PromptsAreSeqs(sch) /\ Reports(sch, delivered)
  BY DEF IInv, Control
<1>3. /\ SchedulerShape(T) /\ T.req = sch.req /\ T.next = sch.next
      /\ T.requests = sch.requests /\ T.waiting = sch.waiting
      /\ T.inflight = sch.inflight /\ T.outbox = sch.outbox /\ SameCounters(sch, T)
  BY <1>2 DEF Shape, SchedulerShape, SameCounters
<1> HIDE DEF T
<1>4. Shape(T) /\ Queues(T) /\ PromptsAreSeqs(T) /\ Reports(T, delivered)
  BY <1>2, <1>3 DEF Shape, Queues, PromptsAreSeqs, Reports
<1>5. Planned(T) BY <1>2, <1>3 DEF Planned
<1>6. InOrder(sch, T) BY <1>3 DEF InOrder
<1>7. Accounts(T)
  <2>1. Accounts(sch) BY DEF IInv, Control
  <2> QED BY <1>3, <2>1, AccountsLike
<1>8. Steady(T) BY <1>3, SteadyKept DEF IInv
<1> QED BY <1>1, <1>4, <1>5, <1>6, <1>7, <1>8 DEF IInv, Control, ClosedReported

\* What shutting down leaves.
LEMMA ShutDownUnplans ==
    ASSUME NEW S, NEW d, Control(S, d), S.inflight = <<>> \/ Planned(S),
           NEW R, Quiet(R, S)
    PROVE  /\ Control(ShutDown(S), d) /\ Quiet(R, ShutDown(S))
           /\ ShutDown(S).inflight = S.inflight
           /\ ShutDown(S).next = S.next
           /\ \A r \in RequestIds : ShutDown(S).req[r].state \notin Live
           /\ KeepsRest(S, ShutDown(S))
<1> DEFINE T == ShutDown(S)
<1>1. /\ Control(T, d) /\ Quiet(S, T) /\ T.inflight = S.inflight /\ T.next = S.next
      /\ (\A r \in RequestIds : T.req[r].state \notin Live) /\ KeepsRest(S, T)
  <2>1. ShutsDown(S, T, d) BY ShutDownControl
  <2> HIDE DEF T
  <2> QED BY <2>1 DEF ShutsDown
<1> HIDE DEF T
<1>2. Quiet(R, T) BY <1>1, InOrderQuiet
<1> QED BY <1>1, <1>2 DEF T

\* Nothing happening is quiet.
LEMMA QuietAlone == \A S : Quiet(S, S)
  BY DEF Quiet

\* shutdown.
LEMMA ShutdownKeeps ==
    ASSUME IInv, Shutdown
    PROVE  IInv' /\ InOrder(sch, sch')
<1> DEFINE U == ShutDown(sch)
<1>1. Deliver(U) /\ phase' = phase /\ phase = "open" /\ sch.inflight = <<>>
  BY DEF Shutdown, Callable
<1>2. Control(U, delivered) /\ Quiet(sch, U) /\ U.inflight = <<>> /\ KeepsRest(sch, U)
  BY <1>1, ShutDownUnplans, QuietAlone DEF IInv
<1> HIDE DEF U
<1>3. Planned(U) /\ Steady(U)
  <2>1. AllRest(sch) BY <1>1, SteadyEmpty DEF IInv
  <2>2. AllRest(U) BY <1>2, <2>1 DEF KeepsRest, AllRest
  <2> QED BY <1>2, <2>2, PlannedEmpty, SteadyEmpty
<1>4. Control(sch', delivered') /\ Planned(sch') /\ Steady(sch') /\ InOrder(sch, sch')
  BY <1>1, <1>2, <1>3, DeliverControl
<1> QED BY <1>1, <1>4 DEF IInv, ClosedReported

\* close: whatever it settles, every request has been reported.
LEMMA CloseKeeps ==
    ASSUME IInv, NEW unknown \in BOOLEAN, Close(unknown)
    PROVE  IInv' /\ InOrder(sch, sch')
<1> DEFINE settled == IF sch.inflight = <<>> THEN sch
                      ELSE IF unknown THEN AbortMutationUnknown(sch)
                      ELSE AbortNotDispatched(sch)
           U == ShutDown(settled)
<1>1. Deliver(U) BY DEF Close
<1>2. /\ Control(settled, delivered) /\ Quiet(sch, settled) /\ settled.inflight = <<>>
      /\ AllRest(settled)
  <2>1. CASE sch.inflight = <<>> BY <2>1, QuietAlone, SteadyEmpty DEF IInv
  <2>2. CASE sch.inflight # <<>>
    <3>1. Unplanned(sch, settled, delivered) BY <2>2, AbortUnplans DEF IInv
    <3> HIDE DEF settled
    <3> QED BY <3>1 DEF Unplanned, IInv
  <2> QED BY <2>1, <2>2
<1> HIDE DEF settled
<1>3. /\ Control(U, delivered) /\ Quiet(sch, U) /\ U.inflight = <<>>
      /\ (\A r \in RequestIds : U.req[r].state \notin Live) /\ KeepsRest(settled, U)
  BY <1>2, ShutDownUnplans
<1> HIDE DEF U
<1>4. Planned(U) /\ Steady(U)
  <2>1. AllRest(U) BY <1>2, <1>3 DEF KeepsRest, AllRest
  <2> QED BY <1>3, <2>1, PlannedEmpty, SteadyEmpty
<1>5. /\ Control(sch', delivered') /\ Planned(sch') /\ Steady(sch') /\ InOrder(sch, sch')
      /\ sch'.req = U.req /\ sch'.outbox = <<>>
  BY <1>1, <1>3, <1>4, DeliverControl
<1>6. ASSUME NEW r \in RequestIds, r < sch'.next
      PROVE  delivered'[r] = 1
  <2>1. Queues(sch') /\ Reports(sch', delivered') BY <1>5 DEF Control
  <2>2. sch'.req[r].state \notin Live /\ sch'.req[r].state \in States BY <1>3, <1>5, <2>1 DEF Queues
  <2>3. sch'.next \in Nat /\ r \in Nat
    <3>1. sch'.next \in 1 .. MaxRequests + 1 BY <2>1 DEF Queues
    <3> QED BY <3>1, ConfigAssumption DEF RequestIds
  <2>4. ~(r >= sch'.next) BY <1>6, <2>3
  <2>5. sch'.req[r].state # "unborn" BY <2>1, <2>4 DEF Queues
  <2>6. sch'.req[r].state \in Terminal BY <2>2, <2>5 DEF States
  <2>7. delivered'[r] + Events(sch'.outbox, r) = 1 BY <2>1, <2>6 DEF Reports
  <2>8. Events(sch'.outbox, r) = 0 BY <1>5, EventsNone
  <2>9. delivered'[r] \in Nat BY <2>1 DEF Reports
  <2> QED BY <2>7, <2>8, <2>9
<1> QED BY <1>5, <1>6 DEF IInv, ClosedReported

\* A new scheduler.
LEMMA InitIInv ==
    ASSUME Init
    PROVE  IInv
<1>1. /\ sch = [req |-> [r \in RequestIds |-> NoRequest], next |-> 1, requests |-> <<>>,
                waiting |-> <<>>, waitingTokens |-> 0, active |-> 0, promised |-> 0,
                outbox |-> <<>>, inflight |-> <<>>, index |-> EmptyIndex, accepting |-> TRUE,
                suspect |-> {}]
      /\ delivered = [r \in RequestIds |-> 0] /\ phase = "open"
  BY DEF Init
<1>2. /\ SchedulerShape(sch) /\ sch.req = [r \in RequestIds |-> NoRequest]
      /\ sch.next = 1 /\ sch.requests = <<>> /\ sch.waiting = <<>> /\ sch.outbox = <<>>
      /\ sch.inflight = <<>> /\ sch.active = 0 /\ sch.promised = 0 /\ sch.waitingTokens = 0
  BY <1>1 DEF SchedulerShape
<1>3. \A r \in RequestIds : /\ sch.req[r] = NoRequest /\ delivered[r] = 0
  BY <1>1, <1>2
<1>4. /\ RequestShape(NoRequest) /\ NoRequest.state = "unborn" /\ NoRequest.prompt = <<>>
      /\ NoRequest.maxNew = 0
  BY DEF RequestShape, NoRequest
<1>5. Shape(sch)
  <2>1. sch.req = [r \in RequestIds |-> sch.req[r]] BY <1>2
  <2>2. \A r \in RequestIds : RequestShape(sch.req[r]) BY <1>3, <1>4
  <2> QED BY <1>2, <2>1, <2>2 DEF Shape
<1>6. PromptsAreSeqs(sch)
  <2>1. <<>> \in Seq(Nat) OBVIOUS
  <2> QED BY <1>3, <1>4, <2>1 DEF PromptsAreSeqs
<1>7. Queues(sch)
  <2>1. sch.next \in 1 .. MaxRequests + 1 BY <1>2, ConfigAssumption
  <2>2. \A r \in RequestIds : r >= sch.next BY <1>2 DEF RequestIds
  <2>3. \A r \in RequestIds : sch.req[r].state = "unborn" BY <1>3, <1>4
  <2>4. "unborn" \in States BY DEF States
  <2>5. \A r : r \notin ToSet(<<>>) BY DEF ToSet
  <2>6. <<>> \in Seq(RequestIds) /\ IsInjectiveSeq(<<>>) /\ Increasing(<<>>)
    BY DEF IsInjectiveSeq, IsInjective, Increasing
  <2> QED BY <1>2, <2>1, <2>2, <2>3, <2>4, <2>5, <2>6, StatesAre DEF Queues
<1>8. Reports(sch, delivered)
  <2>1. <<>> \in Seq(Notifications) OBVIOUS
  <2>2. delivered \in [RequestIds -> Nat] BY <1>1
  <2>3. \A r \in RequestIds : sch.req[r].state \notin Terminal BY <1>3, <1>4, StatesAre
  <2>4. \A r \in RequestIds : delivered[r] + Events(sch.outbox, r) = 0
    BY <1>2, <1>3, EventsNone
  <2> QED BY <1>2, <2>1, <2>2, <2>3, <2>4 DEF Reports
<1>9. Planned(sch) BY <1>2, PlannedEmpty
<1>10. Accounts(sch)
  <2>1. \A r \in RequestIds : Asked(sch.req[r])
    <3>1. <<>> \in Seq(Nat) /\ 0 \in Nat OBVIOUS
    <3> QED BY <1>3, <1>4, <3>1, StatesAre DEF Asked
  <2>2. StateIn(sch, Active) = {} /\ StateIn(sch, {"waiting"}) = {}
    BY <1>3, <1>4, StatesAre DEF StateIn
  <2>3. /\ Cardinality({}) = 0 /\ Part(PromiseOf(sch), {}) = 0 /\ Part(LengthOf(sch), {}) = 0
    BY FS_EmptySet, PartStep
  <2>4. 0 <= MaxPromised BY ConfigAssumption
  <2> QED BY <1>2, <2>1, <2>2, <2>3, <2>4 DEF Accounts
<1>11. Steady(sch)
  <2>1. <<>> \in Seq(ToSet(<<>>)) /\ <<>> \in Seq(Nat) /\ Len(<<>>) = 0 OBVIOUS
  <2>2. /\ NoRequest.cursor = 0 /\ NoRequest.generated = 0 /\ NoRequest.length = 0
        /\ NoRequest.pending = 0 /\ NoRequest.shared = <<>> /\ NoRequest.deferred = FALSE
        /\ NoRequest.deferred \in BOOLEAN
    BY DEF NoRequest
  <2>3. Numbers(NoRequest) BY <2>1, <2>2 DEF Numbers
  <2>4. Asked(NoRequest) BY <1>4, <2>1, StatesAre DEF Asked
  <2>5. Progress(NoRequest, NoRequest.state) BY <1>4, <2>2, StatesAre DEF Progress
  <2>6. Rest(NoRequest) BY <2>2, <2>3, <2>4, <2>5 DEF Rest
  <2>7. AllRest(sch) BY <1>3, <2>6 DEF AllRest
  <2> QED BY <1>2, <2>7, SteadyEmpty
<1> QED BY <1>1, <1>5, <1>6, <1>7, <1>8, <1>9, <1>10, <1>11 DEF IInv, Control, ClosedReported

\* A step keeps the invariant and admits in order.
LEMMA NextKeeps ==
    ASSUME IInv, [Next]_vars
    PROVE  IInv' /\ InOrder(sch, sch')
<1>1. CASE UNCHANGED vars
  <2>1. sch' = sch /\ delivered' = delivered /\ phase' = phase BY <1>1 DEF vars
  <2>2. InOrder(sch, sch) BY QuietAlone, InOrderQuiet
  <2> QED BY <2>1, <2>2 DEF IInv, ClosedReported
<1>2. ASSUME NEW prompt \in Prompts, NEW maxNew \in MaxNewTokens, Submit(prompt, maxNew)
      PROVE  IInv' /\ InOrder(sch, sch')
  BY <1>2, SubmitKeeps
<1>3. ASSUME NEW expired \in 0 .. Len(sch.waiting),
             NEW ids \in SetToAllKPermutations(Ready(Refreshed(sch, expired))),
             NEW tokens, PlanIteration(expired, ids, tokens)
      PROVE  IInv' /\ InOrder(sch, sch')
  BY <1>3, PlanIterationKeeps
<1>4. ASSUME NEW expired \in 0 .. Len(sch.waiting),
             NEW ids \in SetToAllKPermutations(Ready(Refreshed(sch, expired))),
             NEW tokens, NEW prepared \in 1 .. Len(ids),
             PlanIterationFails(expired, ids, tokens, prepared)
      PROVE  IInv' /\ InOrder(sch, sch')
  BY <1>4, PlanIterationFailsKeeps
<1>5. ASSUME NEW stops, CompleteIteration(stops)
      PROVE  IInv' /\ InOrder(sch, sch')
  BY <1>5, CompleteIterationKeeps
<1>6. ASSUME NEW failed, CompleteIterationFaulted(failed)
      PROVE  IInv' /\ InOrder(sch, sch')
  BY <1>6, CompleteIterationFaultedKeeps
<1>7. ASSUME NEW unknown \in BOOLEAN, AbortIteration(unknown) \/ Close(unknown)
      PROVE  IInv' /\ InOrder(sch, sch')
  BY <1>7, AbortIterationKeeps, CloseKeeps
<1>8. ASSUME NEW r \in RequestIds, Cancel(r)
      PROVE  IInv' /\ InOrder(sch, sch')
  BY <1>8, CancelKeeps
<1>9. CASE PopPendingCompletion BY <1>9, PopPendingCompletionKeeps
<1>10. CASE BeginShutdown BY <1>10, BeginShutdownKeeps
<1>11. CASE Shutdown BY <1>11, ShutdownKeeps
<1> QED BY <1>1, <1>2, <1>3, <1>4, <1>5, <1>6, <1>7, <1>8, <1>9, <1>10, <1>11 DEF Next

\* The invariant of the queues, the plan and the reports.
THEOREM InvariantHolds == Spec => []IInv
<1>1. Init => IInv BY InitIInv
<1>2. IInv /\ [Next]_vars => IInv' BY NextKeeps
<1> QED BY <1>1, <1>2, PTL DEF Spec

\* Every request that ends is reported exactly once, now or from the outbox, and no live
\* request is: whatever order plans, completions, failures, cancellations, expiries,
\* shutdowns and pops come in.
THEOREM ReportedExactlyOnce == Spec => []NotifiedExactlyOnce
<1>1. IInv => NotifiedExactlyOnce
  <2>1. SUFFICES ASSUME IInv PROVE NotifiedExactlyOnce OBVIOUS
  <2>2. SUFFICES ASSUME NEW r \in RequestIds
                 PROVE  delivered[r] + Events(sch.outbox, r)
                            = IF r \in InState(Terminal) THEN 1 ELSE 0
    BY DEF NotifiedExactlyOnce, Events
  <2>3. r \in InState(Terminal) <=> sch.req[r].state \in Terminal BY DEF InState
  <2> QED BY <2>1, <2>3 DEF IInv, Control, Reports
<1> QED BY <1>1, InvariantHolds, PTL

\* Admission is first come, first served: submit and admit_waiting never let a request
\* pass one that was submitted before it and still waits.
THEOREM FirstComeFirstServed == Spec => NoOvertaking
<1> DEFINE Ordered == \A r, later \in RequestIds :
                        /\ r < later
                        /\ sch.req[r].state = "waiting" /\ sch'.req[r].state = "waiting"
                        /\ sch'.req[later].state \in Active
                        => sch.req[later].state \in Active
<1>1. IInv /\ [Next]_vars => [Ordered]_vars
  <2>1. SUFFICES ASSUME IInv, [Next]_vars PROVE Ordered OBVIOUS
  <2>2. InOrder(sch, sch') BY <2>1, NextKeeps
  <2> QED BY <2>2 DEF InOrder
<1> QED BY <1>1, InvariantHolds, PTL DEF Spec, NoOvertaking

\* The three admission counters are what the live requests add up to, through every path
\* that admits or ends a request, and the promises stay within the pool.
THEOREM CountersAddUp == Spec => [](CountersExact /\ sch.promised <= MaxPromised)
<1>1. IInv => CountersExact /\ sch.promised <= MaxPromised
  <2>1. SUFFICES ASSUME IInv PROVE CountersExact /\ sch.promised <= MaxPromised OBVIOUS
  <2>2. Queues(sch) /\ Accounts(sch) BY <2>1 DEF IInv, Control
  <2>3. \A states : InState(states) = StateIn(sch, states) BY DEF InState, StateIn
  <2>4. LiveRequests(sch) = InState(Active \cup {"waiting"})
    <3>1. Live = Active \cup {"waiting"} BY DEF Live
    <3>2. LiveRequests(sch) = {r \in RequestIds : r \in ToSet(sch.requests)}
      <4>1. sch.requests \in Seq(RequestIds) BY <2>2 DEF Queues
      <4> QED BY <4>1 DEF LiveRequests, ToSet
    <3> QED BY <2>2, <3>1, <3>2 DEF Queues, InState
  <2>5. ToSet(sch.waiting) = InState({"waiting"})
    <3>1. sch.waiting \in Seq(RequestIds) BY <2>2 DEF Queues
    <3>2. ToSet(sch.waiting) \subseteq RequestIds BY <3>1 DEF ToSet
    <3> QED BY <2>2, <3>2 DEF Queues, InState
  <2>6. sch.active = Cardinality(InState(Active)) BY <2>2, <2>3 DEF Accounts
  <2>7. sch.promised = SumOf([r \in InState(Active) |-> Promise(sch.req[r])])
    <3>1. InState(Active) \subseteq RequestIds BY DEF InState
    <3>2. [r \in InState(Active) |-> Promise(sch.req[r])]
            = [r \in InState(Active) |-> PromiseOf(sch)[r]]
      BY <3>1 DEF PromiseOf
    <3> QED BY <2>2, <2>3, <3>2 DEF Accounts, Part
  <2>8. sch.waitingTokens = SumOf([r \in InState({"waiting"}) |-> Len(sch.req[r].prompt)])
    <3>1. InState({"waiting"}) \subseteq RequestIds BY DEF InState
    <3>2. [r \in InState({"waiting"}) |-> Len(sch.req[r].prompt)]
            = [r \in InState({"waiting"}) |-> LengthOf(sch)[r]]
      BY <3>1 DEF LengthOf
    <3> QED BY <2>2, <2>3, <3>2 DEF Accounts, Part
  <2> QED BY <2>2, <2>4, <2>5, <2>6, <2>7, <2>8 DEF CountersExact, Accounts
<1> QED BY <1>1, InvariantHolds, PTL

\* What the plan and the progress of a request say of what it has reserved.
LEMMA SteadyPending ==
    ASSUME IInv
    PROVE  /\ PendingExactlyInflight
           /\ \A r \in RequestIds : Rest(sch.req[r]) \/ \E item : Busy(sch.req[r], item)
<1>1. Planned(sch) /\ Steady(sch) BY DEF IInv
<1>2. ASSUME NEW r \in RequestIds
      PROVE  /\ sch.req[r].pending # 0 <=> r \in Inflight(sch)
             /\ sch.req[r].deferred => r \in Inflight(sch)
             /\ Rest(sch.req[r]) \/ \E item : Busy(sch.req[r], item)
  <2>1. CASE r \in Inflight(sch)
    <3>1. PICK i \in DOMAIN sch.inflight : sch.inflight[i].id = r BY <2>1 DEF Inflight
    <3> DEFINE item == sch.inflight[i]
    <3>2. Busy(sch.req[r], item) BY <1>1, <3>1 DEF Steady
    <3> HIDE DEF item
    <3>3. sch.req[r].pending = item.target /\ item.target \in Nat /\ item.target # 0
      BY <3>2 DEF Busy, Asks, Numbers
    <3> QED BY <2>1, <3>2, <3>3
  <2>2. CASE r \notin Inflight(sch)
    <3>1. Rest(sch.req[r]) BY <1>1, <2>2 DEF Steady
    <3> QED BY <2>2, <3>1 DEF Rest
  <2> QED BY <2>1, <2>2
<1> QED BY <1>2 DEF PendingExactlyInflight

\* The counters, the plan and the progress of every request agree.
THEOREM RequestsAgree == Spec => []RequestsConsistent
<1>1. IInv => PendingExactlyInflight BY SteadyPending
<1>2. IInv => ProgressConsistent
  <2>1. SUFFICES ASSUME IInv, NEW r \in InState(Active)
                 PROVE  LET q == sch.req[r]
                        IN  /\ q.length >= Len(q.shared) * BlockSize
                            /\ q.generated < q.maxNew
                            /\ IF q.state = "decoding"
                               THEN /\ q.cursor = Len(q.prompt)
                                    /\ q.generated > 0
                                    /\ q.length = Len(q.prompt) + q.generated - 1
                               ELSE /\ q.cursor = q.length
                                    /\ q.cursor < Len(q.prompt)
                                    /\ q.generated = 0
    BY DEF ProgressConsistent
  <2> DEFINE q == sch.req[r]
  <2>2. r \in RequestIds /\ q.state \in Active BY <2>1 DEF InState
  <2>3. Rest(q) \/ \E item : Busy(q, item) BY <2>1, <2>2, SteadyPending
  <2>4. Numbers(q) BY <2>3 DEF Rest, Busy
  <2>5. Len(q.shared) * BlockSize \in Nat
    <3>1. Len(q.shared) \in Nat /\ BlockSize \in Nat BY <2>4, ConfigAssumption DEF Numbers
    <3> QED BY <3>1, NextMultiple, ConfigAssumption
  <2>6. PICK state \in Active : Progress(q, state) /\ (state = "decoding" <=> q.state = "decoding")
    <3>1. CASE Rest(q) BY <2>2, <3>1 DEF Rest
    <3>2. ASSUME NEW item, Busy(q, item)
          PROVE  \E state \in Active : Progress(q, state) /\ (state = "decoding" <=> q.state = "decoding")
      BY <3>2 DEF Busy, Asks
    <3> QED BY <2>3, <3>1, <3>2
  <2> HIDE DEF q
  <2>7. Len(q.shared) * BlockSize <= q.length /\ q.length \in Nat
    BY <2>4, <2>6 DEF Progress, Numbers
  <2>8. q.length >= Len(q.shared) * BlockSize BY <2>5, <2>7
  <2> QED BY <2>6, <2>8 DEF Progress, q
<1> QED BY <1>1, <1>2, CountersAddUp, InvariantHolds, PTL DEF RequestsConsistent

\* What an admitted request holds or has reserved stays within what it was promised, and
\* the promises stay within the pool.
THEOREM PromisesCover == Spec => []HeldWithinPromises
<1>1. IInv => \A r \in InState(Active) :
                  BlocksForLength(TableLength(sch.req[r])) <= Promise(sch.req[r])
  <2> SUFFICES ASSUME IInv, NEW r \in InState(Active)
               PROVE  BlocksForLength(TableLength(sch.req[r])) <= Promise(sch.req[r])
    OBVIOUS
  <2>1. r \in RequestIds /\ sch.req[r].state \in Active BY DEF InState
  <2>2. Rest(sch.req[r]) \/ \E item : Busy(sch.req[r], item) BY <2>1, SteadyPending
  <2> QED BY <2>1, <2>2, WithinPromise
<1>2. IInv => HeldWithinPromises
  <2>1. IInv => sch.promised <= MaxPromised BY DEF IInv, Control, Accounts
  <2> QED BY <1>1, <2>1 DEF HeldWithinPromises
<1> QED BY <1>2, InvariantHolds, PTL

=============================================================================
