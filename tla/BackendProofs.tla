---------------------------- MODULE BackendProofs ----------------------------
(***************************************************************************)
(* Proofs about the backend of the engine.                                 *)
(*                                                                         *)
(* The CUDA backend, for any number of requests, any capacity and any      *)
(* failures.                                                               *)
(*                                                                         *)
(* The generation it keeps for every request: token by token, the          *)
(* stop-string search decides and shows what a search of the whole text    *)
(* does, for all stop strings, all token texts and all lengths.            *)
(***************************************************************************)
EXTENDS CudaBackend, Generation, FiniteSetTheorems, SequenceTheorems, WellFoundedInduction,
        TLAPS

-----------------------------------------------------------------------------
(* The CUDA backend.  The inductive invariant. *)

Kinds == {"token", "cancelled", "failed", "finished"}
EventSet == [kind : Kinds, n : Nat]
EntrySet == [ids : BOOLEAN, next : Nat, prompt : BOOLEAN]

BackendTypes ==
    /\ mode \in [graph : BOOLEAN, audit : BOOLEAN]
    /\ live \subseteq Requests /\ IsFiniteSet(live) /\ Cardinality(live) <= Capacity
    /\ tombs \in Seq(Requests) /\ Len(tombs) <= Capacity
    /\ committed \in [Requests -> Nat] /\ lost \subseteq Requests
    /\ open \in BOOLEAN /\ device \in {"idle", "busy"}
    /\ Known \subseteq Requests
    /\ events \in [Requests -> Seq(EventSet)]
    /\ phase \in {"up", "failed", "closed", "close_failed"} /\ faults \in Nat

\* Between two calls of a backend that is up, nothing runs and nothing was lost.
UpIdle == phase = "up" => inflight = {} /\ device = "idle" /\ open /\ lost = {}

\* A backend that is up has an entry for exactly the live requests, and the entry knows
\* how many tokens were committed.
UpTracked ==
    phase = "up" =>
        /\ Known = live
        /\ \A r \in Known :
            /\ entries[r] \in EntrySet
            /\ entries[r].ids => entries[r].next = committed[r]
                                 /\ (entries[r].prompt <=> committed[r] = 0)
            /\ Len(events[r]) = committed[r]
        /\ \A r \in Requests \ live : events[r] = <<>> => committed[r] = 0

\* r is among the last k of seq.
Near(seq, r, k) == \E i \in DOMAIN seq : seq[i] = r /\ Len(seq) - i < k

\* r has been told every token, but for the one that was lost.
Told(r) == Len(events[r]) = IF r \in lost THEN committed[r] - 1 ELSE committed[r]

\* A backend that failed still remembers what it ended without telling: also when the
\* cancellations of shutdown push as many more onto the tombstones.  What is still live
\* has been told every token, but for the one that was lost.
FailedRemembered ==
    phase = "failed" =>
        /\ \A r \in Known \ live : Near(tombs, r, Capacity - Cardinality(Known \cap live))
        /\ \A r \in Known \cap live : Told(r)

BusyOwned == device = "busy" => open /\ inflight # {} /\ inflight \subseteq live
ClosedQuiet == phase = "closed" => device = "idle" /\ ~open /\ resources = {}

\* Without a fault nothing fails, and shutdown has cancelled everything.
NothingFails ==
    faults = 0 => phase \in {"up", "closed"} /\ (phase = "closed" => Known = {})

\* ev is the events of a request with n committed tokens.
WellFormed(ev, n) ==
    \A i \in DOMAIN ev :
        IF ev[i].kind = "token" THEN ev[i].n = i - 1
        ELSE /\ i = Len(ev)
             /\ ev[i].n = n
             /\ ev[i].n = i - 1 \/ (ev[i].kind = "cancelled" /\ ev[i].n = i - 2)

\* The same when the n-th token was lost: only a cancellation can follow.
WellFormedButLast(ev, n) ==
    \A i \in DOMAIN ev :
        IF ev[i].kind = "token" THEN ev[i].n = i - 1 \/ (ev[i].n = i /\ i = n)
        ELSE /\ i = Len(ev)
             /\ ev[i].kind = "cancelled" /\ ev[i].n = n
             /\ ev[i].n = i \/ ev[i].n = i - 1

EventsWellFormed ==
    \A r \in Requests : IF r \in lost THEN WellFormedButLast(events[r], committed[r])
                        ELSE WellFormed(events[r], committed[r])

IInv ==
    /\ BackendTypes
    /\ UpIdle
    /\ UpTracked
    /\ FailedRemembered
    /\ BusyOwned
    /\ ClosedQuiet
    /\ NothingFails
    /\ EventsWellFormed

-----------------------------------------------------------------------------
(* Tombstones. *)

\* An order of a finite set is as long as the set and has every element of it.
LEMMA OrderIs ==
    ASSUME NEW S, IsFiniteSet(S), S \subseteq Requests, NEW order \in Orders(S)
    PROVE  /\ order \in Seq(Requests) /\ Len(order) = Cardinality(S)
           /\ \A r \in S : \E i \in DOMAIN order : order[i] = r
<1> DEFINE n == Cardinality(S)
           D == 1 .. n
<1>1. n \in Nat
  BY FS_CardinalityType
<1>2. order \in [D -> S] /\ \A i, j \in D : i # j => order[i] # order[j]
  BY DEF Orders, SetToSeqs
<1>3. IsFiniteSet(D) /\ Cardinality(D) = n
  BY <1>1, FS_Interval
<1> HIDE DEF n
<1>4. order \in Seq(Requests) /\ Len(order) = n
  <2>1. order \in [1 .. n -> Requests]
    BY <1>2
  <2> QED BY <1>1, <2>1
<1>5. order \in Injection(D, S)
  BY <1>2 DEF Injection, IsInjective
<1>6. order \in Surjection(D, S)
  BY <1>3, <1>5, FS_Injection DEF n
<1>7. \A r \in S : \E i \in D : order[i] = r
  BY <1>6 DEF Surjection
<1> QED BY <1>2, <1>4, <1>7 DEF n

\* What is near the end of a sequence is near the end of what it is appended to, and not
\* much further away when something is appended to it.
LEMMA NearAppended ==
    ASSUME NEW s \in Seq(Requests), NEW t \in Seq(Requests), NEW r, NEW k \in Int
    PROVE  /\ s \o t \in Seq(Requests)
           /\ Near(t, r, k) => Near(s \o t, r, k)
           /\ Near(s, r, k) => Near(s \o t, r, k + Len(t))
<1> DEFINE u == s \o t
           m == Len(s)
           n == Len(t)
<1>1. /\ u \in Seq(Requests) /\ Len(u) = m + n
      /\ \A i \in 1 .. m + n : u[i] = IF i <= m THEN s[i] ELSE t[i - m]
  BY ConcatProperties
<1>2. /\ m \in Nat /\ n \in Nat /\ DOMAIN s = 1 .. m /\ DOMAIN t = 1 .. n /\ DOMAIN u = 1 .. m + n
  BY <1>1, LenProperties
<1> HIDE DEF u, m, n
<1>3. ASSUME Near(t, r, k) PROVE Near(u, r, k)
  <2>1. PICK i \in DOMAIN t : t[i] = r /\ n - i < k
    BY <1>3 DEF Near, n
  <2>2. m + i \in DOMAIN u /\ u[m + i] = r /\ Len(u) - (m + i) < k
    BY <1>1, <1>2, <2>1
  <2> QED BY <2>2 DEF Near
<1>4. ASSUME Near(s, r, k) PROVE Near(u, r, k + n)
  <2>1. PICK i \in DOMAIN s : s[i] = r /\ m - i < k
    BY <1>4 DEF Near, m
  <2>2. i \in DOMAIN u /\ u[i] = r /\ Len(u) - i < k + n
    BY <1>1, <1>2, <2>1
  <2> QED BY <2>2 DEF Near
<1> QED BY <1>1, <1>3, <1>4 DEF u, n

\* What is among the last few is among the last many.
LEMMA NearMore ==
    ASSUME NEW s \in Seq(Requests), NEW r, NEW k \in Int, NEW m \in Int, k <= m, Near(s, r, k)
    PROVE  Near(s, r, m)
<1>1. PICK i \in DOMAIN s : s[i] = r /\ Len(s) - i < k
  BY DEF Near
<1>2. Len(s) \in Nat /\ i \in Nat
  BY LenProperties
<1>3. Len(s) - i < m
  BY <1>1, <1>2
<1> QED BY <1>1, <1>3 DEF Near

\* Remembering keeps the last Capacity.
LEMMA RememberIs ==
    ASSUME BackendTypes, NEW seq \in Seq(Requests)
    PROVE  /\ Remember(seq) \in Seq(Requests) /\ Len(Remember(seq)) <= Capacity
           /\ \A r, k : k \in Int /\ k <= Capacity /\ Near(tombs \o seq, r, k)
                           => Near(Remember(seq), r, k)
<1> DEFINE all == tombs \o seq
           m == Len(all)
           cut == SubSeq(all, m - Capacity + 1, m)
<1>1. all \in Seq(Requests) /\ m \in Nat /\ DOMAIN all = 1 .. m /\ Capacity \in Nat
  BY ConcatProperties, LenProperties, CapacityAssumption DEF BackendTypes
<1>2. Remember(seq) = IF m > Capacity THEN cut ELSE all
  BY DEF Remember
<1>3. CASE m <= Capacity
  BY <1>1, <1>2, <1>3
<1>4. CASE m > Capacity
  <2>1. \A i \in (m - Capacity + 1) .. m : all[i] \in Requests
    BY <1>1, <1>4, ElementOfSeq
  <2>2. /\ cut \in Seq(Requests) /\ Len(cut) = Capacity
        /\ \A i \in 1 .. Capacity : cut[i] = all[m - Capacity + i]
    <3> DEFINE l == m - Capacity + 1
    <3>1. l \in Int /\ m \in Int /\ l <= m /\ m - l + 1 = Capacity
      BY <1>1, <1>4, CapacityAssumption
    <3> HIDE DEF all, m
    <3>2. /\ cut \in Seq(Requests) /\ Len(cut) = m - l + 1
          /\ \A i \in 1 .. m - l + 1 : cut[i] = all[l + i - 1]
      BY <2>1, <3>1, SubSeqProperties
    <3>3. \A i \in 1 .. Capacity : l + i - 1 = m - Capacity + i
      BY <1>1
    <3> QED BY <3>1, <3>2, <3>3
  <2>3. DOMAIN cut = 1 .. Capacity
    BY <2>2, LenProperties
  <2> HIDE DEF all, m, cut
  <2>4. ASSUME NEW r, NEW k \in Int, k <= Capacity, Near(all, r, k)
        PROVE  Near(cut, r, k)
    <3>1. PICK i \in DOMAIN all : all[i] = r /\ m - i < k
      BY <2>4 DEF Near, m
    <3>2. /\ i - (m - Capacity) \in 1 .. Capacity
          /\ m - Capacity + (i - (m - Capacity)) = i
          /\ Capacity - (i - (m - Capacity)) < k
      BY <1>1, <1>4, <2>4, <3>1
    <3>3. cut[i - (m - Capacity)] = r
      BY <2>2, <3>1, <3>2
    <3> QED BY <2>2, <2>3, <3>2, <3>3 DEF Near
  <2> QED BY <1>1, <1>2, <1>4, <2>2, <2>4 DEF all
<1> QED BY <1>1, <1>3, <1>4

-----------------------------------------------------------------------------
(* Events. *)

\* One or two events are appended.
LEMMA OneMore ==
    ASSUME NEW ev \in Seq(EventSet), NEW e \in EventSet, NEW n, n = Len(ev)
    PROVE  /\ ev \o <<e>> \in Seq(EventSet) /\ Len(ev \o <<e>>) = n + 1
           /\ (ev \o <<e>>)[n + 1] = e
           /\ \A i \in 1 .. n : (ev \o <<e>>)[i] = ev[i]
<1>1. <<e>> \in Seq(EventSet) /\ Len(<<e>>) = 1 /\ <<e>>[1] = e
  OBVIOUS
<1>2. n \in Nat
  BY LenProperties
<1>3. /\ ev \o <<e>> \in Seq(EventSet) /\ Len(ev \o <<e>>) = n + 1
      /\ \A i \in 1 .. n + 1 : (ev \o <<e>>)[i] = IF i <= n THEN ev[i] ELSE <<e>>[i - n]
  BY <1>1, ConcatProperties
<1> QED BY <1>1, <1>2, <1>3

\* Associativity, for the events of one call.
LEMMA TwoMore ==
    ASSUME NEW ev \in Seq(EventSet), NEW e \in EventSet, NEW f \in EventSet
    PROVE  ev \o (<<e>> \o <<f>>) = (ev \o <<e>>) \o <<f>>
<1>1. <<e>> \in Seq(EventSet) /\ <<f>> \in Seq(EventSet)
  OBVIOUS
<1> QED BY <1>1, ConcatAssociative

\* A request with as many events as tokens has not ended.
LEMMA OnlyTokens ==
    ASSUME NEW ev \in Seq(EventSet), NEW n \in Nat, Len(ev) = n, WellFormed(ev, n)
    PROVE  \A i \in 1 .. n : ev[i].kind = "token" /\ ev[i].n = i - 1
<1>1. DOMAIN ev = 1 .. n
  BY LenProperties
<1> QED BY <1>1 DEF WellFormed

\* w is n tokens and e.
TokensAnd(w, n, e) ==
    /\ w \in Seq(EventSet) /\ Len(w) = n + 1 /\ DOMAIN w = 1 .. n + 1
    /\ \A i \in 1 .. n : w[i].kind = "token" /\ w[i].n = i - 1
    /\ w[n + 1] = e

\* One event after as many events as tokens.
LEMMA TokensThen ==
    ASSUME NEW ev \in Seq(EventSet), NEW n \in Nat, Len(ev) = n, WellFormed(ev, n),
           NEW e \in EventSet
    PROVE  TokensAnd(ev \o <<e>>, n, e)
<1> DEFINE w == ev \o <<e>>
<1>1. /\ w \in Seq(EventSet) /\ Len(w) = n + 1 /\ w[n + 1] = e
      /\ \A i \in 1 .. n : w[i] = ev[i]
  BY OneMore
<1>2. DOMAIN w = 1 .. n + 1
  BY <1>1, LenProperties
<1>3. \A i \in 1 .. n : ev[i].kind = "token" /\ ev[i].n = i - 1
  BY OnlyTokens
<1> HIDE DEF w
<1>4. TokensAnd(w, n, e)
  BY <1>1, <1>2, <1>3 DEF TokensAnd
<1> QED BY <1>4 DEF w

\* The next token, and the end of a request.
LEMMA EventsContinue ==
    ASSUME NEW ev \in Seq(EventSet), NEW n \in Nat, Len(ev) = n, WellFormed(ev, n)
    PROVE  /\ ev \o <<Token(n)>> \in Seq(EventSet) /\ Len(ev \o <<Token(n)>>) = n + 1
           /\ WellFormed(ev \o <<Token(n)>>, n + 1)
           /\ \A kind \in {"cancelled", "failed", "finished"} :
                /\ ev \o <<Final(kind, n)>> \in Seq(EventSet)
                /\ ev \o <<Final(kind, n)>> # <<>>
                /\ WellFormed(ev \o <<Final(kind, n)>>, n)
<1>1. /\ Token(n) \in EventSet /\ Token(n).kind = "token" /\ Token(n).n = n
  BY DEF Token, EventSet, Kinds
<1>2. ASSUME NEW w, w = ev \o <<Token(n)>>
      PROVE  w \in Seq(EventSet) /\ Len(w) = n + 1 /\ WellFormed(w, n + 1)
  <2>0. PICK e : e = Token(n)
    OBVIOUS
  <2>1. /\ w \in Seq(EventSet) /\ Len(w) = n + 1 /\ DOMAIN w = 1 .. n + 1
        /\ \A i \in 1 .. n : w[i].kind = "token" /\ w[i].n = i - 1
        /\ w[n + 1].kind = "token" /\ w[n + 1].n = n
    <3>1. w = ev \o <<e>> /\ e \in EventSet /\ e.kind = "token" /\ e.n = n
      BY <1>1, <1>2, <2>0
    <3>2. TokensAnd(w, n, e)
      BY <3>1, TokensThen
    <3> QED BY <3>1, <3>2 DEF TokensAnd
  <2>2. \A i \in 1 .. n + 1 : i \in 1 .. n \/ i = n + 1
    OBVIOUS
  <2> QED BY <2>1, <2>2 DEF WellFormed
<1>3. ASSUME NEW e \in EventSet, NEW w, w = ev \o <<e>>
      PROVE  /\ w \in Seq(EventSet) /\ w # <<>>
             /\ e.kind # "token" /\ e.n = n => WellFormed(w, n)
  <2>1. /\ w \in Seq(EventSet) /\ Len(w) = n + 1 /\ DOMAIN w = 1 .. n + 1
        /\ \A i \in 1 .. n : w[i].kind = "token" /\ w[i].n = i - 1
        /\ w[n + 1] = e
    BY <1>3, TokensThen DEF TokensAnd
  <2>2. \A i \in 1 .. n + 1 : i \in 1 .. n \/ i = n + 1
    OBVIOUS
  <2>3. e.kind # "token" /\ e.n = n => WellFormed(w, n)
    BY <2>1, <2>2 DEF WellFormed
  <2> QED BY <2>1, <2>3, EmptySeq
<1>4. ASSUME NEW kind \in {"cancelled", "failed", "finished"}
      PROVE  /\ ev \o <<Final(kind, n)>> \in Seq(EventSet)
             /\ ev \o <<Final(kind, n)>> # <<>>
             /\ WellFormed(ev \o <<Final(kind, n)>>, n)
  <2>1. PICK e : e = Final(kind, n)
    OBVIOUS
  <2>2. e \in EventSet /\ e.kind # "token" /\ e.n = n
    BY <1>4, <2>1 DEF Final, EventSet, Kinds
  <2>3. ev \o <<e>> \in Seq(EventSet) /\ ev \o <<e>> # <<>> /\ WellFormed(ev \o <<e>>, n)
    BY <1>3, <2>2
  <2> QED BY <2>1, <2>3
<1> QED BY <1>2, <1>4

\* A delta that was held back and the cancellation it comes with.
LEMMA EventsFlushed ==
    ASSUME NEW ev \in Seq(EventSet), NEW n \in Nat, Len(ev) = n, WellFormed(ev, n),
           NEW w, w = (ev \o <<Token(n)>>) \o <<Final("cancelled", n)>>
    PROVE  w \in Seq(EventSet) /\ w # <<>> /\ WellFormed(w, n)
<1> DEFINE v == ev \o <<Token(n)>>
           f == Final("cancelled", n)
<1>1. v \in Seq(EventSet) /\ Len(v) = n + 1 /\ WellFormed(v, n + 1)
  BY EventsContinue
<1>2. f \in EventSet /\ f.kind = "cancelled" /\ f.n = n
  BY DEF Final, EventSet, Kinds
<1> HIDE DEF v, f
<1>3. DOMAIN v = 1 .. n + 1
  BY <1>1, LenProperties
<1>4. \A i \in 1 .. n + 1 : v[i].kind = "token" /\ v[i].n = i - 1
  <2>1. \A i \in 1 .. n : ev[i].kind = "token"
    BY OnlyTokens
  <2>2. Token(n) \in EventSet /\ Token(n).kind = "token"
    BY DEF Token, EventSet, Kinds
  <2>3. v[n + 1] = Token(n) /\ \A i \in 1 .. n : v[i] = ev[i]
    BY <2>2, OneMore DEF v
  <2>4. \A i \in 1 .. n + 1 : v[i].kind = "token"
    BY <2>1, <2>2, <2>3
  <2> QED BY <1>1, <1>3, <2>4 DEF WellFormed
<1>5. /\ w \in Seq(EventSet) /\ Len(w) = n + 2 /\ w[n + 2] = f
      /\ \A i \in 1 .. n + 1 : w[i] = v[i]
  <2>1. n + 1 + 1 = n + 2
    OBVIOUS
  <2>2. /\ w \in Seq(EventSet) /\ Len(w) = n + 1 + 1 /\ w[n + 1 + 1] = f
        /\ \A i \in 1 .. n + 1 : w[i] = v[i]
    <3>1. w = v \o <<f>>
      BY DEF v, f
    <3>2. n + 1 = Len(v)
      BY <1>1
    <3>3. /\ v \o <<f>> \in Seq(EventSet) /\ Len(v \o <<f>>) = n + 1 + 1
          /\ (v \o <<f>>)[n + 1 + 1] = f
          /\ \A i \in 1 .. n + 1 : (v \o <<f>>)[i] = v[i]
      BY <1>1, <1>2, <3>2, OneMore
    <3> QED BY ONLY <3>1, <3>3
  <2> QED BY <2>1, <2>2
<1>6. DOMAIN w = 1 .. n + 2
  BY <1>5, LenProperties
<1>7. \A i \in 1 .. n + 2 : i \in 1 .. n + 1 \/ i = n + 2
  OBVIOUS
<1>8. WellFormed(w, n)
  BY SMTT(30), <1>2, <1>4, <1>5, <1>6, <1>7 DEF WellFormed
<1> QED BY <1>5, <1>8, EmptySeq

\* The last token is lost: what was told before is well formed without it.
LEMMA LastLost ==
    ASSUME NEW ev \in Seq(EventSet), NEW n \in Nat, Len(ev) = n, WellFormed(ev, n)
    PROVE  WellFormedButLast(ev, n + 1)
<1>1. DOMAIN ev = 1 .. n
  BY LenProperties
<1>2. \A i \in 1 .. n : ev[i].kind = "token" /\ ev[i].n = i - 1
  BY OnlyTokens
<1> QED BY <1>1, <1>2 DEF WellFormedButLast

\* And as long as nothing more is told, it can be read either way.
LEMMA LastLostIs ==
    ASSUME NEW ev \in Seq(EventSet), NEW n \in Nat, Len(ev) = n - 1, WellFormedButLast(ev, n)
    PROVE  n - 1 \in Nat /\ WellFormed(ev, n - 1)
<1>1. n - 1 \in Nat /\ DOMAIN ev = 1 .. n - 1
  BY LenProperties
<1>2. ASSUME NEW i \in 1 .. n - 1 PROVE ev[i].kind = "token" /\ ev[i].n = i - 1
  <2>1. i # n /\ n # i - 1 /\ i \in DOMAIN ev
    BY <1>1
  <2> QED BY <2>1 DEF WellFormedButLast
<1> QED BY <1>1, <1>2 DEF WellFormed

\* What a cancellation tells after the last token was lost.
LEMMA CancelledButLast ==
    ASSUME NEW ev \in Seq(EventSet), NEW n \in Nat, Len(ev) = n - 1, WellFormedButLast(ev, n),
           NEW f, f = Final("cancelled", n)
    PROVE  /\ ev \o <<f>> \in Seq(EventSet) /\ WellFormedButLast(ev \o <<f>>, n)
           /\ (ev \o <<Token(n)>>) \o <<f>> \in Seq(EventSet)
           /\ WellFormedButLast((ev \o <<Token(n)>>) \o <<f>>, n)
<1> DEFINE m == n - 1
<1>1. m \in Nat /\ Len(ev) = m /\ WellFormed(ev, m) /\ n = m + 1
  BY LastLostIs
<1>2. f \in EventSet /\ f.kind = "cancelled" /\ f.n = n
  BY DEF Final, EventSet, Kinds
<1>3. PICK t : t = Token(n)
  OBVIOUS
<1>4. t \in EventSet /\ t.kind = "token" /\ t.n = n
  BY <1>3 DEF Token, EventSet, Kinds
<1> HIDE DEF m
<1>5. \A i \in 1 .. m + 1 : i \in 1 .. m \/ i = m + 1
  BY <1>1
<1>6. ASSUME NEW w, w = ev \o <<f>>
      PROVE  w \in Seq(EventSet) /\ WellFormedButLast(w, n)
  <2>1. TokensAnd(w, m, f)
    BY <1>1, <1>2, <1>6, TokensThen
  <2> QED BY <1>1, <1>2, <1>5, <2>1 DEF TokensAnd, WellFormedButLast
<1>7. ASSUME NEW v, v = ev \o <<t>>, NEW w, w = v \o <<f>>
      PROVE  w \in Seq(EventSet) /\ WellFormedButLast(w, n)
  <2>1. /\ v \in Seq(EventSet) /\ Len(v) = n
        /\ \A i \in 1 .. m : v[i].kind = "token" /\ v[i].n = i - 1
        /\ v[n] = t
    BY <1>1, <1>4, <1>7, TokensThen DEF TokensAnd
  <2>2. /\ w \in Seq(EventSet) /\ Len(w) = n + 1 /\ w[n + 1] = f
        /\ \A i \in 1 .. n : w[i] = v[i]
    BY <1>2, <1>7, <2>1, OneMore
  <2>3. DOMAIN w = 1 .. n + 1 /\ \A i \in 1 .. n + 1 : i \in 1 .. m \/ i = n \/ i = n + 1
    BY <1>1, <2>2, LenProperties
  <2>4. ASSUME NEW i \in DOMAIN w
        PROVE  IF w[i].kind = "token" THEN w[i].n = i - 1 \/ (w[i].n = i /\ i = n)
               ELSE /\ i = Len(w)
                    /\ w[i].kind = "cancelled" /\ w[i].n = n
                    /\ w[i].n = i \/ w[i].n = i - 1
    <3>1. CASE i \in 1 .. m
      BY <1>1, <2>1, <2>2, <3>1
    <3>2. CASE i = n
      BY <1>1, <1>4, <2>1, <2>2, <3>2
    <3>3. CASE i = n + 1
      BY <1>1, <1>2, <2>2, <3>3
    <3> QED BY <2>3, <3>1, <3>2, <3>3
  <2> QED BY <2>2, <2>4 DEF WellFormedButLast
<1> QED BY <1>3, <1>6, <1>7

-----------------------------------------------------------------------------
(* What a call does to a backend that stays up. *)

\* The requests of gone have ended and were told so, the requests of outs have a token
\* more and were told so, and nothing runs.
LEMMA StillUp ==
    ASSUME IInv, phase = "up", phase' = "up",
           NEW gone, NEW outs, outs \subseteq live,
           live' = live \ gone, UNCHANGED <<mode, open, lost>>, inflight' = {}, device' = "idle",
           faults' \in Nat, tombs' \in Seq(Requests), Len(tombs') <= Capacity,
           \A r \in Requests : committed'[r] = IF r \in outs THEN committed[r] + 1 ELSE committed[r],
           committed' \in [Requests -> Nat],
           DOMAIN entries' = Known \ gone,
           \A r \in Known \ gone :
               entries'[r] = IF r \in outs THEN Delivered(entries[r]) ELSE entries[r],
           events' \in [Requests -> Seq(EventSet)],
           \A r \in Requests \ gone :
               events'[r] = IF r \in outs THEN events[r] \o <<Token(committed[r])>> ELSE events[r],
           \A r \in gone : events'[r] # <<>> /\ WellFormed(events'[r], committed'[r])
    PROVE  IInv'
<1>1. /\ Known = live /\ live \subseteq Requests /\ IsFiniteSet(live)
      /\ Cardinality(live) <= Capacity /\ Cardinality(live) \in Nat /\ Capacity \in Nat
      /\ \A r \in live : /\ entries[r] \in EntrySet
                         /\ entries[r].ids => entries[r].next = committed[r]
                                              /\ (entries[r].prompt <=> committed[r] = 0)
                         /\ Len(events[r]) = committed[r]
      /\ \A r \in Requests \ live : events[r] = <<>> => committed[r] = 0
      /\ open /\ lost = {}
  BY FS_CardinalityType, CapacityAssumption DEF IInv, BackendTypes, UpTracked, UpIdle
<1>2. live' \subseteq live /\ live' \subseteq Requests /\ IsFiniteSet(live')
      /\ Cardinality(live') <= Capacity
  <2>1. live \ gone \in SUBSET live
    OBVIOUS
  <2>2. IsFiniteSet(live \ gone) /\ Cardinality(live \ gone) <= Cardinality(live)
        /\ Cardinality(live \ gone) \in Nat
    BY <1>1, <2>1, FS_Subset, FS_CardinalityType
  <2> QED BY <1>1, <2>2
<1>3. Known' = live'
  BY <1>1 DEF Known
<1>4. BackendTypes'
  BY <1>1, <1>2, <1>3 DEF IInv, BackendTypes
<1>5. \A r \in Requests : WellFormed(events'[r], committed'[r])
  <2> SUFFICES ASSUME NEW r \in Requests PROVE WellFormed(events'[r], committed'[r])
    OBVIOUS
  <2>1. CASE r \in gone
    BY <2>1
  <2>2. CASE r \notin gone /\ r \notin outs
    <3>1. events'[r] = events[r] /\ committed'[r] = committed[r]
      BY <2>2
    <3> QED BY <1>1, <3>1 DEF IInv, EventsWellFormed
  <2>3. CASE r \notin gone /\ r \in outs
    <3> DEFINE ev == events[r]
               n == committed[r]
    <3>1. events'[r] = ev \o <<Token(n)>> /\ committed'[r] = n + 1
      BY <2>3
    <3>2. ev \in Seq(EventSet) /\ n \in Nat /\ Len(ev) = n /\ WellFormed(ev, n)
      BY <1>1, <2>3 DEF IInv, BackendTypes, EventsWellFormed
    <3> HIDE DEF ev, n
    <3>3. WellFormed(ev \o <<Token(n)>>, n + 1)
      BY <3>2, EventsContinue
    <3> QED BY <3>1, <3>3
  <2> QED BY <2>1, <2>2, <2>3
<1>6. ASSUME NEW r \in live'
      PROVE  /\ entries'[r] \in EntrySet
             /\ entries'[r].ids => entries'[r].next = committed'[r]
                                   /\ (entries'[r].prompt <=> committed'[r] = 0)
             /\ Len(events'[r]) = committed'[r]
  <2>0. r \in live /\ r \in Known \ gone /\ r \in Requests \ gone
    BY <1>1, <1>2, <1>6
  <2>1. CASE r \notin outs
    BY <1>1, <2>0, <2>1
  <2>2. CASE r \in outs
    <3> DEFINE ev == events[r]
               n == committed[r]
    <3>1. events'[r] = ev \o <<Token(n)>> /\ committed'[r] = n + 1
      BY <2>0, <2>2
    <3>2. ev \in Seq(EventSet) /\ n \in Nat /\ Len(ev) = n /\ WellFormed(ev, n)
      BY <1>1, <2>0 DEF IInv, BackendTypes, EventsWellFormed
    <3>3. PICK e, f : e = entries[r] /\ f = entries'[r]
      OBVIOUS
    <3>4. f = Delivered(e) /\ e \in EntrySet /\ (e.ids => e.next = n)
      BY <1>1, <2>0, <2>2, <3>3
    <3> HIDE DEF ev, n
    <3>5. Len(events'[r]) = n + 1
      BY <3>1, <3>2, EventsContinue
    <3>6. f \in EntrySet /\ (f.ids => f.next = n + 1 /\ f.prompt = FALSE)
      <4>1. CASE e.ids
        <5>1. f = [e EXCEPT !.next = e.next + 1, !.prompt = FALSE]
          BY <3>4, <4>1 DEF Delivered
        <5>2. e = [ids |-> e.ids, next |-> e.next, prompt |-> e.prompt] /\ e.next \in Nat
              /\ e.ids \in BOOLEAN
          BY <3>4 DEF EntrySet
        <5>3. f = [ids |-> e.ids, next |-> e.next + 1, prompt |-> FALSE]
          BY <5>1, <5>2
        <5> QED BY <3>4, <4>1, <5>2, <5>3 DEF EntrySet
      <4>2. CASE ~e.ids
        BY <3>4, <4>2 DEF Delivered
      <4> QED BY <4>1, <4>2
    <3> QED BY <3>1, <3>2, <3>3, <3>5, <3>6
  <2> QED BY <2>1, <2>2
<1>7. ASSUME NEW r \in Requests \ live', events'[r] = <<>>
      PROVE  committed'[r] = 0
  <2>1. r \notin gone
    BY <1>7
  <2>2. r \notin live /\ r \notin outs
    BY <1>7, <2>1
  <2> QED BY <1>1, <1>7, <2>1, <2>2
<1>8. UpTracked'
  BY <1>3, <1>6, <1>7 DEF UpTracked
<1>9. UpIdle' /\ BusyOwned'
  BY <1>1 DEF UpIdle, BusyOwned
<1>10. FailedRemembered' /\ ClosedQuiet' /\ NothingFails'
  BY DEF FailedRemembered, ClosedQuiet, NothingFails
<1>11. EventsWellFormed'
  BY <1>1, <1>5 DEF EventsWellFormed
<1> QED BY <1>4, <1>8, <1>9, <1>10, <1>11 DEF IInv

\* A call that fails after nothing, the batch, or a commit was ended without telling.
LEMMA NowFailed ==
    ASSUME IInv, phase = "up", phase' = "failed", faults' = faults + 1,
           NEW gone, live' \subseteq live, UNCHANGED <<mode, open, events>>,
           device' \in {"idle", "busy"},
           device' = "busy" => inflight' # {} /\ inflight' \subseteq live',
           tombs' \in Seq(Requests), Len(tombs') <= Capacity,
           DOMAIN entries' = Known \ gone,
           \A r \in Known' \ live' : Near(tombs', r, Capacity - Cardinality(Known' \cap live')),
           committed' \in [Requests -> Nat], lost' \subseteq Requests,
           \A r \in Known' \cap live' : Told(r)', EventsWellFormed'
    PROVE  IInv'
<1>1. /\ live' \subseteq Requests /\ IsFiniteSet(live') /\ Cardinality(live') <= Capacity
  <2>1. IsFiniteSet(live) /\ live \subseteq Requests /\ Cardinality(live) <= Capacity
        /\ Cardinality(live) \in Nat /\ Capacity \in Nat
    BY FS_CardinalityType, CapacityAssumption DEF IInv, BackendTypes
  <2>2. IsFiniteSet(live') /\ Cardinality(live') <= Cardinality(live) /\ Cardinality(live') \in Nat
    BY <2>1, FS_Subset, FS_CardinalityType
  <2> QED BY <2>1, <2>2
<1>2. Known' \subseteq Requests
  BY DEF IInv, BackendTypes, Known
<1>3. BackendTypes'
  BY <1>1, <1>2 DEF IInv, BackendTypes
<1>4. open
  BY DEF IInv, UpIdle
<1>5. UpIdle' /\ UpTracked' /\ FailedRemembered' /\ ClosedQuiet'
  BY DEF UpIdle, UpTracked, FailedRemembered, ClosedQuiet
<1>6. BusyOwned'
  BY <1>4 DEF BusyOwned
<1>7. NothingFails'
  BY DEF NothingFails, IInv, BackendTypes
<1> QED BY <1>3, <1>5, <1>6, <1>7 DEF IInv

\* And when it committed nothing, nothing was lost.
LEMMA NothingLost ==
    ASSUME IInv, phase = "up", NEW gone, live' \subseteq live, DOMAIN entries' = Known \ gone,
           UNCHANGED <<committed, events, lost>>
    PROVE  /\ committed' \in [Requests -> Nat] /\ lost' \subseteq Requests
           /\ \A r \in Known' \cap live' : Told(r)'
           /\ EventsWellFormed'
<1>1. committed' \in [Requests -> Nat] /\ lost' \subseteq Requests
  BY DEF IInv, BackendTypes
<1>2. \A r \in Known' \cap live' : Told(r)'
  BY DEF IInv, UpTracked, UpIdle, Told
<1>3. EventsWellFormed'
  BY DEF IInv, EventsWellFormed
<1> QED BY <1>1, <1>2, <1>3

\* A live request of a backend that is up.
LEMMA LiveIs ==
    ASSUME IInv, phase = "up", NEW r \in live
    PROVE  /\ r \in Requests /\ r \in Known
           /\ events[r] \in Seq(EventSet) /\ committed[r] \in Nat
           /\ Len(events[r]) = committed[r] /\ WellFormed(events[r], committed[r])
           /\ entries[r] \in EntrySet
           /\ entries[r].ids => entries[r].next = committed[r]
                                /\ (entries[r].prompt <=> committed[r] = 0)
<1>1. r \in Requests /\ r \in Known /\ r \notin lost
  BY DEF IInv, BackendTypes, UpTracked, UpIdle
<1> QED BY <1>1 DEF IInv, BackendTypes, UpTracked, EventsWellFormed

\* The backend is up, so nothing is in flight.
LEMMA UpIs ==
    ASSUME IInv, phase = "up"
    PROVE  /\ inflight = {} /\ device = "idle" /\ open /\ lost = {} /\ Known = live
           /\ live \subseteq Requests /\ IsFiniteSet(live)
           /\ tombs \in Seq(Requests) /\ faults \in Nat
           /\ committed \in [Requests -> Nat] /\ events \in [Requests -> Seq(EventSet)]
  BY DEF IInv, UpIdle, UpTracked, BackendTypes

\* A sequence of events that ends one request after another is remembered.
LEMMA RememberTwo ==
    ASSUME IInv, NEW S, IsFiniteSet(S), S \subseteq Requests, NEW T, IsFiniteSet(T), T \subseteq Requests,
           NEW order \in Orders(S), NEW later \in Orders(T)
    PROVE  /\ Remember(order \o later) \in Seq(Requests)
           /\ Len(Remember(order \o later)) <= Capacity
           /\ \A r \in T : Cardinality(T) <= Capacity
                              => Near(Remember(order \o later), r, Cardinality(T))
<1>1. /\ order \in Seq(Requests) /\ later \in Seq(Requests) /\ Len(later) = Cardinality(T)
      /\ \A r \in T : \E i \in DOMAIN later : later[i] = r
  BY OrderIs
<1>2. Cardinality(T) \in Nat
  BY FS_CardinalityType
<1>3. BackendTypes /\ tombs \in Seq(Requests)
  BY DEF IInv, BackendTypes
<1>4. order \o later \in Seq(Requests)
  BY <1>1, NearAppended, 0 \in Int
<1>5. ASSUME NEW r \in T, Cardinality(T) <= Capacity
      PROVE  Near(Remember(order \o later), r, Cardinality(T))
  <2>1. PICK i \in DOMAIN later : later[i] = r
    BY <1>1
  <2>2. i >= 1 /\ i \in Nat
    BY <1>1, LenProperties
  <2>3. Near(later, r, Cardinality(T))
    BY <1>1, <1>2, <2>1, <2>2 DEF Near
  <2>4. Near(order \o later, r, Cardinality(T))
    BY <1>1, <1>2, <2>3, NearAppended
  <2>5. PICK seq, k : seq = order \o later /\ k = Cardinality(T)
    OBVIOUS
  <2>6. /\ BackendTypes /\ tombs \in Seq(Requests) /\ seq \in Seq(Requests)
        /\ k \in Int /\ k <= Capacity /\ Near(seq, r, k)
    BY <1>2, <1>3, <1>4, <1>5, <2>4, <2>5
  <2>7. Near(tombs \o seq, r, k)
    BY <2>6, NearAppended
  <2>8. Near(Remember(seq), r, k)
    BY <2>6, <2>7, RememberIs
  <2> QED BY <2>5, <2>8
<1> QED BY <1>3, <1>4, <1>5, RememberIs

\* The same with one set.
LEMMA RememberOne ==
    ASSUME IInv, NEW S, IsFiniteSet(S), S \subseteq Requests, NEW order \in Orders(S)
    PROVE  Remember(order) \in Seq(Requests) /\ Len(Remember(order)) <= Capacity
<1>1. order \in Seq(Requests)
  BY OrderIs
<1> QED BY <1>1, RememberIs DEF IInv

\* The events after a call.
LEMMA ReturnedTyped ==
    ASSUME NEW more, Returned(more), \A q \in Requests : events'[q] \in Seq(EventSet)
    PROVE  events' \in [Requests -> Seq(EventSet)]
<1>1. PICK f : f = events'
  OBVIOUS
<1>2. f = [q \in Requests |-> events[q] \o more[q]]
  BY <1>1 DEF Returned
<1>3. \A q \in Requests : f[q] \in Seq(EventSet)
  BY <1>1
<1>4. f \in [Requests -> Seq(EventSet)]
  BY <1>2, <1>3
<1> QED BY <1>1, <1>4

-----------------------------------------------------------------------------
(* One lemma per call. *)

\* A request is admitted.
LEMMA AdmitInv ==
    ASSUME IInv, NEW r \in Requests, NEW ids \in BOOLEAN, Admit(r, ids), UNCHANGED mode
    PROVE  IInv'
<1> DEFINE fresh == [ids |-> ids, next |-> 0, prompt |-> ids]
<1>1. /\ phase = "up" /\ r \notin Known /\ events[r] = <<>> /\ Cardinality(live) < Capacity
      /\ live' = live \cup {r}
      /\ UNCHANGED <<tombs, inflight, committed, open, device, resources, events, lost, phase, faults>>
  BY DEF Admit
<1>2. /\ DOMAIN entries' = Known \cup {r} /\ entries'[r] = fresh
      /\ \A q \in Known : q # r => entries'[q] = entries[q]
  BY DEF Admit
<1>3. fresh \in EntrySet /\ fresh.next = 0 /\ fresh.prompt = fresh.ids
  BY DEF EntrySet
<1> HIDE DEF fresh
<1>4. /\ inflight = {} /\ device = "idle" /\ open /\ lost = {} /\ Known = live
      /\ live \subseteq Requests /\ IsFiniteSet(live)
  BY <1>1, UpIs
<1>5. committed[r] = 0 /\ Len(events[r]) = 0
  BY <1>1, <1>4, EmptySeq DEF IInv, UpTracked
<1>6. /\ live' \subseteq Requests /\ IsFiniteSet(live') /\ Cardinality(live') <= Capacity
  <2>1. /\ Cardinality(live) \in Nat /\ Capacity \in Nat
        /\ IsFiniteSet(live') /\ Cardinality(live') = Cardinality(live) + 1
    BY <1>1, <1>4, FS_CardinalityType, FS_AddElement, CapacityAssumption
  <2> QED BY <1>1, <1>4, <2>1
<1>7. Known' = live'
  BY <1>1, <1>2, <1>4 DEF Known
<1>8. BackendTypes'
  BY <1>1, <1>6, <1>7 DEF IInv, BackendTypes
<1>9. UpTracked'
  <2>1. ASSUME NEW q \in Known'
        PROVE  /\ entries'[q] \in EntrySet
               /\ entries'[q].ids => entries'[q].next = committed'[q]
                                     /\ (entries'[q].prompt <=> committed'[q] = 0)
               /\ Len(events'[q]) = committed'[q]
    <3>1. CASE q = r
      BY <1>1, <1>2, <1>3, <1>5, <3>1
    <3>2. CASE q # r
      <4>1. q \in live /\ entries'[q] = entries[q]
        BY <1>1, <1>2, <1>4, <1>7, <2>1, <3>2
      <4> QED BY <1>1, <4>1, LiveIs
    <3> QED BY <3>1, <3>2
  <2>2. \A q \in Requests \ live' : events'[q] = <<>> => committed'[q] = 0
    BY <1>1 DEF IInv, UpTracked
  <2> QED BY <1>7, <2>1, <2>2 DEF UpTracked
<1>10. UpIdle' /\ BusyOwned' /\ FailedRemembered' /\ ClosedQuiet'
  BY <1>1, <1>4 DEF UpIdle, BusyOwned, FailedRemembered, ClosedQuiet
<1>11. NothingFails' /\ EventsWellFormed'
  BY <1>1 DEF IInv, NothingFails, EventsWellFormed
<1> QED BY <1>8, <1>9, <1>10, <1>11 DEF IInv

\* What a cancellation returns.
LEMMA CancelledEvents ==
    ASSUME IInv, NEW r \in Requests, r \notin lost, Len(events[r]) = committed[r],
           NEW flush, NEW w, w = events[r] \o CancelEvents(r, flush)
    PROVE  w \in Seq(EventSet) /\ w # <<>> /\ WellFormed(w, committed[r])
<1> DEFINE ev == events[r]
           n == committed[r]
<1>1. ev \in Seq(EventSet) /\ n \in Nat /\ Len(ev) = n /\ WellFormed(ev, n)
  BY DEF IInv, BackendTypes, EventsWellFormed
<1>2. Token(n) \in EventSet /\ Final("cancelled", n) \in EventSet
  BY <1>1 DEF Token, Final, EventSet, Kinds
<1>3. CASE flush /\ ~entries[r].ids
  <2>1. w = ev \o (<<Token(n)>> \o <<Final("cancelled", n)>>)
    BY <1>3 DEF CancelEvents
  <2> HIDE DEF ev, n
  <2>2. w = (ev \o <<Token(n)>>) \o <<Final("cancelled", n)>>
    BY <1>1, <1>2, <2>1, TwoMore
  <2>3. w \in Seq(EventSet) /\ w # <<>> /\ WellFormed(w, n)
    BY <1>1, <2>2, EventsFlushed
  <2> QED BY <2>3 DEF n
<1>4. CASE ~(flush /\ ~entries[r].ids)
  <2>1. w = ev \o (<<>> \o <<Final("cancelled", n)>>)
    BY <1>4 DEF CancelEvents
  <2> HIDE DEF ev, n
  <2>2. <<>> \o <<Final("cancelled", n)>> = <<Final("cancelled", n)>>
    <3>1. PICK f : f = Final("cancelled", n)
      OBVIOUS
    <3>2. <<f>> \in Seq(EventSet)
      BY <1>2, <3>1
    <3>3. <<>> \o <<f>> = <<f>>
      BY <3>2, ConcatEmptySeq
    <3> QED BY <3>1, <3>3
  <2>3. w \in Seq(EventSet) /\ w # <<>> /\ WellFormed(w, n)
    BY <1>1, <2>1, <2>2, EventsContinue
  <2> QED BY <2>3 DEF n
<1> QED BY <1>3, <1>4

\* And when the last token of the request was lost.
LEMMA LostCancelledEvents ==
    ASSUME IInv, NEW r \in Requests, r \in lost, Told(r),
           NEW flush, NEW w, w = events[r] \o CancelEvents(r, flush)
    PROVE  w \in Seq(EventSet) /\ WellFormedButLast(w, committed[r])
<1> DEFINE ev == events[r]
           n == committed[r]
<1>1. ev \in Seq(EventSet) /\ n \in Nat /\ Len(ev) = n - 1 /\ WellFormedButLast(ev, n)
  BY DEF IInv, BackendTypes, EventsWellFormed, Told
<1>2. PICK t, f : t = Token(n) /\ f = Final("cancelled", n)
  OBVIOUS
<1>3. t \in EventSet /\ f \in EventSet
  BY <1>1, <1>2 DEF Token, Final, EventSet, Kinds
<1>4. CASE flush /\ ~entries[r].ids
  <2>1. w = ev \o (<<t>> \o <<f>>)
    BY <1>2, <1>4 DEF CancelEvents
  <2> HIDE DEF ev, n
  <2>2. w = (ev \o <<t>>) \o <<f>>
    BY <1>1, <1>3, <2>1, TwoMore
  <2>3. w \in Seq(EventSet) /\ WellFormedButLast(w, n)
    BY <1>1, <1>2, <2>2, CancelledButLast
  <2> QED BY <2>3 DEF n
<1>5. CASE ~(flush /\ ~entries[r].ids)
  <2>1. w = ev \o (<<>> \o <<f>>)
    BY <1>2, <1>5 DEF CancelEvents
  <2> HIDE DEF ev, n
  <2>2. <<f>> \in Seq(EventSet)
    BY <1>3
  <2>3. w = ev \o <<f>>
    BY <2>1, <2>2, ConcatEmptySeq
  <2>4. w \in Seq(EventSet) /\ WellFormedButLast(w, n)
    BY <1>1, <1>2, <2>3, CancelledButLast
  <2> QED BY <2>4 DEF n
<1> QED BY <1>4, <1>5

\* A request is cancelled.
LEMMA CancelInv ==
    ASSUME IInv, NEW r \in Requests, NEW flush \in BOOLEAN, Cancel(r, flush), UNCHANGED mode
    PROVE  IInv'
<1>1. /\ phase = "up" /\ r \in live /\ live' = live \ {r} /\ tombs' = Remember(<<r>>)
      /\ entries' = Without({r})
      /\ UNCHANGED <<inflight, committed, open, device, resources, lost, phase, faults>>
  BY DEF Cancel
<1>2. /\ inflight = {} /\ device = "idle" /\ faults \in Nat
      /\ committed \in [Requests -> Nat] /\ events \in [Requests -> Seq(EventSet)]
  BY <1>1, UpIs
<1>3. tombs' \in Seq(Requests) /\ Len(tombs') <= Capacity
  <2>1. <<r>> \in Seq(Requests)
    OBVIOUS
  <2> QED BY <1>1, <2>1, RememberIs DEF IInv
<1>4. /\ DOMAIN entries' = Known \ {r}
      /\ \A q \in Known \ {r} : entries'[q] = entries[q]
  BY <1>1 DEF Without
<1> DEFINE w == events[r] \o CancelEvents(r, flush)
<1>5. events'[r] = w /\ \A q \in Requests : q # r => events'[q] = events[q] \o <<>>
  BY DEF Cancel, Returned, Nothing
<1>6. w \in Seq(EventSet) /\ w # <<>> /\ WellFormed(w, committed[r])
  <2>1. Len(events[r]) = committed[r] /\ r \notin lost
    BY <1>1, LiveIs, UpIs
  <2> QED BY <2>1, CancelledEvents
<1> HIDE DEF w
<1>7. \A q \in Requests : q # r => events'[q] = events[q]
  BY <1>2, <1>5, ConcatEmptySeq
<1>8. events' \in [Requests -> Seq(EventSet)]
  <2>1. \A q \in Requests : events'[q] \in Seq(EventSet)
    BY <1>2, <1>5, <1>6, <1>7
  <2> QED BY <2>1, ReturnedTyped DEF Cancel
<1> DEFINE gone == {r}
           outs == {}
<1>9. /\ outs \subseteq live /\ live' = live \ gone
      /\ \A q \in Requests : committed'[q] = IF q \in outs THEN committed[q] + 1 ELSE committed[q]
      /\ DOMAIN entries' = Known \ gone
      /\ \A q \in Known \ gone :
               entries'[q] = IF q \in outs THEN Delivered(entries[q]) ELSE entries[q]
      /\ \A q \in Requests \ gone :
               events'[q] = IF q \in outs THEN events[q] \o <<Token(committed[q])>> ELSE events[q]
      /\ \A q \in gone : events'[q] # <<>> /\ WellFormed(events'[q], committed'[q])
  BY <1>1, <1>4, <1>5, <1>6, <1>7
<1> HIDE DEF gone, outs
<1> QED BY <1>1, <1>2, <1>3, <1>8, <1>9, StillUp

\* The requests of gone fail, and are told so.
LEMMA EndedInv ==
    ASSUME IInv, phase = "up", NEW gone \in SUBSET live, live' = live \ gone,
           tombs' \in Seq(Requests), Len(tombs') <= Capacity,
           entries' = Without(gone),
           Returned([r \in Requests |-> IF r \in gone THEN <<Final("failed", committed[r])>> ELSE <<>>]),
           inflight' = {}, device' = "idle", faults' \in Nat,
           UNCHANGED <<mode, committed, open, lost, phase>>
    PROVE  IInv'
<1> DEFINE more == [r \in Requests |-> IF r \in gone THEN <<Final("failed", committed[r])>> ELSE <<>>]
<1>1. /\ live \subseteq Requests /\ committed \in [Requests -> Nat]
      /\ events \in [Requests -> Seq(EventSet)]
  BY UpIs
<1>2. \A r \in Requests : events'[r] = events[r] \o more[r]
  <2> HIDE DEF more
  <2> QED BY DEF Returned, more
<1>3. \A r \in Requests \ gone : events'[r] = events[r]
  <2>1. \A r \in Requests \ gone : more[r] = <<>>
    OBVIOUS
  <2> QED BY <1>1, <1>2, <2>1, ConcatEmptySeq
<1>4. ASSUME NEW r \in gone
      PROVE  /\ events'[r] \in Seq(EventSet) /\ events'[r] # <<>>
             /\ WellFormed(events'[r], committed[r])
  <2> DEFINE ev == events[r]
             n == committed[r]
  <2>1. ev \in Seq(EventSet) /\ n \in Nat /\ Len(ev) = n /\ WellFormed(ev, n) /\ r \in Requests
    BY <1>1, <1>4, LiveIs
  <2>2. more[r] = <<Final("failed", n)>>
    BY <1>4, <2>1
  <2>3. events'[r] = ev \o <<Final("failed", n)>>
    BY <1>2, <2>1, <2>2
  <2> HIDE DEF ev, n
  <2>4. /\ ev \o <<Final("failed", n)>> \in Seq(EventSet) /\ ev \o <<Final("failed", n)>> # <<>>
        /\ WellFormed(ev \o <<Final("failed", n)>>, n)
    BY <2>1, EventsContinue
  <2> QED BY <2>3, <2>4 DEF n
<1> HIDE DEF more
<1>5. events' \in [Requests -> Seq(EventSet)]
  <2>1. \A r \in Requests : events'[r] \in Seq(EventSet)
    BY <1>1, <1>3, <1>4
  <2> QED BY <2>1, ReturnedTyped DEF more
<1>6. /\ DOMAIN entries' = Known \ gone
      /\ \A r \in Known \ gone : entries'[r] = entries[r]
  BY DEF Without
<1> DEFINE outs == {}
<1>7. /\ outs \subseteq live
      /\ \A q \in Requests : committed'[q] = IF q \in outs THEN committed[q] + 1 ELSE committed[q]
      /\ \A q \in Known \ gone :
               entries'[q] = IF q \in outs THEN Delivered(entries[q]) ELSE entries[q]
      /\ \A q \in Requests \ gone :
               events'[q] = IF q \in outs THEN events[q] \o <<Token(committed[q])>> ELSE events[q]
      /\ \A q \in gone : events'[q] # <<>> /\ WellFormed(events'[q], committed'[q])
  BY <1>3, <1>4, <1>6
<1> HIDE DEF outs
<1> QED BY <1>1, <1>5, <1>6, <1>7, StillUp

\* Requests that waited too long leave with a plan.
LEMMA TimedOutIs ==
    ASSUME NEW expired, \A r \in expired : committed[r] = 0
    PROVE  TimedOut(expired)
             = [r \in Requests |-> IF r \in expired THEN <<Final("failed", committed[r])>> ELSE <<>>]
  BY DEF TimedOut

\* The scheduler planned nothing.
LEMMA StepWithoutPlanInv ==
    ASSUME IInv, NEW expired \in SUBSET live, StepWithoutPlan(expired), UNCHANGED mode
    PROVE  IInv'
<1>1. /\ phase = "up" /\ live' = live \ expired /\ entries' = Without(expired)
      /\ Returned(TimedOut(expired)) /\ \A r \in expired : committed[r] = 0
      /\ UNCHANGED <<inflight, committed, open, device, resources, lost, phase, faults>>
  BY DEF StepWithoutPlan
<1>2. PICK order \in Orders(expired) : tombs' = Remember(order)
  BY DEF StepWithoutPlan
<1>3. /\ inflight = {} /\ device = "idle" /\ faults \in Nat /\ live \subseteq Requests
      /\ IsFiniteSet(live)
  BY <1>1, UpIs
<1>4. IsFiniteSet(expired) /\ expired \subseteq Requests
  BY <1>3, FS_Subset
<1>5. tombs' \in Seq(Requests) /\ Len(tombs') <= Capacity
  BY <1>2, <1>4, RememberOne
<1>6. Returned([r \in Requests |-> IF r \in expired THEN <<Final("failed", committed[r])>> ELSE <<>>])
  BY <1>1, TimedOutIs
<1> QED BY <1>1, <1>3, <1>5, <1>6, EndedInv

\* The plan of an iteration.
LEMMA PlanIs ==
    ASSUME IInv, phase = "up", NEW expired \in SUBSET live, NEW batch \in SUBSET live,
           batch \subseteq live \ expired
    PROVE  /\ IsFiniteSet(expired) /\ expired \subseteq Requests
           /\ IsFiniteSet(batch) /\ batch \subseteq Requests /\ Cardinality(batch) <= Capacity
           /\ \A S : S \subseteq live \ (batch \cup expired) =>
                Cardinality(batch) <= Capacity - Cardinality(S)
<1>1. /\ live \subseteq Requests /\ IsFiniteSet(live) /\ Cardinality(live) <= Capacity
      /\ Capacity \in Nat
  BY CapacityAssumption DEF IInv, BackendTypes
<1>2. /\ IsFiniteSet(expired) /\ IsFiniteSet(batch) /\ Cardinality(batch) <= Cardinality(live)
      /\ Cardinality(live) \in Nat /\ Cardinality(batch) \in Nat
  BY <1>1, FS_Subset, FS_CardinalityType
<1>3. ASSUME NEW S, S \subseteq live \ (batch \cup expired)
      PROVE  Cardinality(batch) <= Capacity - Cardinality(S)
  <2>1. S \in SUBSET live /\ S \cup batch \in SUBSET live /\ S \cap batch = {}
    BY <1>3
  <2>2. IsFiniteSet(S) /\ Cardinality(S \cup batch) <= Cardinality(live)
        /\ Cardinality(S) \in Nat /\ Cardinality(S \cup batch) \in Nat
    BY <1>1, <2>1, FS_Subset, FS_CardinalityType
  <2>3. Cardinality(S \cup batch) = Cardinality(S) + Cardinality(batch) - Cardinality(S \cap batch)
    BY <1>2, <2>2, FS_Union
  <2>4. Cardinality(S \cap batch) = 0
    BY <2>1, FS_EmptySet
  <2> QED BY <1>1, <1>2, <2>2, <2>3, <2>4
<1> QED BY <1>1, <1>2, <1>3

\* What an aborted iteration leaves in the scheduler.
LEMMA PoisonIs ==
    ASSUME IInv, phase = "up", NEW expired \in SUBSET live, NEW batch \in SUBSET live,
           batch \subseteq live \ expired, Poison(batch, expired)
    PROVE  /\ inflight' = {} /\ live' = live \ (batch \cup expired)
           /\ tombs' \in Seq(Requests) /\ Len(tombs') <= Capacity
           /\ \A r \in batch : Near(tombs', r, Cardinality(batch))
<1>1. PICK order \in Orders(expired), later \in Orders(batch) : tombs' = Remember(order \o later)
  BY DEF Poison
<1>2. /\ IsFiniteSet(expired) /\ expired \subseteq Requests
      /\ IsFiniteSet(batch) /\ batch \subseteq Requests /\ Cardinality(batch) <= Capacity
  BY PlanIs
<1>3. /\ tombs' \in Seq(Requests) /\ Len(tombs') <= Capacity
      /\ \A r \in batch : Near(tombs', r, Cardinality(batch))
  BY <1>1, <1>2, RememberTwo
<1> QED BY <1>3 DEF Poison

\* The iteration fails and the backend with it: what it ended is still remembered.
LEMMA PoisonedInv ==
    ASSUME IInv, phase = "up", NEW expired \in SUBSET live, NEW batch \in SUBSET live,
           batch \subseteq live \ expired, Poison(batch, expired), Failed, faults' = faults + 1,
           entries' = Without(expired), UNCHANGED <<mode, committed, open, device, lost>>
    PROVE  IInv'
<1>1. /\ inflight' = {} /\ live' = live \ (batch \cup expired)
      /\ tombs' \in Seq(Requests) /\ Len(tombs') <= Capacity
      /\ \A r \in batch : Near(tombs', r, Cardinality(batch))
  BY PoisonIs
<1>2. phase' = "failed" /\ UNCHANGED events /\ DOMAIN entries' = Known \ expired
  BY DEF Failed, Without
<1>3. Known = live /\ device = "idle"
  BY UpIs
<1>4. ASSUME NEW r \in Known' \ live'
      PROVE  Near(tombs', r, Capacity - Cardinality(Known' \cap live'))
  <2> DEFINE S == Known' \cap live'
  <2>1. r \in batch
    BY <1>1, <1>2, <1>3, <1>4 DEF Known
  <2>2. S \subseteq live \ (batch \cup expired)
    BY <1>1
  <2>3. IsFiniteSet(S) /\ Cardinality(S) \in Nat
    BY <1>1, UpIs, FS_Subset, FS_CardinalityType
  <2>4. Cardinality(batch) <= Capacity - Cardinality(S) /\ IsFiniteSet(batch)
    BY <2>2, PlanIs
  <2>5. Cardinality(batch) \in Int /\ Capacity - Cardinality(S) \in Int
    BY <2>3, <2>4, FS_CardinalityType, CapacityAssumption
  <2> HIDE DEF S
  <2>6. Near(tombs', r, Capacity - Cardinality(S))
    <3>1. PICK t, k, m : t = tombs' /\ k = Cardinality(batch) /\ m = Capacity - Cardinality(S)
      OBVIOUS
    <3>2. t \in Seq(Requests) /\ k \in Int /\ m \in Int /\ k <= m /\ Near(t, r, k)
      BY <1>1, <2>1, <2>4, <2>5, <3>1
    <3>3. Near(t, r, m)
      BY <3>2, NearMore
    <3> QED BY <3>1, <3>3
  <2> QED BY <2>6 DEF S
<1>5. /\ committed' \in [Requests -> Nat] /\ lost' \subseteq Requests
      /\ \A r \in Known' \cap live' : Told(r)'
      /\ EventsWellFormed'
  <2>1. live' \subseteq live
    BY <1>1
  <2> QED BY <1>2, <2>1, NothingLost
<1> QED BY <1>1, <1>2, <1>3, <1>4, <1>5, NowFailed

\* The device fails the iteration.
LEMMA StepExecutionFailsInv ==
    ASSUME IInv, NEW expired \in SUBSET live, NEW batch \in SUBSET live,
           StepExecutionFails(batch, expired), UNCHANGED mode
    PROVE  IInv'
<1>1. /\ phase = "up" /\ inflight = {} /\ batch # {} /\ batch \subseteq live \ expired
      /\ faults' = faults + 1 /\ UNCHANGED <<committed, open, resources, lost>>
      /\ \A r \in expired : committed[r] = 0
  BY DEF StepExecutionFails, Fault
<1>2. PICK failure \in Failures : Settle(batch, expired, failure)
  BY DEF StepExecutionFails
<1>3. Known = live /\ device = "idle" /\ faults \in Nat
  BY <1>1, UpIs
<1>4. CASE failure = "quiesced"
  <2> DEFINE gone == batch \cup expired
  <2>1. /\ UNCHANGED <<device, phase>> /\ Poison(batch, expired) /\ entries' = Without(gone)
        /\ Returned([r \in Requests |-> IF r \in gone THEN <<Final("failed", committed[r])>> ELSE <<>>])
    BY <1>2, <1>4 DEF Settle
  <2>2. /\ inflight' = {} /\ live' = live \ gone
        /\ tombs' \in Seq(Requests) /\ Len(tombs') <= Capacity
    BY <1>1, <2>1, PoisonIs
  <2>3. gone \in SUBSET live
    OBVIOUS
  <2> HIDE DEF gone
  <2> QED BY <1>1, <1>3, <2>1, <2>2, <2>3, EndedInv
<1>5. CASE failure # "quiesced"
  <2>1. /\ device' = IF failure = "unknown" THEN "busy" ELSE "idle"
        /\ live' = live \ expired
        /\ inflight' = IF failure = "not_dispatched" /\ ~Graph THEN {} ELSE batch
        /\ entries' = Without(expired) /\ phase' = "failed" /\ UNCHANGED events
        /\ \E order \in Orders(expired) : tombs' = Remember(order)
    BY <1>2, <1>5 DEF Settle, Failed
  <2>2. tombs' \in Seq(Requests) /\ Len(tombs') <= Capacity
    BY <1>1, <2>1, PlanIs, RememberOne
  <2>3. DOMAIN entries' = Known \ expired /\ Known' \ live' = {}
    BY <1>3, <2>1 DEF Without, Known
  <2>4. device' = "busy" => inflight' # {} /\ inflight' \subseteq live'
    BY <1>1, <2>1
  <2>5. live' \subseteq live
    BY <2>1
  <2>6. /\ committed' \in [Requests -> Nat] /\ lost' \subseteq Requests
        /\ \A r \in Known' \cap live' : Told(r)'
        /\ EventsWellFormed'
    BY <1>1, <2>1, <2>3, <2>5, NothingLost
  <2> QED BY <1>1, <2>1, <2>2, <2>3, <2>4, <2>5, <2>6, NowFailed
<1> QED BY <1>4, <1>5

\* The host fails the iteration once the device is done.
LEMMA StepHostFailsInv ==
    ASSUME IInv, NEW expired \in SUBSET live, NEW batch \in SUBSET live,
           StepHostFails(batch, expired), UNCHANGED mode
    PROVE  IInv'
  BY PoisonedInv DEF StepHostFails, Fault

\* The commit is contained by the scheduler.
LEMMA StepCommitContainedInv ==
    ASSUME IInv, NEW expired \in SUBSET live, NEW batch \in SUBSET live,
           StepCommitContained(batch, expired), UNCHANGED mode
    PROVE  IInv'
<1>1. /\ phase = "up" /\ batch \subseteq live \ expired
      /\ faults' = faults + 1 /\ UNCHANGED <<committed, open, device, resources, lost>>
      /\ Poison(batch, expired)
  BY DEF StepCommitContained, Fault
<1>2. CASE Failed /\ entries' = Without(expired)
  BY <1>1, <1>2, PoisonedInv
<1>3. CASE /\ entries' = Without(batch \cup expired)
           /\ Returned([r \in Requests |-> IF r \in batch \cup expired
                                           THEN <<Final("failed", committed[r])>> ELSE <<>>])
           /\ UNCHANGED phase
  <2> DEFINE gone == batch \cup expired
  <2>1. /\ entries' = Without(gone) /\ UNCHANGED phase
        /\ Returned([r \in Requests |-> IF r \in gone THEN <<Final("failed", committed[r])>> ELSE <<>>])
    BY <1>3
  <2>2. /\ inflight' = {} /\ live' = live \ gone
        /\ tombs' \in Seq(Requests) /\ Len(tombs') <= Capacity
    BY <1>1, PoisonIs
  <2>3. gone \in SUBSET live /\ device' = "idle" /\ faults' \in Nat
    BY <1>1, UpIs
  <2> HIDE DEF gone
  <2> QED BY <1>1, <2>1, <2>2, <2>3, EndedInv
<1> QED BY <1>2, <1>3 DEF StepCommitContained

\* Empty parts of what a call returns.
LEMMA EmptyParts ==
    ASSUME NEW a \in Seq(EventSet)
    PROVE  /\ (<<>> \o a) \o <<>> = a /\ (a \o <<>>) \o <<>> = a
           /\ <<>> \o a = a /\ a \o <<>> = a
<1>1. <<>> \o a = a /\ a \o <<>> = a
  BY ConcatEmptySeq
<1> QED BY <1>1

\* The entry of a request that is tracked, after its next token.
LEMMA DeliveredIs ==
    ASSUME NEW e \in EntrySet, NEW n \in Nat, e.ids => e.next = n
    PROVE  Complete(Delivered(e), n + 1)
<1>1. CASE ~e.ids
  BY <1>1 DEF Delivered, Complete
<1>2. CASE e.ids
  <2>1. PICK f : f = Delivered(e)
    OBVIOUS
  <2>2. f = [e EXCEPT !.next = e.next + 1, !.prompt = FALSE]
    BY <1>2, <2>1 DEF Delivered
  <2>3. e = [ids |-> e.ids, next |-> e.next, prompt |-> e.prompt]
    BY DEF EntrySet
  <2>4. f = [ids |-> e.ids, next |-> e.next + 1, prompt |-> FALSE]
    BY <2>2, <2>3
  <2>5. f.next = n + 1 /\ ~f.prompt
    BY <1>2, <2>4
  <2>6. Complete(f, n + 1)
    BY <2>5 DEF Complete
  <2> QED BY <2>1, <2>6
<1> QED BY <1>1, <1>2

\* An iteration is committed and published.
LEMMA StepCommitsInv ==
    ASSUME IInv, NEW expired \in SUBSET live, NEW batch \in SUBSET live,
           NEW outputs \in SUBSET batch, NEW stops \in SUBSET outputs,
           StepCommits(batch, outputs, stops, expired), UNCHANGED mode
    PROVE  IInv'
<1> DEFINE ends == {r \in outputs : EndsNow(r, committed[r] + 1, stops)}
           after == [r \in Known |-> IF r \in outputs THEN Delivered(entries[r]) ELSE entries[r]]
           more == [r \in Requests |->
                    TimedOut(expired)[r]
                    \o (IF r \in outputs THEN <<Token(committed[r])>> ELSE <<>>)
                    \o (IF r \in ends THEN <<Final("finished", committed[r] + 1)>> ELSE <<>>)]
           gone == ends \cup expired
<1>1. /\ phase = "up" /\ batch \subseteq live \ expired
      /\ \A r \in expired : committed[r] = 0
      /\ committed' = [r \in Requests |-> IF r \in outputs THEN committed[r] + 1 ELSE committed[r]]
      /\ live' = live \ gone
      /\ entries' = [r \in Known \ gone |-> after[r]]
      /\ UNCHANGED <<inflight, open, device, resources, lost, faults>>
  BY DEF StepCommits, Commit, Ending, Published
<1>2. /\ inflight = {} /\ device = "idle" /\ Known = live
      /\ live \subseteq Requests /\ IsFiniteSet(live) /\ faults \in Nat
      /\ committed \in [Requests -> Nat] /\ events \in [Requests -> Seq(EventSet)]
  BY <1>1, UpIs
<1>3. \E order \in Orders(expired), later \in Orders(ends) : tombs' = Remember(order \o later)
  BY DEF StepCommits, Ending
<1>4. IF (\A r \in outputs : Deliverable(r)) /\ (\A r \in ends : Complete(after[r], committed'[r]))
      THEN UNCHANGED phase /\ Returned(more)
      ELSE phase' = "broken" /\ UNCHANGED events
  BY DEF StepCommits, Ending, Published
<1>5. /\ outputs \subseteq live /\ ends \subseteq outputs /\ outputs \cap expired = {}
      /\ ends \subseteq Requests /\ expired \subseteq Requests
      /\ ends \in SUBSET live /\ expired \in SUBSET live
  BY <1>1, <1>2
<1>6. IsFiniteSet(ends) /\ IsFiniteSet(expired)
  <2> HIDE DEF ends
  <2> QED BY <1>2, <1>5, FS_Subset
<1>7. tombs' \in Seq(Requests) /\ Len(tombs') <= Capacity
  <2> HIDE DEF ends
  <2> QED BY <1>3, <1>5, <1>6, RememberTwo
<1>8. /\ \A r \in Requests : committed'[r] = IF r \in outputs THEN committed[r] + 1 ELSE committed[r]
      /\ committed' \in [Requests -> Nat]
  BY <1>1, <1>2
<1>9. /\ DOMAIN entries' = Known \ gone
      /\ \A r \in Known \ gone :
           entries'[r] = IF r \in outputs THEN Delivered(entries[r]) ELSE entries[r]
  BY <1>1
<1>10. \A r \in outputs : Deliverable(r)
  <2> SUFFICES ASSUME NEW r \in outputs, entries[r].ids
               PROVE  committed[r] = entries[r].next /\ (committed[r] = 0) = entries[r].prompt
    BY DEF Deliverable
  <2>1. /\ entries[r] \in EntrySet /\ entries[r].next = committed[r]
        /\ (entries[r].prompt <=> committed[r] = 0)
    BY <1>1, <1>5, LiveIs
  <2>2. entries[r].prompt \in BOOLEAN
    BY <2>1 DEF EntrySet
  <2> QED BY <2>1, <2>2
<1>11. \A r \in ends : Complete(after[r], committed'[r])
  <2> SUFFICES ASSUME NEW r \in ends PROVE Complete(after[r], committed'[r])
    OBVIOUS
  <2>1. /\ r \in Known /\ r \in outputs /\ r \in Requests /\ r \in live
    BY <1>2, <1>5
  <2>2. /\ entries[r] \in EntrySet /\ committed[r] \in Nat
        /\ entries[r].ids => entries[r].next = committed[r]
    BY <1>1, <2>1, LiveIs
  <2>3. after[r] = Delivered(entries[r]) /\ committed'[r] = committed[r] + 1
    BY <1>8, <2>1
  <2>4. Complete(Delivered(entries[r]), committed[r] + 1)
    BY <2>2, DeliveredIs
  <2> QED BY <2>3, <2>4
<1>12. UNCHANGED phase /\ Returned(more)
  BY <1>4, <1>10, <1>11
<1> HIDE DEF after
<1>13. \A r \in Requests : events'[r] = events[r] \o more[r]
  <2> HIDE DEF more
  <2> QED BY <1>12 DEF Returned
<1>14. \A r \in Requests : r \notin expired => TimedOut(expired)[r] = <<>>
  BY DEF TimedOut
<1>15. ASSUME NEW r \in Requests, r \notin outputs, r \notin expired
       PROVE  events'[r] = events[r]
  <2>1. more[r] = (<<>> \o <<>>) \o <<>>
    BY <1>5, <1>14, <1>15
  <2>2. more[r] = <<>>
    <3>1. <<>> \in Seq(EventSet)
      BY EmptySeq
    <3> QED BY <2>1, <3>1, EmptyParts
  <2> HIDE DEF more
  <2>3. events[r] \in Seq(EventSet)
    BY <1>2
  <2> QED BY <1>13, <2>2, <2>3, EmptyParts
<1>16. ASSUME NEW r \in outputs, r \notin ends
       PROVE  events'[r] = events[r] \o <<Token(committed[r])>>
  <2>1. r \in Requests /\ r \notin expired /\ committed[r] \in Nat
    BY <1>2, <1>5
  <2>2. more[r] = (<<>> \o <<Token(committed[r])>>) \o <<>>
    BY <1>14, <1>16, <2>1
  <2>3. PICK e : e = Token(committed[r])
    OBVIOUS
  <2>4. e \in EventSet
    BY <2>1, <2>3 DEF Token, EventSet, Kinds
  <2>5. <<e>> \in Seq(EventSet)
    BY <2>4
  <2>6. more[r] = <<e>>
    <3>1. (<<>> \o <<e>>) \o <<>> = <<e>>
      BY <2>5, EmptyParts
    <3> HIDE DEF more
    <3> QED BY <2>2, <2>3, <3>1
  <2> HIDE DEF more
  <2> QED BY <1>13, <2>1, <2>3, <2>6
<1>17. ASSUME NEW r \in ends
       PROVE  /\ events'[r] \in Seq(EventSet) /\ events'[r] # <<>>
              /\ WellFormed(events'[r], committed'[r])
  <2> DEFINE ev == events[r]
             n == committed[r]
  <2>1. /\ r \in Requests /\ r \notin expired /\ r \in outputs /\ r \in live
        /\ ev \in Seq(EventSet) /\ n \in Nat /\ Len(ev) = n /\ WellFormed(ev, n)
    BY <1>1, <1>2, <1>5, LiveIs
  <2>2. more[r] = (<<>> \o <<Token(n)>>) \o <<Final("finished", n + 1)>>
    BY <1>14, <1>17, <2>1
  <2>3. events'[r] = ev \o more[r] /\ committed'[r] = n + 1
    BY <1>8, <1>13, <2>1
  <2> HIDE DEF ev, n, more
  <2>4. Token(n) \in EventSet /\ Final("finished", n + 1) \in EventSet
    BY <2>1 DEF Token, Final, EventSet, Kinds
  <2>5. <<>> \o <<Token(n)>> = <<Token(n)>>
    <3>1. PICK e : e = Token(n)
      OBVIOUS
    <3>2. <<e>> \in Seq(EventSet)
      BY <2>4, <3>1
    <3>3. <<>> \o <<e>> = <<e>>
      BY <3>2, EmptyParts
    <3> QED BY <3>1, <3>3
  <2>6. events'[r] = ev \o (<<Token(n)>> \o <<Final("finished", n + 1)>>)
    BY <2>2, <2>3, <2>5
  <2>7. events'[r] = (ev \o <<Token(n)>>) \o <<Final("finished", n + 1)>>
    BY <2>1, <2>4, <2>6, TwoMore
  <2>8. PICK v, m : v = ev \o <<Token(n)>> /\ m = n + 1
    OBVIOUS
  <2>9. v \in Seq(EventSet) /\ m \in Nat /\ Len(v) = m /\ WellFormed(v, m)
    <3>1. /\ ev \o <<Token(n)>> \in Seq(EventSet) /\ Len(ev \o <<Token(n)>>) = n + 1
          /\ WellFormed(ev \o <<Token(n)>>, n + 1)
      BY <2>1, EventsContinue
    <3>2. n + 1 \in Nat
      BY <2>1
    <3> QED BY <2>8, <3>1, <3>2, Zenon
  <2>10. /\ v \o <<Final("finished", m)>> \in Seq(EventSet)
         /\ v \o <<Final("finished", m)>> # <<>>
         /\ WellFormed(v \o <<Final("finished", m)>>, m)
    BY <2>9, EventsContinue
  <2> QED BY <2>3, <2>7, <2>8, <2>10
<1>18. ASSUME NEW r \in expired
       PROVE  /\ events'[r] \in Seq(EventSet) /\ events'[r] # <<>>
              /\ WellFormed(events'[r], committed'[r])
  <2> DEFINE ev == events[r]
  <2>1. /\ r \in Requests /\ r \notin outputs /\ r \notin ends /\ r \in live /\ committed[r] = 0
        /\ ev \in Seq(EventSet) /\ Len(ev) = 0 /\ WellFormed(ev, 0)
    BY <1>1, <1>2, <1>5, <1>18, LiveIs
  <2>2. TimedOut(expired)[r] = <<Final("failed", 0)>>
    BY <1>18, <2>1 DEF TimedOut
  <2>3. more[r] = (<<Final("failed", 0)>> \o <<>>) \o <<>>
    BY <2>1, <2>2
  <2>4. events'[r] = ev \o more[r] /\ committed'[r] = 0
    BY <1>8, <1>13, <2>1
  <2> HIDE DEF ev, more
  <2>5. more[r] = <<Final("failed", 0)>>
    <3>1. PICK e : e = Final("failed", 0)
      OBVIOUS
    <3>2. e \in EventSet
      BY <3>1 DEF Final, EventSet, Kinds
    <3>3. <<e>> \in Seq(EventSet)
      BY <3>2
    <3>4. (<<e>> \o <<>>) \o <<>> = <<e>>
      BY <3>3, EmptyParts
    <3> QED BY <2>3, <3>1, <3>4
  <2>6. /\ ev \o <<Final("failed", 0)>> \in Seq(EventSet) /\ ev \o <<Final("failed", 0)>> # <<>>
        /\ WellFormed(ev \o <<Final("failed", 0)>>, 0)
    BY <2>1, EventsContinue
  <2> QED BY <2>4, <2>5, <2>6
<1>19. events' \in [Requests -> Seq(EventSet)]
  <2>1. ASSUME NEW r \in Requests PROVE events'[r] \in Seq(EventSet)
    <3>1. CASE r \notin outputs /\ r \notin expired
      BY <1>2, <1>15, <3>1
    <3>2. CASE r \in ends
      BY <1>17, <3>2
    <3>3. CASE r \in expired
      BY <1>18, <3>3
    <3>4. CASE r \in outputs /\ r \notin ends
      <4>1. /\ r \in live /\ events[r] \in Seq(EventSet) /\ committed[r] \in Nat
            /\ Len(events[r]) = committed[r] /\ WellFormed(events[r], committed[r])
        BY <1>1, <1>5, <3>4, LiveIs
      <4>2. events[r] \o <<Token(committed[r])>> \in Seq(EventSet)
        BY <4>1, EventsContinue
      <4> QED BY <1>16, <3>4, <4>2
    <3> QED BY <3>1, <3>2, <3>3, <3>4
  <2> HIDE DEF more
  <2> QED BY <1>12, <2>1, ReturnedTyped
<1>20. /\ \A r \in Requests \ gone :
            events'[r] = IF r \in outputs THEN events[r] \o <<Token(committed[r])>> ELSE events[r]
       /\ \A r \in gone : events'[r] # <<>> /\ WellFormed(events'[r], committed'[r])
  <2> HIDE DEF ends, more
  <2> QED BY <1>15, <1>16, <1>17, <1>18
<1> HIDE DEF ends, more, gone
<1> QED BY <1>1, <1>2, <1>5, <1>7, <1>8, <1>9, <1>12, <1>19, <1>20, StillUp

\* The audit refuses a record of a committed iteration.
LEMMA StepAuditFailsInv ==
    ASSUME IInv, NEW expired \in SUBSET live, NEW batch \in SUBSET live,
           NEW outputs \in SUBSET batch, NEW stops \in SUBSET outputs,
           StepAuditFails(batch, outputs, stops, expired), UNCHANGED mode
    PROVE  IInv'
<1> DEFINE ends == Ending(outputs, stops)
<1>1. /\ phase = "up" /\ batch \subseteq live \ expired
      /\ committed' = [r \in Requests |-> IF r \in outputs THEN committed[r] + 1 ELSE committed[r]]
      /\ live' = live \ (ends \cup expired)
      /\ UNCHANGED <<inflight, open, device, resources>>
      /\ faults' = faults + 1 /\ lost' = outputs
      /\ phase' = "failed" /\ UNCHANGED events
  BY DEF StepAuditFails, Commit, Fault, Failed
<1>2. PICK order \in Orders(expired), later \in Orders(ends) :
          /\ tombs' = Remember(order \o later)
          /\ \E i \in DOMAIN later :
              DOMAIN entries' = Known \ (expired \cup {later[j] : j \in 1 .. i})
  BY DEF StepAuditFails
<1>3. PICK i \in DOMAIN later :
          DOMAIN entries' = Known \ (expired \cup {later[j] : j \in 1 .. i})
  BY <1>2
<1> DEFINE gone == expired \cup {later[j] : j \in 1 .. i}
<1>4. /\ inflight = {} /\ device = "idle" /\ Known = live /\ lost = {}
      /\ live \subseteq Requests /\ IsFiniteSet(live)
      /\ committed \in [Requests -> Nat] /\ events \in [Requests -> Seq(EventSet)]
  BY <1>1, UpIs
<1>5. ends \subseteq outputs /\ ends \in SUBSET live /\ ends \subseteq live \ expired
      /\ outputs \subseteq live /\ lost' \subseteq Requests
  BY <1>1, <1>4 DEF Ending
<1> HIDE DEF ends
<1>6. /\ IsFiniteSet(ends) /\ ends \subseteq Requests /\ Cardinality(ends) <= Capacity
      /\ IsFiniteSet(expired) /\ expired \subseteq Requests
      /\ \A S : S \subseteq live \ (ends \cup expired) =>
                Cardinality(ends) <= Capacity - Cardinality(S)
  BY <1>1, <1>5, PlanIs
<1>7. /\ tombs' \in Seq(Requests) /\ Len(tombs') <= Capacity
      /\ \A r \in ends : Near(tombs', r, Cardinality(ends))
  BY <1>2, <1>6, RememberTwo
<1>8. DOMAIN entries' = Known \ gone
  BY <1>3
<1> HIDE DEF gone
<1>9. ASSUME NEW r \in Known' \ live'
      PROVE  Near(tombs', r, Capacity - Cardinality(Known' \cap live'))
  <2> DEFINE S == Known' \cap live'
  <2>1. r \in ends
    BY <1>1, <1>4, <1>8, <1>9 DEF Known, gone
  <2>2. S \subseteq live \ (ends \cup expired)
    BY <1>1
  <2>3. IsFiniteSet(S) /\ Cardinality(S) \in Nat
    BY <1>4, <2>2, FS_Subset, FS_CardinalityType
  <2>4. /\ Cardinality(ends) <= Capacity - Cardinality(S)
        /\ Cardinality(ends) \in Int /\ Capacity - Cardinality(S) \in Int
    BY <1>6, <2>2, <2>3, FS_CardinalityType, CapacityAssumption
  <2> HIDE DEF S
  <2>5. PICK t, k, m : t = tombs' /\ k = Cardinality(ends) /\ m = Capacity - Cardinality(S)
    OBVIOUS
  <2>6. t \in Seq(Requests) /\ k \in Int /\ m \in Int /\ k <= m /\ Near(t, r, k)
    BY <1>7, <2>1, <2>4, <2>5
  <2>7. Near(t, r, m)
    BY <2>6, NearMore
  <2> QED BY <2>5, <2>7 DEF S
<1>10. committed' \in [Requests -> Nat]
  BY <1>1, <1>4
<1>11. ASSUME NEW r \in Known' \cap live' PROVE Told(r)'
  <2>1. r \in live /\ r \in Requests /\ Len(events[r]) = committed[r] /\ committed[r] \in Nat
    BY <1>1, <1>11, LiveIs
  <2>2. CASE r \in outputs
    BY <1>1, <2>1, <2>2 DEF Told
  <2>3. CASE r \notin outputs
    BY <1>1, <2>1, <2>3 DEF Told
  <2> QED BY <2>2, <2>3
<1>12. EventsWellFormed'
  <2> SUFFICES ASSUME NEW r \in Requests
               PROVE  IF r \in outputs THEN WellFormedButLast(events[r], committed'[r])
                      ELSE WellFormed(events[r], committed'[r])
    BY <1>1 DEF EventsWellFormed
  <2>1. CASE r \in outputs
    <3>1. /\ events[r] \in Seq(EventSet) /\ committed[r] \in Nat
          /\ Len(events[r]) = committed[r] /\ WellFormed(events[r], committed[r])
      BY <1>1, <1>5, <2>1, LiveIs
    <3>2. WellFormedButLast(events[r], committed[r] + 1)
      BY <3>1, LastLost
    <3> QED BY <1>1, <2>1, <3>2
  <2>2. CASE r \notin outputs
    BY <1>1, <1>4, <2>2 DEF IInv, EventsWellFormed
  <2> QED BY <2>1, <2>2
<1>13. live' \subseteq live /\ device' \in {"idle", "busy"} /\ device' # "busy"
  BY <1>1, <1>4
<1> QED BY <1>1, <1>5, <1>7, <1>8, <1>9, <1>10, <1>11, <1>12, <1>13, NowFailed

\* No mishap: everything was closed and the stream was quiet.
LEMMA NoMishap ==
    ASSUME NEW c \in Closings
    PROVE  /\ Mishaps(c) \in Nat
           /\ Mishaps(c) = 0 => c.failed = {} /\ c.quiesce /\ c.drain
<1> DEFINE all == {"graph", "executor", "timer", "stream", "context", "scheduler"}
<1>1. IsFiniteSet(all)
  <2>1. IsFiniteSet({})
    BY FS_EmptySet
  <2>2. IsFiniteSet({} \cup {"graph"})
    BY <2>1, FS_AddElement
  <2>3. IsFiniteSet({} \cup {"graph"} \cup {"executor"})
    BY <2>2, FS_AddElement
  <2>4. IsFiniteSet({} \cup {"graph"} \cup {"executor"} \cup {"timer"})
    BY <2>3, FS_AddElement
  <2>5. IsFiniteSet({} \cup {"graph"} \cup {"executor"} \cup {"timer"} \cup {"stream"})
    BY <2>4, FS_AddElement
  <2>6. IsFiniteSet({} \cup {"graph"} \cup {"executor"} \cup {"timer"} \cup {"stream"} \cup {"context"})
    BY <2>5, FS_AddElement
  <2>7. IsFiniteSet({} \cup {"graph"} \cup {"executor"} \cup {"timer"} \cup {"stream"} \cup {"context"}
                    \cup {"scheduler"})
    BY <2>6, FS_AddElement
  <2>8. {} \cup {"graph"} \cup {"executor"} \cup {"timer"} \cup {"stream"} \cup {"context"}
                    \cup {"scheduler"} = all
    OBVIOUS
  <2> QED BY <2>7, <2>8
<1>2. Range(Objects) \subseteq all
  BY DEF Range, Objects
<1>3. c.failed \in SUBSET all /\ c.quiesce \in BOOLEAN /\ c.drain \in BOOLEAN
  BY <1>2 DEF Closings
<1> HIDE DEF all
<1>4. IsFiniteSet(c.failed) /\ Cardinality(c.failed) \in Nat
  BY <1>1, <1>3, FS_Subset, FS_CardinalityType
<1>5. Cardinality(c.failed) = 0 => c.failed = {}
  BY <1>4, FS_EmptySet
<1> QED BY <1>3, <1>4, <1>5 DEF Mishaps

\* shutdown cancels what is left and closes everything.
LEMMA ShutdownInv ==
    ASSUME IInv, NEW order \in Orders(Cancellable), NEW flush \in SUBSET Cancellable,
           NEW c \in Closings, Shutdown(order, flush, c), UNCHANGED mode
    PROVE  IInv'
<1>1. /\ phase \in {"up", "failed"} /\ faults' = faults + Mishaps(c)
      /\ committed' = committed /\ lost' = lost
  BY DEF Shutdown
<1>2. /\ Mishaps(c) \in Nat /\ faults' \in Nat /\ faults \in Nat
      /\ faults' = 0 => faults = 0 /\ Mishaps(c) = 0
      /\ Mishaps(c) = 0 => c.failed = {} /\ c.quiesce /\ c.drain
  BY <1>1, NoMishap DEF IInv, BackendTypes
<1>3. /\ live \subseteq Requests /\ IsFiniteSet(live) /\ Cardinality(live) <= Capacity
      /\ Capacity \in Nat /\ tombs \in Seq(Requests)
  BY CapacityAssumption DEF IInv, BackendTypes
<1>4. /\ Cancellable \subseteq live /\ Cancellable \subseteq Requests
      /\ Cancellable \subseteq Known \cap live
      /\ IsFiniteSet(Cancellable) /\ IsFiniteSet(Known \cap live)
      /\ Cardinality(Cancellable) <= Cardinality(Known \cap live)
      /\ Cardinality(Cancellable) \in Nat /\ Cardinality(Known \cap live) \in Nat
  <2>1. Cancellable \in SUBSET (Known \cap live) /\ Known \cap live \in SUBSET live
    BY DEF Cancellable
  <2>2. IsFiniteSet(Known \cap live)
    BY <1>3, <2>1, FS_Subset
  <2>3. IsFiniteSet(Cancellable) /\ Cardinality(Cancellable) <= Cardinality(Known \cap live)
    BY <2>1, <2>2, FS_Subset
  <2> QED BY <1>3, <2>1, <2>2, <2>3, FS_CardinalityType
<1>5. order \in Seq(Requests) /\ Len(order) = Cardinality(Cancellable)
  BY <1>4, OrderIs
<1>6. Remember(order) \in Seq(Requests) /\ Len(Remember(order)) <= Capacity
  BY <1>5, RememberIs DEF IInv
<1>7. Forgotten(order) = {}
  <2> SUFFICES ASSUME NEW r \in Known \ live PROVE r \in Range(Remember(order))
    BY DEF Forgotten
  <2>1. phase = "failed"
    BY <1>1 DEF IInv, UpTracked
  <2> DEFINE k == Capacity - Cardinality(Known \cap live)
  <2>2. Near(tombs, r, k) /\ k \in Int /\ k + Len(order) \in Int /\ k + Len(order) <= Capacity
    <3>1. Near(tombs, r, k)
      BY <2>1 DEF IInv, FailedRemembered
    <3>2. k \in Int /\ k + Len(order) \in Int /\ k + Len(order) <= Capacity
      BY <1>3, <1>4, <1>5
    <3> QED BY <3>1, <3>2
  <2> HIDE DEF k
  <2>3. Near(tombs \o order, r, k + Len(order))
    BY <1>3, <1>5, <2>2, NearAppended
  <2>4. PICK m : m = k + Len(order)
    OBVIOUS
  <2>5. m \in Int /\ m <= Capacity /\ Near(tombs \o order, r, m)
    BY <2>2, <2>3, <2>4
  <2>6. Near(Remember(order), r, m)
    BY <1>5, <2>5, RememberIs DEF IInv
  <2> QED BY <2>6 DEF Near, Range
<1>8. /\ CloseResources(c) /\ tombs' = Remember(order) /\ entries' = Without(Cancellable)
      /\ IF Mishaps(c) = 0
         THEN /\ phase' = "closed"
              /\ Returned([r \in Requests |->
                    IF r \in Cancellable THEN CancelEvents(r, r \in flush) ELSE <<>>])
         ELSE phase' = "close_failed" /\ UNCHANGED events
  BY <1>7 DEF Shutdown
<1> DEFINE graphFails == "graph" \in c.failed
           settled == ~graphFails /\ (inflight = {} \/ c.quiesce)
           quiet == ~graphFails /\ (Graph \/ (inflight # {} /\ c.quiesce) \/ c.drain)
<1>9. /\ open' = ~settled
      /\ inflight' = IF settled THEN {} ELSE inflight
      /\ live' = IF settled THEN {} ELSE live \ Cancellable
      /\ resources' = IF graphFails THEN resources \ {"graph"} ELSE {}
      /\ device' = IF quiet THEN "idle" ELSE device
  BY <1>8 DEF CloseResources
<1>10. /\ live' \subseteq Requests /\ IsFiniteSet(live') /\ Cardinality(live') <= Capacity
  <2>1. live' \in SUBSET live
    BY <1>9
  <2>2. IsFiniteSet(live') /\ Cardinality(live') <= Cardinality(live)
        /\ Cardinality(live') \in Nat /\ Cardinality(live) \in Nat
    BY <1>3, <2>1, FS_Subset, FS_CardinalityType
  <2> QED BY <1>3, <2>1, <2>2
<1>11. Known' = Known \ Cancellable
  BY <1>8 DEF Known, Without
<1>12. device \in {"idle", "busy"} /\ (device = "busy" => open /\ inflight # {} /\ inflight \subseteq live)
  BY DEF IInv, BackendTypes, BusyOwned
<1>13. BusyOwned'
  <2> SUFFICES ASSUME device' = "busy" PROVE open' /\ inflight' # {} /\ inflight' \subseteq live'
    BY DEF BusyOwned
  <2>1. ~quiet /\ device = "busy" /\ inflight # {} /\ inflight \subseteq live
    BY <1>9, <1>12
  <2>2. ~settled
    BY <2>1
  <2>3. Cancellable \cap inflight = {}
    BY DEF Cancellable
  <2> QED BY <1>9, <2>1, <2>2, <2>3
<1>14. CASE Mishaps(c) = 0
  <2>1. phase' = "closed" /\ c.failed = {} /\ c.quiesce /\ c.drain
        /\ Returned([r \in Requests |->
                    IF r \in Cancellable THEN CancelEvents(r, r \in flush) ELSE <<>>])
    BY <1>2, <1>8, <1>14
  <2>2. device' = "idle" /\ ~open' /\ resources' = {}
    BY <1>9, <2>1
  <2> DEFINE more == [r \in Requests |->
                    IF r \in Cancellable THEN CancelEvents(r, r \in flush) ELSE <<>>]
  <2>3. \A r \in Requests : events'[r] = events[r] \o more[r]
    <3> HIDE DEF more
    <3> QED BY <2>1 DEF Returned, more
  <2>4. ASSUME NEW r \in Requests
        PROVE  /\ events'[r] \in Seq(EventSet)
               /\ IF r \in lost THEN WellFormedButLast(events'[r], committed[r])
                  ELSE WellFormed(events'[r], committed[r])
    <3>1. CASE r \notin Cancellable
      <4>1. more[r] = <<>> /\ events[r] \in Seq(EventSet)
        BY <3>1 DEF IInv, BackendTypes
      <4> HIDE DEF more
      <4>2. events'[r] = events[r]
        BY <2>3, <4>1, EmptyParts
      <4> QED BY <4>1, <4>2 DEF IInv, EventsWellFormed
    <3>2. CASE r \in Cancellable
      <4>1. more[r] = CancelEvents(r, r \in flush)
        BY <3>2
      <4> HIDE DEF more
      <4>2. events'[r] = events[r] \o CancelEvents(r, r \in flush)
        BY <2>3, <4>1
      <4>3. Told(r)
        BY <1>1, <1>4, <3>2 DEF IInv, UpIdle, UpTracked, FailedRemembered, Told
      <4>4. CASE r \in lost
        BY <4>2, <4>3, <4>4, LostCancelledEvents
      <4>5. CASE r \notin lost
        <5>1. Len(events[r]) = committed[r]
          BY <4>3, <4>5 DEF Told
        <5> QED BY <4>2, <4>5, <5>1, CancelledEvents
      <4> QED BY <4>4, <4>5
    <3> QED BY <3>1, <3>2
  <2> HIDE DEF more
  <2>5. events' \in [Requests -> Seq(EventSet)]
    BY <2>1, <2>4, ReturnedTyped DEF more
  <2>6. BackendTypes'
    <3>1. Known' \subseteq Requests
      BY <1>11 DEF IInv, BackendTypes
    <3>2. /\ phase' \in {"up", "failed", "closed", "close_failed"} /\ faults' \in Nat
          /\ device' \in {"idle", "busy"}
      BY <1>2, <2>1, <2>2
    <3>3. /\ mode' \in [graph : BOOLEAN, audit : BOOLEAN] /\ committed' \in [Requests -> Nat]
          /\ lost' \subseteq Requests
          /\ tombs' \in Seq(Requests) /\ Len(tombs') <= Capacity
      BY <1>1, <1>6, <1>8 DEF IInv, BackendTypes
    <3>4. open' \in BOOLEAN
      BY <1>9
    <3> QED BY <1>10, <2>5, <3>1, <3>2, <3>3, <3>4 DEF BackendTypes
  <2>7. EventsWellFormed'
    BY <1>1, <2>4 DEF EventsWellFormed
  <2>8. NothingFails'
    <3>1. ASSUME faults' = 0 PROVE Known' = {}
      <4>1. phase = "up"
        BY <1>1, <1>2, <3>1 DEF IInv, NothingFails
      <4>2. Known = live /\ inflight = {}
        BY <4>1, UpIs
      <4> QED BY <1>11, <4>2 DEF Cancellable
    <3> QED BY <2>1, <3>1 DEF NothingFails
  <2>9. UpIdle' /\ UpTracked' /\ FailedRemembered' /\ ClosedQuiet'
    BY <2>1, <2>2 DEF UpIdle, UpTracked, FailedRemembered, ClosedQuiet
  <2> QED BY <1>13, <2>6, <2>7, <2>8, <2>9 DEF IInv
<1>15. CASE Mishaps(c) # 0
  <2>1. phase' = "close_failed" /\ UNCHANGED events
    BY <1>8, <1>15
  <2>2. open' \in BOOLEAN /\ device' \in {"idle", "busy"}
    BY <1>9, <1>12
  <2>3. BackendTypes'
    BY <1>1, <1>2, <1>6, <1>8, <1>10, <1>11, <2>1, <2>2 DEF IInv, BackendTypes
  <2>4. EventsWellFormed'
    BY <1>1, <2>1 DEF IInv, EventsWellFormed
  <2>5. NothingFails'
    BY <1>2, <1>15, <2>1 DEF NothingFails
  <2>6. UpIdle' /\ UpTracked' /\ FailedRemembered' /\ ClosedQuiet'
    BY <2>1 DEF UpIdle, UpTracked, FailedRemembered, ClosedQuiet
  <2> QED BY <1>13, <2>3, <2>4, <2>5, <2>6 DEF IInv
<1> QED BY <1>14, <1>15

-----------------------------------------------------------------------------
(* The theorems. *)

\* The backend as it is built.
LEMMA InitInv ==
    ASSUME Init PROVE IInv
<1>1. /\ Known = {} /\ live = {} /\ tombs = <<>> /\ \A r \in Requests : events[r] = <<>>
      /\ phase = "up" /\ faults = 0 /\ device = "idle" /\ open = TRUE /\ inflight = {}
      /\ lost = {} /\ \A r \in Requests : committed[r] = 0
  BY DEF Init, Known
<1>2. IsFiniteSet({}) /\ Cardinality({}) = 0 /\ 0 <= Capacity
  BY FS_EmptySet, CapacityAssumption
<1>3. /\ <<>> \in Seq(EventSet) /\ <<>> \in Seq(Requests) /\ Len(<<>>) = 0
  BY EmptySeq
<1>4. events \in [Requests -> Seq(EventSet)] /\ committed \in [Requests -> Nat]
  BY <1>3 DEF Init
<1>5. BackendTypes
  BY <1>1, <1>2, <1>3, <1>4 DEF Init, BackendTypes
<1>6. EventsWellFormed
  BY <1>1 DEF EventsWellFormed, WellFormed
<1>7. UpIdle /\ UpTracked /\ FailedRemembered /\ BusyOwned /\ ClosedQuiet /\ NothingFails
  BY <1>1 DEF UpIdle, UpTracked, FailedRemembered, BusyOwned, ClosedQuiet, NothingFails
<1> QED BY <1>5, <1>6, <1>7 DEF IInv

\* Every call preserves the invariant.
LEMMA NextInv ==
    ASSUME IInv, Next, UNCHANGED mode PROVE IInv'
<1>1. CASE \E r \in Requests : \E ids \in BOOLEAN : Admit(r, ids)
  BY <1>1, AdmitInv
<1>2. CASE \E r \in Requests : \E flush \in BOOLEAN : Cancel(r, flush)
  BY <1>2, CancelInv
<1>3. CASE \E expired \in SUBSET live : StepWithoutPlan(expired)
  BY <1>3, StepWithoutPlanInv
<1>4. CASE \E expired \in SUBSET live : \E batch \in SUBSET live : StepExecutionFails(batch, expired)
  BY <1>4, StepExecutionFailsInv
<1>5. CASE \E expired \in SUBSET live : \E batch \in SUBSET live : StepHostFails(batch, expired)
  BY <1>5, StepHostFailsInv
<1>6. CASE \E expired \in SUBSET live : \E batch \in SUBSET live : StepCommitContained(batch, expired)
  BY <1>6, StepCommitContainedInv
<1>7. CASE \E expired \in SUBSET live : \E batch \in SUBSET live :
             \E outputs \in SUBSET batch : \E stops \in SUBSET outputs :
                StepCommits(batch, outputs, stops, expired)
  BY <1>7, StepCommitsInv
<1>8. CASE \E expired \in SUBSET live : \E batch \in SUBSET live :
             \E outputs \in SUBSET batch : \E stops \in SUBSET outputs :
                StepAuditFails(batch, outputs, stops, expired)
  BY <1>8, StepAuditFailsInv
<1>9. CASE \E order \in Orders(Cancellable), flush \in SUBSET Cancellable, c \in Closings :
             Shutdown(order, flush, c)
  BY <1>9, ShutdownInv
<1> QED BY <1>1, <1>2, <1>3, <1>4, <1>5, <1>6, <1>7, <1>8, <1>9 DEF Next

\* The invariant holds whatever is called and whatever fails.
LEMMA Invariant == Spec => []IInv
<1>1. Init => IInv
  BY InitInv
<1>2. IInv /\ [Next /\ UNCHANGED mode]_vars => IInv'
  <2> SUFFICES ASSUME IInv, [Next /\ UNCHANGED mode]_vars PROVE IInv'
    OBVIOUS
  <2>1. CASE Next /\ UNCHANGED mode
    BY <2>1, NextInv
  <2>2. CASE UNCHANGED vars
    BY <2>2 DEF vars, IInv, BackendTypes, UpIdle, UpTracked, FailedRemembered, BusyOwned,
                ClosedQuiet, NothingFails, EventsWellFormed, Told, Known
  <2> QED BY <2>1, <2>2
<1> QED BY <1>1, <1>2, PTL DEF Spec

\* The KV blocks of what the device may still be running are owned, whatever failed, and a
\* shutdown that succeeds leaves nothing running and nothing open (CudaBackend::step,
\* settle_execution_failure and close_resources).
THEOREM KvCorrect == Spec => []KvOutlivesDevice
<1>1. IInv => KvOutlivesDevice
  BY DEF IInv, BusyOwned, ClosedQuiet, KvOutlivesDevice
<1> QED BY <1>1, Invariant, PTL

\* The backend keeps the promises of trait EngineBackend: no consistency check of step,
\* process_completion or shutdown fails, a live request of a backend that is up has an entry
\* and was told every token, and what a request is told is its tokens in order and one end.
\* When a call fails after its commit, at most that call's token is missing, and what shutdown
\* may still tell is a cancellation that counts it.
THEOREM ContractCorrect == Spec => []ContractKept
<1>1. IInv => ContractKept
  <2> SUFFICES ASSUME IInv PROVE ContractKept
    OBVIOUS
  <2>1. phase # "broken"
    BY DEF IInv, BackendTypes
  <2>2. phase = "up" => Known = live /\ lost = {} /\ \A r \in Known : Len(events[r]) = committed[r]
    BY DEF IInv, UpIdle, UpTracked
  <2>3. phase = "closed" /\ faults = 0 => Known = {}
    BY DEF IInv, NothingFails
  <2>4. ASSUME NEW r \in Requests, NEW i \in DOMAIN events[r],
               NEW e, e = events[r][i], NEW missing, missing = IF r \in lost THEN 1 ELSE 0
        PROVE  IF e.kind = "token"
               THEN e.n = i - 1 \/ (r \in lost /\ e.n = i /\ i = committed[r])
               ELSE /\ i = Len(events[r])
                    /\ r \in lost => e.kind = "cancelled"
                    /\ e.n = committed[r]
                    /\ e.n = i - 1 + missing \/ (e.kind = "cancelled" /\ e.n = i - 2 + missing)
    <3>1. i \in Nat
      BY LenProperties DEF IInv, BackendTypes
    <3>2. CASE r \in lost
      <4>1. WellFormedButLast(events[r], committed[r])
        BY <3>2 DEF IInv, EventsWellFormed
      <4> QED BY <2>4, <3>1, <3>2, <4>1 DEF WellFormedButLast
    <3>3. CASE r \notin lost
      <4>1. WellFormed(events[r], committed[r])
        BY <3>3 DEF IInv, EventsWellFormed
      <4> QED BY <2>4, <3>1, <3>3, <4>1 DEF WellFormed
    <3> QED BY <3>2, <3>3
  <2> QED BY <2>1, <2>2, <2>3, <2>4 DEF ContractKept
<1> QED BY <1>1, Invariant, PTL

-----------------------------------------------------------------------------
(* The generation of a request.  The inductive invariant. *)

Reasons == {"none", "length", "stop_string", "eos", "stop_token", "cancelled", "error"}

GenerationTypes ==
    /\ request \in GenerationRequests
    /\ shown \in Seq(TextBytes) /\ pending \in Seq(TextBytes) /\ raw \in Seq(TextBytes)
    /\ searchStart \in Nat /\ matched \in Nat /\ generated \in Nat
    /\ gate \in 0..Len(raw)
    /\ finish \in Reasons

\* While it runs, a generation has found no stop string, and withheld bytes are
\* searched from where stops were enabled.
SearchResumes ==
    finish = "none" =>
        /\ matched = 0
        /\ searchStart = IF gate > Len(shown) THEN gate - Len(shown) ELSE 0

GenerationInvariant == GenerationTypes /\ SearchResumes /\ OutputIsReference

-----------------------------------------------------------------------------
(* Least and greatest numbers. *)

\* The order of the naturals is well-founded.
LEMMA LessWellFounded == IsWellFoundedOn({p \in Nat \X Nat : p[1] < p[2]}, Nat)
BY NatLessThanWellFounded DEF OpToRel

\* A nonempty set of naturals has a least element.
LEMMA HasLeast ==
    ASSUME NEW T, T \subseteq Nat, T # {}
    PROVE  \E x \in T : \A y \in T : x <= y
<1> DEFINE R == {p \in Nat \X Nat : p[1] < p[2]}
<1>1. IsWellFoundedOn(R, Nat)
  BY LessWellFounded
<1> HIDE DEF R
<1>2. PICK x \in T : \A y \in T : ~(<<y, x>> \in R)
  BY <1>1, WFMin
<1>3. \A y \in T : x <= y
  <2> TAKE y \in T
  <2>1. ~(y < x)
    BY <1>2 DEF R
  <2> QED BY <2>1
<1> QED BY <1>3

\* A nonempty bounded set of naturals has a greatest element, which is its Max.
LEMMA MaxIsGreatest ==
    ASSUME NEW T, T \subseteq Nat, T # {}, NEW b \in Nat, \A x \in T : x <= b
    PROVE  Max(T) \in T /\ \A y \in T : y <= Max(T)
<1> DEFINE D == {b - x : x \in T}
<1>1. D \subseteq Nat /\ D # {}
  <2>1. \A x \in T : b - x \in Nat
    OBVIOUS
  <2>2. D # {}
    OBVIOUS
  <2> QED BY <2>1, <2>2
<1>2. PICK d \in D : \A e \in D : d <= e
  BY <1>1, HasLeast
<1>3. PICK m \in T : d = b - m
  BY <1>2
<1>4. \A y \in T : m >= y
  <2> TAKE y \in T
  <2>1. d <= b - y
    BY <1>2
  <2> QED BY <2>1, <1>3
<1>5. Max(T) \in T /\ \A y \in T : Max(T) >= y
  BY <1>4 DEF Max
<1> QED BY <1>5

\* Max is the only greatest element.
LEMMA MaxIs ==
    ASSUME NEW T, T \subseteq Nat, NEW m \in T, \A y \in T : y <= m
    PROVE  Max(T) = m
<1>1. \A y \in T : m >= y
  OBVIOUS
<1>2. Max(T) \in T /\ \A y \in T : Max(T) >= y
  BY <1>1 DEF Max
<1>3. Max(T) >= m /\ Max(T) <= m /\ Max(T) \in Nat /\ m \in Nat
  BY <1>2
<1> QED BY <1>3

\* Min is the only least element.
LEMMA MinIs ==
    ASSUME NEW T, T \subseteq Nat, NEW m \in T, \A y \in T : m <= y
    PROVE  Min(T) = m
<1>1. Min(T) \in T /\ \A y \in T : Min(T) <= y
  BY DEF Min
<1>2. Min(T) >= m /\ Min(T) <= m /\ Min(T) \in Nat /\ m \in Nat
  BY <1>1
<1> QED BY <1>2

-----------------------------------------------------------------------------
(* Sequences of bytes. *)

\* s has the first n bytes of t behind its first p.
Spells(s, p, t, n) == \A j \in 1..n : s[p + j] = t[j]

\* What Prefix keeps.
LEMMA PrefixIs ==
    ASSUME NEW B, NEW s \in Seq(B), NEW n \in 0..Len(s)
    PROVE  /\ Prefix(s, n) \in Seq(B)
           /\ Len(Prefix(s, n)) = n
           /\ \A i \in 1..n : Prefix(s, n)[i] = s[i]
<1>1. \A i \in 1..n : s[i] \in B
  BY ElementOfSeq
<1>2. n \in Int /\ 1 \in Int
  OBVIOUS
<1>3. /\ SubSeq(s, 1, n) \in Seq(B)
      /\ Len(SubSeq(s, 1, n)) = IF 1 <= n THEN n - 1 + 1 ELSE 0
      /\ \A i \in 1..(n - 1 + 1) : SubSeq(s, 1, n)[i] = s[1 + i - 1]
  BY <1>1, <1>2, SubSeqProperties
<1> QED BY <1>3 DEF Prefix

\* What is left behind the first n.
LEMMA RestIs ==
    ASSUME NEW B, NEW s \in Seq(B), NEW n \in 0..Len(s)
    PROVE  /\ SubSeq(s, n + 1, Len(s)) \in Seq(B)
           /\ Len(SubSeq(s, n + 1, Len(s))) = Len(s) - n
           /\ \A i \in 1..(Len(s) - n) : SubSeq(s, n + 1, Len(s))[i] = s[n + i]
<1>1. \A i \in (n + 1)..Len(s) : s[i] \in B
  BY ElementOfSeq
<1>2. n + 1 \in Int /\ Len(s) \in Int
  OBVIOUS
<1>3. /\ SubSeq(s, n + 1, Len(s)) \in Seq(B)
      /\ Len(SubSeq(s, n + 1, Len(s))) = IF n + 1 <= Len(s) THEN Len(s) - (n + 1) + 1 ELSE 0
      /\ \A i \in 1..(Len(s) - (n + 1) + 1) :
            SubSeq(s, n + 1, Len(s))[i] = s[n + 1 + i - 1]
  BY <1>1, <1>2, SubSeqProperties
<1> QED BY <1>3

\* What Suffix keeps.
LEMMA SuffixIs ==
    ASSUME NEW B, NEW s \in Seq(B), NEW n \in 0..Len(s)
    PROVE  /\ Suffix(s, n) \in Seq(B)
           /\ Len(Suffix(s, n)) = n
           /\ \A i \in 1..n : Suffix(s, n)[i] = s[Len(s) - n + i]
<1>1. Len(s) - n \in 0..Len(s)
  OBVIOUS
<1> QED BY <1>1, RestIs DEF Suffix

\* Where a stretch of s equals a string.
LEMMA StretchSpells ==
    ASSUME NEW B, NEW s \in Seq(B), NEW t \in Seq(B), NEW p \in Nat, p + Len(t) <= Len(s)
    PROVE  SubSeq(s, p + 1, p + Len(t)) = t <=> Spells(s, p, t, Len(t))
<1> DEFINE u == SubSeq(s, p + 1, p + Len(t))
<1>1. \A i \in (p + 1)..(p + Len(t)) : s[i] \in B
  BY ElementOfSeq
<1>2. p + 1 \in Int /\ p + Len(t) \in Int
  OBVIOUS
<1>3. /\ u \in Seq(B)
      /\ Len(u) = IF p + 1 <= p + Len(t) THEN p + Len(t) - (p + 1) + 1 ELSE 0
      /\ \A i \in 1..(p + Len(t) - (p + 1) + 1) : u[i] = s[p + 1 + i - 1]
  BY <1>1, <1>2, SubSeqProperties
<1> HIDE DEF u
<1>4. Len(u) = Len(t) /\ \A i \in 1..Len(t) : u[i] = s[p + i]
  BY <1>3
<1>5. ASSUME u = t PROVE Spells(s, p, t, Len(t))
  BY <1>4, <1>5 DEF Spells
<1>6. ASSUME Spells(s, p, t, Len(t)) PROVE u = t
  <2>1. \A i \in 1..Len(u) : u[i] = t[i]
    BY <1>4, <1>6 DEF Spells
  <2> QED BY <2>1, <1>3, <1>4, SeqEqual
<1>7. u = t <=> Spells(s, p, t, Len(t))
  BY <1>5, <1>6
<1> QED BY <1>7 DEF u

\* Where the end of s equals the beginning of a string.
LEMMA SuffixSpells ==
    ASSUME NEW B, NEW s \in Seq(B), NEW t \in Seq(B), NEW n \in Nat, n <= Len(s), n <= Len(t)
    PROVE  /\ Suffix(s, n) = Prefix(t, n) <=> Spells(s, Len(s) - n, t, n)
           /\ IsPrefix(Suffix(s, n), t) <=> Spells(s, Len(s) - n, t, n)
<1>1. n \in 0..Len(s) /\ n \in 0..Len(t)
  OBVIOUS
<1>2. /\ Suffix(s, n) \in Seq(B) /\ Len(Suffix(s, n)) = n
      /\ \A i \in 1..n : Suffix(s, n)[i] = s[Len(s) - n + i]
  BY <1>1, SuffixIs
<1>3. /\ Prefix(t, n) \in Seq(B) /\ Len(Prefix(t, n)) = n
      /\ \A i \in 1..n : Prefix(t, n)[i] = t[i]
  BY <1>1, PrefixIs
<1>4. ASSUME Suffix(s, n) = Prefix(t, n) PROVE Spells(s, Len(s) - n, t, n)
  BY <1>2, <1>3, <1>4 DEF Spells
<1>5. ASSUME Spells(s, Len(s) - n, t, n) PROVE Suffix(s, n) = Prefix(t, n)
  <2>1. \A i \in 1..n : Suffix(s, n)[i] = Prefix(t, n)[i]
    BY <1>2, <1>3, <1>5 DEF Spells
  <2> QED BY <2>1, <1>2, <1>3, SeqEqual
<1>6. IsPrefix(Suffix(s, n), t) <=> Suffix(s, n) = Prefix(t, n)
  <2>1. SubSeq(Suffix(s, n), 1, Len(Suffix(s, n))) = Suffix(s, n)
    BY <1>2, SubSeqFull
  <2> QED BY <2>1, <1>2 DEF IsPrefix, Prefix
<1> QED BY <1>4, <1>5, <1>6

-----------------------------------------------------------------------------
(* UTF-8. *)

\* The first n bytes of s are complete UTF-8.
ValidTo(s, n) ==
    \A i \in 1..n :
        /\ s[i] # Invalid
        /\ s[i] = Lead => i < n /\ s[i + 1] = Continuation
        /\ s[i] = Continuation => i > 1 /\ s[i - 1] = Lead

\* Utf8 of a prefix looks at the bytes of the text.
LEMMA Utf8Prefix ==
    ASSUME NEW B, NEW s \in Seq(B), NEW n \in 0..Len(s)
    PROVE  Utf8(Prefix(s, n)) <=> ValidTo(s, n)
<1>1. /\ Prefix(s, n) \in Seq(B) /\ Len(Prefix(s, n)) = n
      /\ \A i \in 1..n : Prefix(s, n)[i] = s[i]
  BY PrefixIs
<1>2. DOMAIN Prefix(s, n) = 1..n
  BY <1>1, LenProperties
<1>3. PICK u : u = Prefix(s, n)
  OBVIOUS
<1>4. n \in Nat /\ DOMAIN u = 1..n /\ Len(u) = n /\ \A i \in 1..n : u[i] = s[i]
  BY <1>1, <1>2, <1>3
<1>5. ASSUME NEW i \in 1..n
      PROVE  /\ u[i] = s[i]
             /\ i < n => u[i + 1] = s[i + 1]
             /\ i > 1 => u[i - 1] = s[i - 1]
  <2>1. (i < n => i + 1 \in 1..n) /\ (i > 1 => i - 1 \in 1..n)
    BY <1>4
  <2> QED BY <2>1, <1>4
<1>6. Utf8(u) => ValidTo(s, n)
  BY <1>4, <1>5 DEF Utf8, ValidTo
<1>7. ValidTo(s, n) => Utf8(u)
  BY <1>4, <1>5 DEF Utf8, ValidTo
<1> QED BY <1>3, <1>6, <1>7

\* Utf8 of a whole text.
LEMMA Utf8Whole ==
    ASSUME NEW B, NEW s \in Seq(B)
    PROVE  Utf8(s) <=> ValidTo(s, Len(s))
<1>1. DOMAIN s = 1..Len(s) /\ Len(s) \in Nat
  BY LenProperties
<1> QED BY <1>1 DEF Utf8, ValidTo

\* Behind complete characters, UTF-8 begins anew.
LEMMA ValidBehind ==
    ASSUME NEW B, NEW a \in Seq(B), NEW s \in Seq(B), Utf8(a), NEW k \in 0..Len(s)
    PROVE  ValidTo(a \o s, Len(a) + k) <=> ValidTo(s, k)
<1> DEFINE c == a \o s
           l == Len(a)
<1>1. /\ l \in Nat /\ Len(s) \in Nat /\ c \in Seq(B) /\ Len(c) = l + Len(s)
      /\ \A i \in 1..(l + Len(s)) : c[i] = IF i <= l THEN a[i] ELSE s[i - l]
  BY LenProperties, ConcatProperties
<1>2. /\ \A i \in 1..l : c[i] = a[i]
      /\ \A i \in 1..Len(s) : c[l + i] = s[i]
  BY <1>1
<1>3. ValidTo(a, l)
  BY Utf8Whole
<1> HIDE DEF c, l
<1>4. ASSUME ValidTo(c, l + k) PROVE ValidTo(s, k)
  <2> SUFFICES ASSUME NEW i \in 1..k
               PROVE  /\ s[i] # Invalid
                      /\ s[i] = Lead => i < k /\ s[i + 1] = Continuation
                      /\ s[i] = Continuation => i > 1 /\ s[i - 1] = Lead
    BY DEF ValidTo
  <2>1. l + i \in 1..(l + k) /\ c[l + i] = s[i]
    BY <1>1, <1>2
  <2>2. /\ c[l + i] # Invalid
        /\ c[l + i] = Lead => l + i < l + k /\ c[(l + i) + 1] = Continuation
        /\ c[l + i] = Continuation => l + i > 1 /\ c[(l + i) - 1] = Lead
    BY ONLY <2>1, <1>4 DEF ValidTo
  <2>3. ASSUME s[i] = Lead PROVE i < k /\ s[i + 1] = Continuation
    <3>1. i < k /\ i + 1 \in 1..Len(s)
      BY <2>1, <2>2, <2>3, <1>1
    <3>2. c[l + (i + 1)] = s[i + 1]
      BY <3>1, <1>2
    <3>3. c[(l + i) + 1] = Continuation
      BY ONLY <2>1, <2>2, <2>3
    <3>4. l + (i + 1) = (l + i) + 1
      BY <1>1
    <3> QED BY ONLY <3>1, <3>2, <3>3, <3>4
  <2>4. ASSUME s[i] = Continuation, i > 1 PROVE s[i - 1] = Lead
    <3>1. c[l + (i - 1)] = s[i - 1]
      BY SMTT(30), <2>4, <1>1, <1>2
    <3> QED BY <2>1, <2>2, <2>4, <3>1, <1>1
  <2>5. ASSUME s[i] = Continuation, i = 1 PROVE FALSE
    <3>1. l > 0 /\ c[l] = Lead /\ c[l] = a[l] /\ l \in 1..l
      BY <2>1, <2>2, <2>5, <1>1, <1>2
    <3>2. l < l
      BY <3>1, <1>3 DEF ValidTo
    <3> QED BY <3>2, <1>1
  <2> QED BY <2>1, <2>2, <2>3, <2>4, <2>5
<1>5. ASSUME ValidTo(s, k) PROVE ValidTo(c, l + k)
  <2> SUFFICES ASSUME NEW i \in 1..(l + k)
               PROVE  /\ c[i] # Invalid
                      /\ c[i] = Lead => i < l + k /\ c[i + 1] = Continuation
                      /\ c[i] = Continuation => i > 1 /\ c[i - 1] = Lead
    BY DEF ValidTo
  <2>1. CASE i <= l
    <3>1. i \in 1..l /\ c[i] = a[i]
      BY <2>1, <1>1, <1>2
    <3>2. /\ a[i] # Invalid
          /\ a[i] = Lead => i < l /\ a[i + 1] = Continuation
          /\ a[i] = Continuation => i > 1 /\ a[i - 1] = Lead
      BY <3>1, <1>3 DEF ValidTo
    <3>3. i < l => c[i + 1] = a[i + 1]
      BY <3>1, <1>1, <1>2
    <3>4. i > 1 => c[i - 1] = a[i - 1]
      BY <3>1, <1>1, <1>2
    <3> QED BY <3>1, <3>2, <3>3, <3>4, <1>1
  <2>2. CASE i > l
    <3> DEFINE j == i - l
    <3>1. j \in 1..k /\ c[i] = s[j]
      BY <2>2, <1>1
    <3>2. /\ s[j] # Invalid
          /\ s[j] = Lead => j < k /\ s[j + 1] = Continuation
          /\ s[j] = Continuation => j > 1 /\ s[j - 1] = Lead
      BY <3>1, <1>5 DEF ValidTo
    <3>3. j < k => c[i + 1] = s[j + 1]
      <4>1. j < k => j + 1 \in 1..Len(s) /\ i + 1 = l + (j + 1)
        BY <3>1, <1>1
      <4> QED BY <4>1, <1>2
    <3>4. j > 1 => c[i - 1] = s[j - 1]
      <4>1. j > 1 => j - 1 \in 1..Len(s) /\ i - 1 = l + (j - 1)
        BY <3>1, <1>1
      <4> QED BY <4>1, <1>2
    <3>5. (j < k => i < l + k) /\ (j > 1 => i > 1)
      BY <2>2, <1>1
    <3> QED BY <3>1, <3>2, <3>3, <3>4, <3>5
  <2> QED BY <2>1, <2>2, <1>1
<1> QED BY <1>4, <1>5 DEF c, l

\* What ValidUpTo finds.
LEMMA ValidUpToIs ==
    ASSUME NEW B, NEW s \in Seq(B)
    PROVE  /\ ValidUpTo(s) \in 0..Len(s)
           /\ ValidTo(s, ValidUpTo(s))
           /\ \A k \in 0..Len(s) : ValidTo(s, k) => k <= ValidUpTo(s)
<1> DEFINE T == {n \in 0..Len(s) : Utf8(Prefix(s, n))}
<1>1. Len(s) \in Nat /\ \A n \in 0..Len(s) : n \in T <=> ValidTo(s, n)
  BY LenProperties, Utf8Prefix
<1>2. ValidTo(s, 0) /\ 0 \in 0..Len(s)
  BY <1>1 DEF ValidTo
<1>3. T \subseteq Nat /\ T # {} /\ \A x \in T : x <= Len(s)
  BY <1>1, <1>2
<1>4. Max(T) \in T /\ \A y \in T : y <= Max(T)
  BY <1>1, <1>3, MaxIsGreatest
<1>5. ValidUpTo(s) = Max(T)
  BY DEF ValidUpTo
<1> HIDE DEF T
<1>6. T \subseteq 0..Len(s)
  BY DEF T
<1> QED BY <1>1, <1>4, <1>5, <1>6

\* The greatest prefix that is UTF-8 is the one ValidUpTo finds.
LEMMA ValidUpToOnly ==
    ASSUME NEW B, NEW s \in Seq(B), NEW n \in 0..Len(s), ValidTo(s, n),
           \A k \in 0..Len(s) : ValidTo(s, k) => k <= n
    PROVE  ValidUpTo(s) = n
<1>1. /\ ValidUpTo(s) \in 0..Len(s) /\ ValidTo(s, ValidUpTo(s))
      /\ \A k \in 0..Len(s) : ValidTo(s, k) => k <= ValidUpTo(s)
  BY ValidUpToIs
<1>2. Len(s) \in Nat
  BY LenProperties
<1> QED BY <1>1, <1>2

\* Behind complete characters, ValidUpTo finds what it finds in the rest.
LEMMA ValidUpToBehind ==
    ASSUME NEW B, NEW a \in Seq(B), NEW s \in Seq(B), Utf8(a)
    PROVE  ValidUpTo(a \o s) = Len(a) + ValidUpTo(s)
<1> DEFINE n == ValidUpTo(s)
<1>1. /\ Len(a) \in Nat /\ Len(s) \in Nat /\ a \o s \in Seq(B)
      /\ Len(a \o s) = Len(a) + Len(s)
  BY LenProperties, ConcatProperties
<1>2. n \in 0..Len(s) /\ ValidTo(s, n) /\ \A k \in 0..Len(s) : ValidTo(s, k) => k <= n
  BY ValidUpToIs
<1> HIDE DEF n
<1>3. ValidTo(a \o s, Len(a) + n)
  BY <1>2, ValidBehind
<1>4. ASSUME NEW k \in 0..(Len(a) + Len(s)), ValidTo(a \o s, k) PROVE k <= Len(a) + n
  <2>1. CASE k < Len(a)
    BY <2>1, <1>1, <1>2
  <2>2. CASE k >= Len(a)
    <3> DEFINE j == k - Len(a)
    <3>1. j \in 0..Len(s) /\ k = Len(a) + j
      BY <2>2, <1>1
    <3> HIDE DEF j
    <3>2. ValidTo(s, j)
      BY <3>1, <1>4, ValidBehind
    <3> QED BY <3>1, <3>2, <1>1, <1>2
  <2> QED BY <2>1, <2>2, <1>1
<1>5. Len(a) + n \in 0..Len(a \o s)
  BY <1>1, <1>2
<1>6. \A k \in 0..Len(a \o s) : ValidTo(a \o s, k) => k <= Len(a) + n
  BY <1>1, <1>4
<1> QED BY <1>1, <1>3, <1>5, <1>6, ValidUpToOnly DEF n

-----------------------------------------------------------------------------
(* Stop strings in a text. *)

\* Stop string i is in s behind the first p bytes.
FoundAt(stops, i, s, p) ==
    p + Len(stops[i]) <= Len(s) /\ Spells(s, p, stops[i], Len(stops[i]))

\* Where stop strings that begin behind the first `from` bytes end.
EndsIn(stops, s, from) ==
    {e \in 0..Len(s) : \E i \in DOMAIN stops :
        Len(stops[i]) <= e - from /\ FoundAt(stops, i, s, e - Len(stops[i]))}

\* Lengths of tails that may become stop strings.
TailsIn(stops, s, from) ==
    {n \in 1..(Len(s) - from) : \E i \in DOMAIN stops :
        n < Len(stops[i]) /\ Spells(s, Len(s) - n, stops[i], n)}

StopLists == {l \in Seq(Seq(TextBytes)) : \A i \in DOMAIN l : l[i] # <<>>}

\* Stop strings are not empty.
LEMMA StopIs ==
    ASSUME NEW stops \in StopLists, NEW i \in DOMAIN stops
    PROVE  stops[i] \in Seq(TextBytes) /\ Len(stops[i]) \in Nat /\ Len(stops[i]) >= 1
<1>1. stops \in Seq(Seq(TextBytes)) /\ stops[i] # <<>>
  BY DEF StopLists
<1>2. stops[i] \in Seq(TextBytes)
  BY <1>1, LenProperties, ElementOfSeq
<1>3. Len(stops[i]) \in Nat \ {0}
  BY <1>1, <1>2, EmptySeq
<1> QED BY <1>2, <1>3

\* The stop strings of a request.
LEMMA RequestStops ==
    ASSUME NEW q \in GenerationRequests
    PROVE  q.stops \in StopLists /\ q.min \in Nat /\ q.max \in Nat
BY RequestAssumption DEF StopLists

\* The ends of stop strings, as StopEnds has them.
LEMMA EndsAre ==
    ASSUME NEW stops \in StopLists, NEW s \in Seq(TextBytes), NEW from \in 0..Len(s)
    PROVE  {n \in 0..Len(s) : \E i \in DOMAIN stops :
               /\ Len(stops[i]) <= n - from
               /\ Suffix(Prefix(s, n), Len(stops[i])) = stops[i]} = EndsIn(stops, s, from)
<1>1. Len(s) \in Nat
  BY LenProperties
<1>2. ASSUME NEW n \in 0..Len(s), NEW i \in DOMAIN stops, Len(stops[i]) <= n - from
      PROVE  Suffix(Prefix(s, n), Len(stops[i])) = stops[i]
                 <=> FoundAt(stops, i, s, n - Len(stops[i]))
  <2>1. PICK t, k : t = stops[i] /\ k = Len(t)
    OBVIOUS
  <2>2. t \in Seq(TextBytes) /\ k \in Nat /\ k <= n
    BY <1>1, <1>2, <2>1, StopIs
  <2>3. PICK u : u = Prefix(s, n)
    OBVIOUS
  <2>4. u \in Seq(TextBytes) /\ Len(u) = n /\ \A j \in 1..n : u[j] = s[j]
    BY <2>3, PrefixIs
  <2>5. Suffix(u, k) = Prefix(t, k) <=> Spells(u, n - k, t, k)
    BY <2>1, <2>2, <2>4, SuffixSpells
  <2>6. Prefix(t, k) = t
    BY <2>1, <2>2, SubSeqFull DEF Prefix
  <2>7. Spells(u, n - k, t, k) <=> Spells(s, n - k, t, k)
    <3>1. \A j \in 1..k : u[n - k + j] = s[n - k + j]
      <4> TAKE j \in 1..k
      <4>1. n - k + j \in 1..n
        BY <1>1, <2>2
      <4> QED BY <4>1, <2>4
    <3> QED BY <3>1 DEF Spells
  <2>8. n - k + k <= Len(s)
    BY <1>1, <2>2
  <2> QED BY <2>1, <2>3, <2>5, <2>6, <2>7, <2>8 DEF FoundAt
<1> QED BY <1>2 DEF EndsIn

\* The tails that may become stop strings, as Ambiguous and as
\* longest_stop_prefix_suffix have them.
LEMMA TailsAre ==
    ASSUME NEW stops \in StopLists, NEW s \in Seq(TextBytes), NEW from \in 0..Len(s)
    PROVE  /\ {n \in 1..(Len(s) - from) : \E i \in DOMAIN stops :
                  n < Len(stops[i]) /\ IsPrefix(Suffix(s, n), stops[i])}
                = TailsIn(stops, s, from)
           /\ {n \in 1..(Len(s) - from) : \E i \in DOMAIN stops :
                  n < Len(stops[i]) /\ Suffix(s, n) = Prefix(stops[i], n)}
                = TailsIn(stops, s, from)
<1>1. Len(s) \in Nat
  BY LenProperties
<1>2. ASSUME NEW n \in 1..(Len(s) - from), NEW i \in DOMAIN stops, n < Len(stops[i])
      PROVE  /\ IsPrefix(Suffix(s, n), stops[i]) <=> Spells(s, Len(s) - n, stops[i], n)
             /\ Suffix(s, n) = Prefix(stops[i], n) <=> Spells(s, Len(s) - n, stops[i], n)
  <2>1. stops[i] \in Seq(TextBytes) /\ Len(stops[i]) \in Nat
    BY StopIs
  <2>2. n \in Nat /\ n <= Len(s) /\ n <= Len(stops[i])
    BY <1>1, <1>2, <2>1
  <2> QED BY <2>1, <2>2, SuffixSpells
<1> QED BY <1>2 DEF TailsIn

\* Everything shown of r is in front of whatever may become a stop string, and r
\* has none.
Undecided(stops, r, from, l) ==
    EndsIn(stops, r, from) = {} /\ \A n \in TailsIn(stops, r, from) : l <= Len(r) - n

\* No stop string, and no tail that may become one, begins in what was shown.
LEMMA NothingMissed ==
    ASSUME NEW stops \in StopLists, NEW r \in Seq(TextBytes), NEW b \in Seq(TextBytes),
           NEW from \in 0..Len(r), NEW l \in 0..Len(r), Undecided(stops, r, from, l),
           NEW i \in DOMAIN stops, NEW p \in Nat, from <= p, p < l,
           NEW n \in Nat, n <= Len(stops[i]), n = Len(stops[i]) \/ p + n >= Len(r),
           Spells(r \o b, p, stops[i], n)
    PROVE  FALSE
<1>1. PICK t, k : t = stops[i] /\ k = Len(t)
  OBVIOUS
<1>2. t \in Seq(TextBytes) /\ k \in Nat /\ k >= 1 /\ Len(r) \in Nat
  BY <1>1, StopIs, LenProperties
<1>3. \A j \in 1..Len(r) : (r \o b)[j] = r[j]
  <2>1. \A j \in 1..(Len(r) + Len(b)) :
           (r \o b)[j] = IF j <= Len(r) THEN r[j] ELSE b[j - Len(r)]
    BY ConcatProperties
  <2>2. Len(b) \in Nat
    BY LenProperties
  <2> QED BY <2>1, <2>2, <1>2
<1>4. ASSUME NEW m \in Nat, m <= n, p + m <= Len(r) PROVE Spells(r, p, t, m)
  <2> SUFFICES ASSUME NEW j \in 1..m PROVE r[p + j] = t[j]
    BY DEF Spells
  <2>1. j \in 1..n /\ p + j \in 1..Len(r)
    BY <1>2, <1>4
  <2>2. (r \o b)[p + j] = t[j]
    BY <2>1, <1>1 DEF Spells
  <2> QED BY <2>1, <2>2, <1>3
<1>5. CASE p + n <= Len(r) /\ n = k
  <2>1. Spells(r, p, t, k)
    BY <1>2, <1>4, <1>5
  <2>2. PICK e : e = p + k
    OBVIOUS
  <2>3. e \in 0..Len(r) /\ k <= e - from /\ e - k = p /\ p + k <= Len(r)
    BY <1>2, <1>5, <2>2
  <2>4. FoundAt(stops, i, r, e - Len(stops[i]))
    BY <1>1, <2>1, <2>3 DEF FoundAt
  <2>5. e \in EndsIn(stops, r, from)
    BY <1>1, <2>3, <2>4 DEF EndsIn
  <2> QED BY <2>5 DEF Undecided
<1>6. CASE ~(p + n <= Len(r) /\ n = k)
  <2>1. PICK m : m = Len(r) - p
    OBVIOUS
  <2>2. m \in Nat /\ m <= n /\ p + m <= Len(r) /\ Len(r) - m = p /\ m < k
        /\ m \in 1..(Len(r) - from)
    BY <1>1, <1>2, <1>6, <2>1
  <2>3. Spells(r, p, t, m)
    BY <1>4, <2>2
  <2>4. m \in TailsIn(stops, r, from)
    BY <1>1, <2>2, <2>3 DEF TailsIn
  <2>5. l <= Len(r) - m
    BY <2>4 DEF Undecided
  <2> QED BY <2>2, <2>5, <1>2
<1> QED BY <1>5, <1>6

\* Where the search of the withheld bytes begins.
SearchFrom(from, l) == IF from > l THEN from - l ELSE 0

\* Withheld bytes h and new bytes b, behind the shown bytes a.
Regrouped(a, h, b) ==
    /\ Len(a) \in Nat /\ Len(h) \in Nat /\ Len(b) \in Nat /\ Len(h \o b) \in Nat
    /\ a \o h \in Seq(TextBytes) /\ Len(a \o h) = Len(a) + Len(h)
    /\ h \o b \in Seq(TextBytes) /\ Len(h \o b) = Len(h) + Len(b)
    /\ (a \o h) \o b = a \o (h \o b)
    /\ (a \o h) \o b \in Seq(TextBytes) /\ Len((a \o h) \o b) = Len(a) + Len(h \o b)

\* New bytes extend the withheld ones.
LEMMA Regroup ==
    ASSUME NEW a \in Seq(TextBytes), NEW h \in Seq(TextBytes), NEW b \in Seq(TextBytes)
    PROVE  Regrouped(a, h, b)
<1>1. Len(a) \in Nat /\ Len(h) \in Nat /\ Len(b) \in Nat
  BY LenProperties
<1>2. a \o h \in Seq(TextBytes) /\ Len(a \o h) = Len(a) + Len(h)
  BY ConcatProperties
<1>3. h \o b \in Seq(TextBytes) /\ Len(h \o b) = Len(h) + Len(b)
  BY ConcatProperties
<1>4. (a \o h) \o b = a \o (h \o b)
  BY ConcatAssociative
<1>5. PICK s : s = h \o b
  OBVIOUS
<1>6. a \o s \in Seq(TextBytes) /\ Len(a \o s) = Len(a) + Len(s) /\ Len(s) \in Nat
  <2>1. s \in Seq(TextBytes)
    BY ONLY <1>3, <1>5
  <2> QED BY <2>1, ConcatProperties, LenProperties
<1> QED BY ONLY <1>1, <1>2, <1>3, <1>4, <1>5, <1>6, Zenon DEF Regrouped

\* A stretch of s is the same stretch of a \o s.
LEMMA SpellsBehind ==
    ASSUME NEW a \in Seq(TextBytes), NEW s \in Seq(TextBytes), NEW t,
           NEW p \in Nat, NEW n \in Nat, p + n <= Len(s)
    PROVE  Spells(a \o s, Len(a) + p, t, n) <=> Spells(s, p, t, n)
<1>1. Len(a) \in Nat /\ Len(s) \in Nat
  BY LenProperties
<1>2. \A j \in 1..(Len(a) + Len(s)) : (a \o s)[j] = IF j <= Len(a) THEN a[j] ELSE s[j - Len(a)]
  BY ConcatProperties
<1>3. \A j \in 1..n : (a \o s)[Len(a) + p + j] = s[p + j]
  <2> TAKE j \in 1..n
  <2>1. PICK x : x = Len(a) + p + j
    OBVIOUS
  <2>2. x \in 1..(Len(a) + Len(s)) /\ ~(x <= Len(a)) /\ x - Len(a) = p + j
    BY <1>1, <2>1
  <2> QED BY <1>2, <2>1, <2>2
<1> QED BY <1>3 DEF Spells

\* The stop strings in the whole text are those in the withheld bytes and the new ones.
LEMMA FoundBehind ==
    ASSUME NEW stops \in StopLists, NEW a \in Seq(TextBytes), NEW h \in Seq(TextBytes),
           NEW b \in Seq(TextBytes), NEW from \in 0..Len(a \o h),
           Undecided(stops, a \o h, from, Len(a)), NEW i \in DOMAIN stops
    PROVE  /\ \A p \in Nat : from <= p /\ FoundAt(stops, i, (a \o h) \o b, p) =>
                 /\ p - Len(a) \in Nat /\ SearchFrom(from, Len(a)) <= p - Len(a)
                 /\ FoundAt(stops, i, h \o b, p - Len(a))
           /\ \A q \in Nat : SearchFrom(from, Len(a)) <= q /\ FoundAt(stops, i, h \o b, q) =>
                 from <= Len(a) + q /\ FoundAt(stops, i, (a \o h) \o b, Len(a) + q)
<1>1. PICK r, s, t, k, l : r = a \o h /\ s = h \o b /\ t = stops[i] /\ k = Len(t) /\ l = Len(a)
  OBVIOUS
<1>2. /\ r \in Seq(TextBytes) /\ Len(r) = l + Len(h) /\ s \in Seq(TextBytes)
      /\ Len(s) = Len(h) + Len(b) /\ r \o b = a \o s /\ Len(r \o b) = l + Len(s)
      /\ Len(a \o s) = l + Len(s)
  <2>1. Regrouped(a, h, b)
    BY Regroup
  <2> QED BY ONLY <1>1, <2>1 DEF Regrouped
<1>3. /\ t \in Seq(TextBytes) /\ k \in Nat /\ k >= 1 /\ l \in Nat /\ Len(h) \in Nat
      /\ Len(b) \in Nat /\ Len(s) \in Nat /\ from \in Nat /\ from \in 0..Len(r)
  BY <1>1, <1>2, StopIs, LenProperties
<1>4. ASSUME NEW p \in Nat, from <= p, FoundAt(stops, i, r \o b, p)
      PROVE  /\ p - l \in Nat /\ SearchFrom(from, l) <= p - l
             /\ FoundAt(stops, i, s, p - l)
  <2>1. p + k <= l + Len(s) /\ Spells(r \o b, p, stops[i], k)
    BY <1>1, <1>2, <1>4 DEF FoundAt
  <2>2. ~(p < l)
    <3>1. l \in 0..Len(r) /\ Undecided(stops, r, from, l)
      BY <1>1, <1>2, <1>3
    <3>2. k <= Len(stops[i]) /\ k = Len(stops[i])
      BY <1>1, <1>3
    <3> QED BY <1>2, <1>3, <1>4, <2>1, <3>1, <3>2, NothingMissed
  <2>3. PICK q : q = p - l
    OBVIOUS
  <2>4. q \in Nat /\ q + k <= Len(s) /\ p = l + q
    BY <1>3, <2>1, <2>2, <2>3
  <2>5. Spells(s, q, stops[i], k)
    BY <1>1, <1>2, <1>3, <2>1, <2>4, SpellsBehind
  <2>6. SearchFrom(from, l) <= q
    BY <1>3, <1>4, <2>2, <2>3 DEF SearchFrom
  <2> QED BY <1>1, <2>3, <2>4, <2>5, <2>6 DEF FoundAt
<1>5. ASSUME NEW q \in Nat, SearchFrom(from, l) <= q, FoundAt(stops, i, s, q)
      PROVE  from <= l + q /\ FoundAt(stops, i, r \o b, l + q)
  <2>1. q + k <= Len(s) /\ Spells(s, q, stops[i], k)
    BY <1>1, <1>5 DEF FoundAt
  <2>2. Spells(r \o b, l + q, stops[i], k)
    BY <1>1, <1>2, <1>3, <2>1, SpellsBehind
  <2>3. from <= l + q
    BY <1>3, <1>5 DEF SearchFrom
  <2>4. l + q + k <= Len(r \o b)
    BY <1>2, <1>3, <2>1
  <2> QED BY <1>1, <2>2, <2>3, <2>4 DEF FoundAt
<1> QED BY <1>1, <1>4, <1>5

\* So are the tails that may become stop strings.
LEMMA TailsBehind ==
    ASSUME NEW stops \in StopLists, NEW a \in Seq(TextBytes), NEW h \in Seq(TextBytes),
           NEW b \in Seq(TextBytes), NEW from \in 0..Len(a \o h),
           Undecided(stops, a \o h, from, Len(a))
    PROVE  TailsIn(stops, (a \o h) \o b, from)
               = TailsIn(stops, h \o b, SearchFrom(from, Len(a)))
<1>1. PICK r, s, l, g : r = a \o h /\ s = h \o b /\ l = Len(a) /\ g = SearchFrom(from, l)
  OBVIOUS
<1>2. /\ r \in Seq(TextBytes) /\ Len(r) = l + Len(h) /\ s \in Seq(TextBytes)
      /\ Len(s) = Len(h) + Len(b) /\ r \o b = a \o s /\ Len(r \o b) = l + Len(s)
  <2>1. Regrouped(a, h, b)
    BY Regroup
  <2> QED BY ONLY <1>1, <2>1 DEF Regrouped
<1>3. /\ l \in Nat /\ Len(h) \in Nat /\ Len(b) \in Nat /\ Len(s) \in Nat /\ from \in Nat
      /\ from \in 0..Len(r) /\ g \in Nat /\ g = IF from > l THEN from - l ELSE 0
  BY <1>1, <1>2, LenProperties DEF SearchFrom
<1>4. ASSUME NEW n \in TailsIn(stops, r \o b, from) PROVE n \in TailsIn(stops, s, g)
  <2>1. PICK i \in DOMAIN stops :
           n < Len(stops[i]) /\ Spells(r \o b, Len(r \o b) - n, stops[i], n)
    BY <1>4 DEF TailsIn
  <2>2. n \in 1..(l + Len(s) - from) /\ Len(stops[i]) \in Nat
    <3>1. n \in 1..(Len(r \o b) - from)
      BY <1>4 DEF TailsIn
    <3>2. Len(stops[i]) \in Nat
      BY StopIs
    <3> QED BY <1>2, <1>3, <3>1, <3>2
  <2>3. PICK p : p = l + Len(s) - n
    OBVIOUS
  <2>4. p \in Nat /\ from <= p /\ p + n = l + Len(s) /\ n \in Nat /\ p + n >= Len(r)
        /\ n <= Len(stops[i]) /\ Len(r \o b) - n = p
    BY SMTT(30), <1>2, <1>3, <2>1, <2>2, <2>3
  <2>5. ~(p < l)
    <3>1. l \in 0..Len(r) /\ Undecided(stops, r, from, l)
      BY <1>1, <1>2, <1>3
    <3> QED BY <1>2, <1>3, <2>1, <2>4, <3>1, NothingMissed
  <2>6. PICK q : q = p - l
    OBVIOUS
  <2>7. q \in Nat /\ q + n <= Len(s) /\ p = l + q /\ Len(s) - n = q /\ n \in 1..(Len(s) - g)
    BY <1>3, <2>2, <2>3, <2>4, <2>5, <2>6
  <2>8. Spells(s, q, stops[i], n)
    <3>1. Spells(a \o s, Len(a) + q, stops[i], n)
      BY <1>1, <1>2, <2>1, <2>4, <2>7
    <3> QED BY <1>2, <2>4, <2>7, <3>1, SpellsBehind
  <2> QED BY <2>1, <2>7, <2>8 DEF TailsIn
<1>5. ASSUME NEW n \in TailsIn(stops, s, g) PROVE n \in TailsIn(stops, r \o b, from)
  <2>1. PICK i \in DOMAIN stops :
           n < Len(stops[i]) /\ Spells(s, Len(s) - n, stops[i], n)
    BY <1>5 DEF TailsIn
  <2>2. n \in 1..(Len(s) - g)
    BY <1>5 DEF TailsIn
  <2>3. PICK q : q = Len(s) - n
    OBVIOUS
  <2>4. q \in Nat /\ q + n <= Len(s) /\ n \in Nat /\ Len(r \o b) - n = l + q
        /\ n \in 1..(Len(r \o b) - from)
    BY SMTT(30), <1>2, <1>3, <2>2, <2>3
  <2>5. Spells(r \o b, l + q, stops[i], n)
    <3>1. Spells(s, q, stops[i], n)
      BY <2>1, <2>3
    <3>2. Spells(a \o s, Len(a) + q, stops[i], n)
      BY <1>2, <2>4, <3>1, SpellsBehind
    <3> QED BY <1>1, <1>2, <3>2
  <2> QED BY <2>1, <2>4, <2>5 DEF TailsIn
<1> QED BY <1>1, <1>4, <1>5

\* If there is a match, one is first.
LEMMA FirstExists ==
    ASSUME request \in GenerationRequests, NEW s \in Seq(TextBytes), NEW from \in Nat,
           StopMatches(s, from) # {}
    PROVE  FirstStopMatch(s, from) # {}
<1> DEFINE M == StopMatches(s, from)
<1>1. /\ \A m \in M : m.start \in Nat /\ m.stop \in Nat /\ MatchEnd(m) \in Nat
      /\ M # {}
  <2>1. ASSUME NEW m \in M PROVE m.start \in Nat /\ m.stop \in Nat /\ MatchEnd(m) \in Nat
    <3>1. m.start \in from..Len(s) /\ m.stop \in DOMAIN request.stops
      BY DEF StopMatches
    <3>2. request.stops \in StopLists
      BY RequestStops
    <3>3. DOMAIN request.stops = 1..Len(request.stops)
      BY <3>2, LenProperties DEF StopLists
    <3>4. Len(request.stops[m.stop]) \in Nat
      BY <3>1, <3>2, StopIs
    <3> QED BY SMTT(30), <3>1, <3>3, <3>4 DEF MatchEnd
  <2> QED BY <2>1
<1> HIDE DEF M
<1> DEFINE Ends == {MatchEnd(m) : m \in M}
<1>2. PICK e \in Ends : \A x \in Ends : e <= x
  <2>1. Ends \subseteq Nat /\ Ends # {}
    BY <1>1
  <2> HIDE DEF Ends
  <2> QED BY <2>1, HasLeast
<1> DEFINE Starts == {m.start : m \in {k \in M : MatchEnd(k) = e}}
<1>3. PICK b \in Starts : \A x \in Starts : b <= x
  <2>1. Starts \subseteq Nat /\ Starts # {}
    BY <1>1, <1>2
  <2> HIDE DEF Starts
  <2> QED BY <2>1, HasLeast
<1> DEFINE Stops == {m.stop : m \in {k \in M : MatchEnd(k) = e /\ k.start = b}}
<1>4. PICK i \in Stops : \A x \in Stops : i <= x
  <2>1. Stops \subseteq Nat /\ Stops # {}
    BY <1>1, <1>3
  <2> HIDE DEF Stops
  <2> QED BY <2>1, HasLeast
<1>5. PICK m \in M : MatchEnd(m) = e /\ m.start = b /\ m.stop = i
  BY <1>4
<1>6. ASSUME NEW k \in M
      PROVE  \/ MatchEnd(m) < MatchEnd(k)
             \/ MatchEnd(m) = MatchEnd(k) /\ m.start < k.start
             \/ MatchEnd(m) = MatchEnd(k) /\ m.start = k.start /\ m.stop <= k.stop
  <2>1. e <= MatchEnd(k) /\ e \in Nat /\ MatchEnd(k) \in Nat
    BY <1>1, <1>2, <1>5
  <2>2. CASE MatchEnd(k) = e
    <3>1. b <= k.start /\ b \in Nat /\ k.start \in Nat
      BY <1>1, <1>3, <1>5, <2>2
    <3>2. CASE k.start = b
      <4>1. i <= k.stop
        BY <1>4, <2>2, <3>2
      <4> QED BY <1>5, <2>2, <3>2, <4>1
    <3> QED BY <1>5, <2>2, <3>1, <3>2
  <2> QED BY <1>5, <2>1, <2>2
<1>7. m \in FirstStopMatch(s, from)
  BY <1>5, <1>6 DEF FirstStopMatch, M
<1> QED BY <1>7

-----------------------------------------------------------------------------
(* The state of a generation that runs. *)

\* Of c bytes of s the first n are shown behind a, and the rest of s is kept.
ShowsUpTo(a, s, c, n) ==
    /\ n \in 0..c
    /\ a \o Prefix(s, n) \in Seq(TextBytes) /\ Utf8(a \o Prefix(s, n))
    /\ Len(a \o Prefix(s, n)) = Len(a) + n
    /\ Len(a) + n = ValidUpTo(Prefix(a \o s, Len(a) + c))
    /\ SubSeq(s, n + 1, Len(s)) \in Seq(TextBytes)
    /\ Len(SubSeq(s, n + 1, Len(s))) = Len(s) - n
    /\ (a \o Prefix(s, n)) \o SubSeq(s, n + 1, Len(s)) = a \o s

\* What is shown when the first c bytes of s follow the text a.
LEMMA Emitted ==
    ASSUME NEW a \in Seq(TextBytes), NEW s \in Seq(TextBytes), Utf8(a), NEW c \in 0..Len(s),
           NEW n, n = ValidUpTo(Prefix(s, c))
    PROVE  ShowsUpTo(a, s, c, n)
<1>1. PICK u : u = Prefix(s, c)
  OBVIOUS
<1>2. /\ u \in Seq(TextBytes) /\ Len(u) = c /\ \A i \in 1..c : u[i] = s[i]
      /\ Len(a) \in Nat /\ Len(s) \in Nat
  BY <1>1, PrefixIs, LenProperties
<1>3. n \in 0..c /\ ValidTo(u, n) /\ n = ValidUpTo(u)
  BY <1>1, <1>2, ValidUpToIs
<1>4. n \in 0..Len(s) /\ n \in Nat
  BY <1>2, <1>3
<1>5. PICK v, w : v = Prefix(s, n) /\ w = SubSeq(s, n + 1, Len(s))
  OBVIOUS
<1>6. /\ v \in Seq(TextBytes) /\ Len(v) = n /\ \A i \in 1..n : v[i] = s[i]
      /\ w \in Seq(TextBytes) /\ Len(w) = Len(s) - n
  BY <1>4, <1>5, PrefixIs, RestIs
<1>7. a \o v \in Seq(TextBytes) /\ Len(a \o v) = Len(a) + n
  BY <1>6, ConcatProperties
<1>8. Utf8(v)
  <2>1. ValidTo(s, n)
    <3>1. \A i \in 1..n : u[i] = s[i] /\ (i < n => u[i + 1] = s[i + 1])
                          /\ (i > 1 => u[i - 1] = s[i - 1])
      <4> TAKE i \in 1..n
      <4>1. i \in 1..c /\ (i < n => i + 1 \in 1..c) /\ (i > 1 => i - 1 \in 1..c)
        BY <1>2, <1>3
      <4> QED BY <4>1, <1>2
    <3> QED BY <3>1, <1>3 DEF ValidTo
  <2> QED BY <2>1, <1>4, <1>5, Utf8Prefix
<1>9. Utf8(a \o v)
  <2>1. ValidTo(v, n) /\ n \in 0..Len(v)
    BY <1>4, <1>6, <1>8, Utf8Whole
  <2>2. ValidTo(a \o v, Len(a) + n)
    BY <2>1, <1>6, ValidBehind
  <2> QED BY <2>2, <1>7, Utf8Whole
<1>10. Prefix(a \o s, Len(a) + c) = a \o u
  <2>1. PICK x : x = Prefix(a \o s, Len(a) + c)
    OBVIOUS
  <2>2. /\ a \o s \in Seq(TextBytes) /\ Len(a \o s) = Len(a) + Len(s)
        /\ \A i \in 1..(Len(a) + Len(s)) :
              (a \o s)[i] = IF i <= Len(a) THEN a[i] ELSE s[i - Len(a)]
    BY ConcatProperties
  <2>3. Len(a) + c \in 0..Len(a \o s)
    BY <1>2, <2>2
  <2>4. /\ x \in Seq(TextBytes) /\ Len(x) = Len(a) + c
        /\ \A i \in 1..(Len(a) + c) : x[i] = (a \o s)[i]
    BY <2>1, <2>2, <2>3, PrefixIs
  <2>5. PICK y : y = a \o u
    OBVIOUS
  <2>6. /\ y \in Seq(TextBytes) /\ Len(y) = Len(a) + c
        /\ \A i \in 1..(Len(a) + c) : y[i] = IF i <= Len(a) THEN a[i] ELSE u[i - Len(a)]
    <3>1. /\ a \o u \in Seq(TextBytes) /\ Len(a \o u) = Len(a) + Len(u)
          /\ \A i \in 1..(Len(a) + Len(u)) :
                (a \o u)[i] = IF i <= Len(a) THEN a[i] ELSE u[i - Len(a)]
      BY <1>2, ConcatProperties
    <3> QED BY ONLY <2>5, <1>2, <3>1
  <2>7. ASSUME NEW i \in 1..(Len(a) + c) PROVE x[i] = y[i]
    <3>1. i \in 1..(Len(a) + Len(s)) /\ (~(i <= Len(a)) => i - Len(a) \in 1..c)
      BY <1>2
    <3> QED BY <3>1, <2>2, <2>4, <2>6, <1>2
  <2>8. x = y
    BY <2>4, <2>6, <2>7, SeqEqual
  <2> QED BY <2>1, <2>5, <2>8
<1>11. Len(a) + n = ValidUpTo(Prefix(a \o s, Len(a) + c))
  BY <1>2, <1>3, <1>10, ValidUpToBehind
<1>12. (a \o v) \o w = a \o s
  <2>1. v \o w = s
    <3>1. 1 \in 1..(Len(s) + 1) /\ n \in (1 - 1)..Len(s) /\ Len(s) \in n..Len(s)
      BY <1>2, <1>4
    <3>2. SubSeq(s, 1, n) \o SubSeq(s, n + 1, Len(s)) = SubSeq(s, 1, Len(s))
      BY <3>1, ConcatAdjacentSubSeq
    <3> QED BY <3>2, <1>5, SubSeqFull DEF Prefix
  <2>2. (a \o v) \o w = a \o (v \o w)
    <3>1. a \in Seq(TextBytes) /\ v \in Seq(TextBytes) /\ w \in Seq(TextBytes)
      BY <1>6
    <3> QED BY ONLY SMTT(30), <3>1, ConcatAssociative
  <2> QED BY ONLY <2>1, <2>2
<1> QED BY <1>3, <1>5, <1>6, <1>7, <1>9, <1>11, <1>12 DEF ShowsUpTo

\* A sequence that begins another and is as long is that sequence.
LEMMA WholePrefix ==
    ASSUME NEW s \in Seq(TextBytes), NEW t \in Seq(TextBytes), IsPrefix(s, t), Len(s) = Len(t)
    PROVE  s = t
BY SubSeqFull DEF IsPrefix

\* What the invariant says of a generation that runs.
LEMMA Running ==
    ASSUME GenerationInvariant, finish = "none"
    PROVE  /\ request \in GenerationRequests /\ request.stops \in StopLists
           /\ shown \in Seq(TextBytes) /\ pending \in Seq(TextBytes)
           /\ raw = shown \o pending /\ Utf8(shown)
           /\ gate \in 0..Len(shown \o pending) /\ matched = 0 /\ generated \in Nat
           /\ searchStart = SearchFrom(gate, Len(shown))
           /\ Undecided(request.stops, shown \o pending, gate, Len(shown))
<1>1. /\ GenerationTypes /\ SearchResumes /\ StopsWhereReferenceStops /\ ShownIsReference
  BY DEF GenerationInvariant, OutputIsReference
<1>2. /\ request \in GenerationRequests /\ request.stops \in StopLists
      /\ shown \in Seq(TextBytes) /\ pending \in Seq(TextBytes) /\ raw \in Seq(TextBytes)
      /\ gate \in 0..Len(raw) /\ generated \in Nat
  BY <1>1, RequestStops DEF GenerationTypes
<1>3. matched = 0 /\ searchStart = SearchFrom(gate, Len(shown))
  BY <1>1 DEF SearchResumes, SearchFrom
<1>4. /\ Len(raw) \in Nat /\ Len(shown) \in Nat /\ Len(pending) \in Nat
      /\ shown \o pending \in Seq(TextBytes)
      /\ Len(shown \o pending) = Len(shown) + Len(pending)
  BY <1>2, LenProperties, ConcatProperties
<1>5. IsPrefix(shown \o pending, raw) /\ Kept = Len(raw) /\ Utf8(shown)
  BY <1>1, <1>3 DEF ShownIsReference
<1>6. raw = shown \o pending
  BY <1>2, <1>4, <1>5, WholePrefix DEF Kept
<1>7. EndsIn(request.stops, raw, gate) = {}
  BY <1>1, <1>2, <1>3, EndsAre DEF StopsWhereReferenceStops, StopEnds
<1>8. Ambiguous = TailsIn(request.stops, raw, gate)
  BY <1>2, TailsAre DEF Ambiguous
<1>9. ASSUME NEW n \in TailsIn(request.stops, raw, gate) PROVE Len(shown) <= Len(raw) - n
  <2>1. PICK T, h : T = {0} \union Ambiguous /\ h = Max(T)
    OBVIOUS
  <2>2. \A x \in T : x \in Nat /\ x <= Len(raw)
    BY <1>2, <1>4, <2>1 DEF Ambiguous
  <2>3. T \subseteq Nat /\ T # {}
    BY <2>1, <2>2
  <2>4. h \in T /\ \A y \in T : y <= h
    BY <1>4, <2>1, <2>2, <2>3, MaxIsGreatest
  <2>5. h \in Nat /\ h <= Len(raw) /\ n <= h /\ n \in Nat
    BY <1>8, <1>9, <2>1, <2>2, <2>4
  <2>6. Len(shown) = ValidUpTo(Prefix(raw, Len(raw) - h))
    BY <1>1, <1>5, <2>1 DEF ShownIsReference
  <2>7. Len(raw) - h \in 0..Len(raw)
    BY <1>4, <2>5
  <2>8. Prefix(raw, Len(raw) - h) \in Seq(TextBytes)
        /\ Len(Prefix(raw, Len(raw) - h)) = Len(raw) - h
    BY <1>2, <2>7, PrefixIs
  <2>9. Len(shown) \in 0..(Len(raw) - h)
    BY <2>6, <2>8, ValidUpToIs
  <2> QED BY <1>4, <2>5, <2>9
<1>10. Undecided(request.stops, raw, gate, Len(shown))
  BY <1>7, <1>9 DEF Undecided
<1> QED BY <1>2, <1>3, <1>5, <1>6, <1>10

-----------------------------------------------------------------------------
(* Steps. *)

\* More text and no stop string.
LEMMA TextInv ==
    ASSUME GenerationInvariant, finish = "none", NEW s \in Seq(TextBytes), NEW c \in 0..Len(s),
           NEW n, n = ValidUpTo(Prefix(s, c)), EmitPrefix(s, n),
           raw' = shown \o s, request' = request, matched' = matched,
           generated' \in Nat, finish' \in Reasons, gate' \in 0..Len(raw'),
           searchStart' \in Nat,
           finish' = "none" => searchStart' = SearchFrom(gate', Len(shown) + n),
           EndsIn(request.stops, raw', gate') = {},
           finish' # "none" => c = Len(s),
           finish' = "none" => Max({0} \union TailsIn(request.stops, raw', gate')) = Len(s) - c
    PROVE  GenerationInvariant'
<1>1. /\ request \in GenerationRequests /\ request.stops \in StopLists
      /\ shown \in Seq(TextBytes) /\ Utf8(shown) /\ matched = 0
  BY Running
<1>2. shown' = shown \o Prefix(s, n) /\ pending' = SubSeq(s, n + 1, Len(s))
  BY DEF EmitPrefix
<1>3. /\ n \in 0..c
      /\ shown' \in Seq(TextBytes) /\ Utf8(shown') /\ Len(shown') = Len(shown) + n
      /\ Len(shown') = ValidUpTo(Prefix(raw', Len(shown) + c))
      /\ pending' \in Seq(TextBytes) /\ Len(pending') = Len(s) - n
      /\ shown' \o pending' = raw'
  <2>1. PICK u, v : u = shown \o Prefix(s, n) /\ v = SubSeq(s, n + 1, Len(s))
    OBVIOUS
  <2>2. /\ n \in 0..c
        /\ u \in Seq(TextBytes) /\ Utf8(u) /\ Len(u) = Len(shown) + n
        /\ Len(shown) + n = ValidUpTo(Prefix(shown \o s, Len(shown) + c))
        /\ v \in Seq(TextBytes) /\ Len(v) = Len(s) - n /\ u \o v = shown \o s
    <3>1. ShowsUpTo(shown, s, c, n)
      BY <1>1, Emitted
    <3> QED BY ONLY <3>1, <2>1 DEF ShowsUpTo
  <2>3. u = shown' /\ v = pending'
    BY <1>2, <2>1
  <2> QED BY ONLY <2>2, <2>3, raw' = shown \o s
<1>4. /\ Len(shown) \in Nat /\ Len(s) \in Nat /\ raw' \in Seq(TextBytes)
      /\ Len(raw') = Len(shown) + Len(s)
  BY <1>1, LenProperties, ConcatProperties
<1>5. GenerationTypes'
  BY <1>1, <1>3, <1>4 DEF GenerationTypes
<1>6. SearchResumes'
  BY <1>1, <1>3 DEF SearchResumes, SearchFrom
<1>7. Kept' = Len(raw')
  BY <1>3, <1>4 DEF Kept
<1>8. StopsWhereReferenceStops'
  <2>1. StopEnds' = EndsIn(request.stops, raw', gate')
    <3>1. StopEnds' = {e \in 0..Len(raw') : \E i \in DOMAIN request.stops :
              /\ Len(request.stops[i]) <= e - gate'
              /\ Suffix(Prefix(raw', e), Len(request.stops[i])) = request.stops[i]}
      BY Zenon DEF StopEnds
    <3> QED BY <1>1, <1>4, <3>1, EndsAre
  <2> QED BY <1>1, <2>1 DEF StopsWhereReferenceStops
<1>9. ShownIsReference'
  <2>1. IsPrefix(shown' \o pending', raw')
    BY <1>3, <1>4 DEF IsPrefix
  <2>2. Ambiguous' = TailsIn(request.stops, raw', gate')
    <3>1. Ambiguous' = {k \in 1..(Len(raw') - gate') : \E i \in DOMAIN request.stops :
              k < Len(request.stops[i]) /\ IsPrefix(Suffix(raw', k), request.stops[i])}
      BY Zenon DEF Ambiguous
    <3>2. {k \in 1..(Len(raw') - gate') : \E i \in DOMAIN request.stops :
              k < Len(request.stops[i]) /\ IsPrefix(Suffix(raw', k), request.stops[i])}
            = TailsIn(request.stops, raw', gate')
      BY ONLY <1>1, <1>4, gate' \in 0..Len(raw'), TailsAre
    <3> QED BY ONLY <3>1, <3>2
  <2>3. PICK h : h = IF finish' # "none" THEN 0 ELSE Max({0} \union Ambiguous')
    OBVIOUS
  <2>4. h = Len(s) - c
    BY <2>2, <2>3, <1>4
  <2>5. Kept' - h = Len(shown) + c
    BY <2>4, <1>4, <1>7
  <2> QED BY <1>3, <1>7, <2>1, <2>3, <2>5 DEF ShownIsReference
<1> QED BY <1>5, <1>6, <1>8, <1>9 DEF GenerationInvariant, OutputIsReference

\* The end of the search for the withheld bytes moves with the text.
LEMMA SearchMoves ==
    ASSUME NEW from \in Nat, NEW l \in Nat, NEW n \in Nat, searchStart = SearchFrom(from, l)
    PROVE  SearchStartAfter(n) = SearchFrom(from, l + n) /\ SearchStartAfter(n) \in Nat
BY DEF SearchStartAfter, SearchFrom

\* An end or stop token, or a cancellation.
LEMMA EndGenerationInv ==
    ASSUME GenerationInvariant, NEW reason \in {"eos", "stop_token", "cancelled"}, EndGeneration(reason)
    PROVE  GenerationInvariant'
<1>1. /\ finish = "none" /\ finish' = reason /\ request' = request /\ matched' = matched
      /\ raw' = raw /\ gate' = gate
      /\ generated' = IF reason = "cancelled" THEN generated ELSE generated + 1
  BY DEF EndGeneration
<1>2. PICK n : n = ValidUpTo(pending)
  OBVIOUS
<1>3. EmitPrefix(pending, n) /\ searchStart' = SearchStartAfter(n)
  BY <1>2 DEF EndGeneration, FinishPending
<1>4. /\ request.stops \in StopLists /\ shown \in Seq(TextBytes) /\ pending \in Seq(TextBytes)
      /\ raw = shown \o pending /\ gate \in 0..Len(raw) /\ generated \in Nat
      /\ searchStart = SearchFrom(gate, Len(shown))
      /\ EndsIn(request.stops, raw, gate) = {}
  BY <1>1, Running DEF Undecided
<1>5. Len(pending) \in 0..Len(pending) /\ Prefix(pending, Len(pending)) = pending
  BY <1>4, LenProperties, SubSeqFull DEF Prefix
<1>6. n \in 0..Len(pending) /\ Len(shown) \in Nat /\ gate \in Nat /\ n \in Nat
  BY <1>2, <1>4, ValidUpToIs, LenProperties
<1>7. searchStart' \in Nat
  BY <1>3, <1>4, <1>6, SearchMoves
<1>8. generated' \in Nat /\ finish' \in Reasons /\ finish' # "none"
  <2>1. generated' \in Nat
    BY <1>1, <1>4
  <2>2. finish' = "eos" \/ finish' = "stop_token" \/ finish' = "cancelled"
    BY <1>1
  <2>3. finish' \in Reasons /\ finish' # "none"
    BY ONLY <2>2 DEF Reasons
  <2> QED BY <2>1, <2>3
<1>9. n = ValidUpTo(Prefix(pending, Len(pending)))
  BY <1>2, <1>5
<1> QED BY <1>1, <1>3, <1>4, <1>5, <1>7, <1>8, <1>9, TextInv

\* What Occurs means, byte by byte.
LEMMA OccursIs ==
    ASSUME NEW stops \in StopLists, NEW i \in DOMAIN stops, NEW s \in Seq(TextBytes),
           NEW p \in Nat
    PROVE  (/\ p + Len(stops[i]) <= Len(s)
            /\ SubSeq(s, p + 1, p + Len(stops[i])) = stops[i])
               <=> FoundAt(stops, i, s, p)
<1>1. stops[i] \in Seq(TextBytes)
  BY StopIs
<1> QED BY <1>1, StretchSpells DEF FoundAt

\* The matches of a search are the stop strings found behind its start.
LEMMA MatchesAre ==
    ASSUME request \in GenerationRequests, NEW s \in Seq(TextBytes), NEW from \in Nat,
           NEW i \in DOMAIN request.stops, NEW p \in Nat, from <= p,
           FoundAt(request.stops, i, s, p)
    PROVE  [start |-> p, stop |-> i] \in StopMatches(s, from)
<1>1. request.stops \in StopLists
  BY RequestStops
<1>2. Len(request.stops[i]) \in Nat /\ Len(s) \in Nat
  BY <1>1, StopIs, LenProperties
<1>3. p + Len(request.stops[i]) <= Len(s)
  BY DEF FoundAt
<1>4. p \in from..Len(s)
  BY <1>2, <1>3
<1>5. Occurs(i, s, p)
  BY <1>1, OccursIs DEF Occurs
<1> QED BY <1>4, <1>5 DEF StopMatches

\* A stop string found in the whole text since stops were enabled is a match of the search.
LEMMA SearchFinds ==
    ASSUME GenerationInvariant, finish = "none", NEW b \in Seq(TextBytes), NEW i \in DOMAIN request.stops,
           NEW p \in Nat, gate <= p, FoundAt(request.stops, i, raw \o b, p)
    PROVE  /\ p - Len(shown) \in Nat
           /\ [start |-> p - Len(shown), stop |-> i] \in StopMatches(pending \o b, searchStart)
<1>1. /\ request \in GenerationRequests /\ request.stops \in StopLists
      /\ shown \in Seq(TextBytes) /\ pending \in Seq(TextBytes) /\ raw = shown \o pending
      /\ gate \in 0..Len(shown \o pending)
      /\ searchStart = SearchFrom(gate, Len(shown))
      /\ Undecided(request.stops, shown \o pending, gate, Len(shown))
  BY Running
<1>2. /\ p - Len(shown) \in Nat /\ SearchFrom(gate, Len(shown)) <= p - Len(shown)
      /\ FoundAt(request.stops, i, pending \o b, p - Len(shown))
  BY <1>1, FoundBehind
<1>3. pending \o b \in Seq(TextBytes) /\ searchStart \in Nat
  <2>1. searchStart \in Nat
    BY DEF GenerationInvariant, GenerationTypes
  <2> QED BY <1>1, <2>1, ConcatProperties
<1> QED BY <1>1, <1>2, <1>3, MatchesAre

\* A search that finds nothing leaves no stop string in the text.
LEMMA NoMatchNoEnd ==
    ASSUME GenerationInvariant, finish = "none", NEW b \in Seq(TextBytes),
           FirstStopMatch(pending \o b, searchStart) = {}
    PROVE  EndsIn(request.stops, raw \o b, gate) = {}
<1> SUFFICES ASSUME NEW e \in EndsIn(request.stops, raw \o b, gate) PROVE FALSE
  OBVIOUS
<1>1. PICK i \in DOMAIN request.stops :
         /\ Len(request.stops[i]) <= e - gate
         /\ FoundAt(request.stops, i, raw \o b, e - Len(request.stops[i]))
  BY DEF EndsIn
<1>2. /\ request \in GenerationRequests /\ request.stops \in StopLists
      /\ pending \in Seq(TextBytes) /\ gate \in Nat /\ searchStart \in Nat
  BY RequestStops DEF GenerationInvariant, GenerationTypes
<1>3. e \in Nat /\ Len(request.stops[i]) \in Nat
  <2>1. e \in 0..Len(raw \o b)
    BY DEF EndsIn
  <2> QED BY <1>2, <2>1, StopIs
<1>4. PICK p : p = e - Len(request.stops[i])
  OBVIOUS
<1>5. p \in Nat /\ gate <= p /\ FoundAt(request.stops, i, raw \o b, p)
  BY <1>1, <1>2, <1>3, <1>4
<1>6. StopMatches(pending \o b, searchStart) # {}
  BY <1>5, SearchFinds
<1>7. pending \o b \in Seq(TextBytes)
  BY <1>2, ConcatProperties
<1> QED BY <1>2, <1>6, <1>7, FirstExists

\* The text of a token while stops are disabled.
LEMMA DisabledInv ==
    ASSUME GenerationInvariant, finish = "none", NEW b \in Seq(TextBytes), ~StopConditionsEnabled,
           NEW last \in BOOLEAN, PushText(pending \o b, last),
           finish' = IF last THEN "length" ELSE "none", generated' \in Nat,
           raw' = raw \o b, gate' = Len(raw'), request' = request
    PROVE  GenerationInvariant'
<1>1. PICK s : s = pending \o b
  OBVIOUS
<1>2. /\ request.stops \in StopLists /\ shown \in Seq(TextBytes) /\ pending \in Seq(TextBytes)
      /\ raw = shown \o pending
  BY Running
<1>3. /\ s \in Seq(TextBytes) /\ raw' = shown \o s /\ Len(s) \in Nat /\ Len(shown) \in Nat
      /\ raw' \in Seq(TextBytes) /\ Len(raw') = Len(shown) + Len(s)
  <2>1. Regrouped(shown, pending, b) /\ raw' = raw \o b
    BY <1>2, Regroup
  <2> QED BY ONLY <1>1, <1>2, <2>1 DEF Regrouped
<1>4. PICK n : n = ValidUpTo(Prefix(s, Len(s) - 0))
  OBVIOUS
<1>5. EmitPrefix(s, n) /\ searchStart' = Len(s) - n /\ matched' = matched
  BY <1>1, <1>4 DEF PushText
<1>6. Len(s) - 0 = Len(s) /\ Prefix(s, Len(s)) = s /\ Len(s) \in 0..Len(s)
  BY <1>3, SubSeqFull DEF Prefix
<1>7. n = ValidUpTo(Prefix(s, Len(s))) /\ n \in 0..Len(s)
  BY <1>3, <1>4, <1>6, ValidUpToIs
<1>8. searchStart' \in Nat /\ searchStart' = SearchFrom(gate', Len(shown) + n)
  BY <1>3, <1>5, <1>7 DEF SearchFrom
<1>9. EndsIn(request.stops, raw', gate') = {}
  <2> SUFFICES ASSUME NEW e \in EndsIn(request.stops, raw', gate') PROVE FALSE
    OBVIOUS
  <2>1. PICK i \in DOMAIN request.stops : Len(request.stops[i]) <= e - gate'
    BY DEF EndsIn
  <2>2. e \in 0..Len(raw') /\ Len(request.stops[i]) \in Nat /\ Len(request.stops[i]) >= 1
    BY <1>2, StopIs DEF EndsIn
  <2> QED BY <1>3, <2>1, <2>2
<1>10. Max({0} \union TailsIn(request.stops, raw', gate')) = Len(s) - Len(s)
  <2>1. 1..(Len(raw') - gate') = {}
    BY <1>3
  <2>2. TailsIn(request.stops, raw', gate') = {}
    BY <2>1 DEF TailsIn
  <2>3. Max({0}) = 0
    <3>1. PICK T : T = {0}
      OBVIOUS
    <3>2. T \subseteq Nat /\ 0 \in T /\ \A y \in T : y <= 0
      BY <3>1
    <3> QED BY ONLY <3>1, <3>2, MaxIs
  <2>4. {0} \union TailsIn(request.stops, raw', gate') = {0}
    BY <2>2
  <2>5. Len(s) - Len(s) = 0
    BY <1>3
  <2> QED BY ONLY <2>3, <2>4, <2>5
<1>11. gate' \in 0..Len(raw') /\ finish' \in Reasons
  BY <1>3 DEF Reasons
<1> QED BY <1>3, <1>5, <1>6, <1>7, <1>8, <1>9, <1>10, <1>11, TextInv

\* The text of a token that completes no stop string.
LEMMA EnabledInv ==
    ASSUME GenerationInvariant, finish = "none", NEW b \in Seq(TextBytes), StopConditionsEnabled,
           FirstStopMatch(pending \o b, searchStart) = {},
           NEW last \in BOOLEAN, PushText(pending \o b, last),
           finish' = IF last THEN "length" ELSE "none", generated' \in Nat,
           raw' = raw \o b, gate' = gate, request' = request
    PROVE  GenerationInvariant'
<1>1. PICK s : s = pending \o b
  OBVIOUS
<1>2. /\ request.stops \in StopLists /\ shown \in Seq(TextBytes) /\ pending \in Seq(TextBytes)
      /\ raw = shown \o pending /\ gate \in 0..Len(shown \o pending)
      /\ searchStart = SearchFrom(gate, Len(shown))
      /\ Undecided(request.stops, shown \o pending, gate, Len(shown))
  BY Running
<1>3. /\ s \in Seq(TextBytes) /\ raw' = shown \o s /\ Len(s) \in Nat /\ Len(shown) \in Nat
      /\ raw' \in Seq(TextBytes) /\ Len(raw') = Len(shown) + Len(s)
      /\ Len(shown \o pending) = Len(shown) + Len(pending)
      /\ Len(s) = Len(pending) + Len(b) /\ Len(pending) \in Nat /\ Len(b) \in Nat
  <2>1. Regrouped(shown, pending, b) /\ raw' = raw \o b
    BY <1>2, Regroup
  <2> QED BY ONLY <1>1, <1>2, <2>1 DEF Regrouped
<1>4. gate \in Nat /\ gate \in 0..Len(raw') /\ searchStart \in 0..Len(s)
  BY SMTT(30), <1>2, <1>3 DEF SearchFrom
<1>5. PICK T : T = {0} \union TailsIn(request.stops, s, searchStart)
  OBVIOUS
<1>6. LongestStopPrefixSuffix(s, searchStart) = Max(T)
  BY <1>2, <1>3, <1>4, <1>5, TailsAre DEF LongestStopPrefixSuffix
<1>7. Max(T) \in 0..Len(s)
  <2>1. \A x \in T : x \in Nat /\ x <= Len(s)
    BY <1>3, <1>4, <1>5 DEF TailsIn
  <2>2. T \subseteq Nat /\ T # {}
    BY <1>5, <2>1
  <2>3. Max(T) \in T
    BY <1>3, <2>1, <2>2, MaxIsGreatest
  <2> QED BY <2>1, <2>3, <1>3
<1>8. PICK h : h = IF last THEN 0 ELSE Max(T)
  OBVIOUS
<1>9. PICK c, n : c = Len(s) - h /\ n = ValidUpTo(Prefix(s, c))
  OBVIOUS
<1>10. EmitPrefix(s, n) /\ searchStart' = SearchStartAfter(n) /\ matched' = matched
  BY <1>1, <1>6, <1>8, <1>9 DEF PushText
<1>11. h \in 0..Len(s) /\ c \in 0..Len(s) /\ h = Len(s) - c
  <2>1. h \in 0..Len(s)
    BY <1>3, <1>7, <1>8
  <2>2. c = Len(s) - h
    BY <1>9
  <2> QED BY ONLY <1>3, <2>1, <2>2
<1>12. n \in Nat
  <2>1. Prefix(s, c) \in Seq(TextBytes) /\ Len(Prefix(s, c)) \in Nat
    BY <1>3, <1>11, PrefixIs, LenProperties
  <2> QED BY <1>9, <2>1, ValidUpToIs
<1>13. searchStart' \in Nat /\ searchStart' = SearchFrom(gate', Len(shown) + n)
  BY SMTT(30), <1>2, <1>3, <1>4, <1>10, <1>12, SearchMoves
<1>14. EndsIn(request.stops, raw', gate') = {}
  BY NoMatchNoEnd
<1>15. TailsIn(request.stops, raw', gate') = TailsIn(request.stops, s, searchStart)
  <2>1. TailsIn(request.stops, (shown \o pending) \o b, gate)
            = TailsIn(request.stops, pending \o b, SearchFrom(gate, Len(shown)))
    BY <1>2, TailsBehind
  <2> QED BY <1>1, <1>2, <2>1
<1>16. finish' = "none" => Max({0} \union TailsIn(request.stops, raw', gate')) = Len(s) - c
  BY <1>5, <1>8, <1>11, <1>15
<1>17. finish' # "none" => c = Len(s)
  BY <1>3, <1>8, <1>9
<1>18. gate' \in 0..Len(raw') /\ finish' \in Reasons
  BY <1>4 DEF Reasons
<1> QED BY <1>3, <1>9, <1>10, <1>11, <1>13, <1>14, <1>16, <1>17, <1>18, TextInv

\* m is a match of the whole text, and no other comes before it.
LEMMA FirstIs ==
    ASSUME GenerationInvariant, finish = "none", NEW b \in Seq(TextBytes),
           NEW m \in FirstStopMatch(pending \o b, searchStart)
    PROVE  /\ m.start \in Nat /\ m.stop \in DOMAIN request.stops
           /\ m.start + Len(request.stops[m.stop]) <= Len(pending \o b)
           /\ gate <= Len(shown) + m.start
           /\ FoundAt(request.stops, m.stop, raw \o b, Len(shown) + m.start)
           /\ \A i \in DOMAIN request.stops, p \in Nat :
                gate <= p /\ FoundAt(request.stops, i, raw \o b, p) =>
                  LET e == Len(shown) + m.start + Len(request.stops[m.stop])
                      f == p + Len(request.stops[i])
                  IN  \/ e < f
                      \/ e = f /\ Len(shown) + m.start < p
                      \/ e = f /\ Len(shown) + m.start = p /\ m.stop <= i
<1>1. /\ request \in GenerationRequests /\ request.stops \in StopLists
      /\ shown \in Seq(TextBytes) /\ pending \in Seq(TextBytes) /\ raw = shown \o pending
      /\ gate \in 0..Len(shown \o pending)
      /\ searchStart = SearchFrom(gate, Len(shown))
      /\ Undecided(request.stops, shown \o pending, gate, Len(shown))
  BY Running
<1>2. /\ m \in StopMatches(pending \o b, searchStart)
      /\ \A k \in StopMatches(pending \o b, searchStart) :
            \/ MatchEnd(m) < MatchEnd(k)
            \/ MatchEnd(m) = MatchEnd(k) /\ m.start < k.start
            \/ MatchEnd(m) = MatchEnd(k) /\ m.start = k.start /\ m.stop <= k.stop
  BY DEF FirstStopMatch
<1>3. /\ m.start \in searchStart..Len(pending \o b) /\ m.stop \in DOMAIN request.stops
      /\ Occurs(m.stop, pending \o b, m.start)
  BY <1>2 DEF StopMatches
<1>4. /\ searchStart \in Nat /\ gate \in Nat /\ Len(shown) \in Nat /\ pending \o b \in Seq(TextBytes)
      /\ Len(pending \o b) \in Nat
  BY <1>1, LenProperties, ConcatProperties DEF SearchFrom
<1>5. m.start \in Nat /\ searchStart <= m.start /\ Len(request.stops[m.stop]) \in Nat
  BY <1>1, <1>3, <1>4, StopIs
<1>6. FoundAt(request.stops, m.stop, pending \o b, m.start)
  BY <1>1, <1>3, <1>4, <1>5, OccursIs DEF Occurs
<1>7. /\ gate <= Len(shown) + m.start
      /\ FoundAt(request.stops, m.stop, raw \o b, Len(shown) + m.start)
  BY <1>1, <1>3, <1>5, <1>6, FoundBehind
<1>8. ASSUME NEW i \in DOMAIN request.stops, NEW p \in Nat, gate <= p,
             FoundAt(request.stops, i, raw \o b, p)
      PROVE  \/ Len(shown) + m.start + Len(request.stops[m.stop]) < p + Len(request.stops[i])
             \/ /\ Len(shown) + m.start + Len(request.stops[m.stop]) = p + Len(request.stops[i])
                /\ Len(shown) + m.start < p
             \/ /\ Len(shown) + m.start + Len(request.stops[m.stop]) = p + Len(request.stops[i])
                /\ Len(shown) + m.start = p /\ m.stop <= i
  <2>1. PICK q : q = p - Len(shown)
    OBVIOUS
  <2>2. PICK k : k = [start |-> q, stop |-> i]
    OBVIOUS
  <2>3. q \in Nat /\ k \in StopMatches(pending \o b, searchStart) /\ k.start = q /\ k.stop = i
    BY <1>8, <2>1, <2>2, SearchFinds
  <2>4. Len(request.stops[i]) \in Nat /\ MatchEnd(k) = q + Len(request.stops[i])
        /\ MatchEnd(m) = m.start + Len(request.stops[m.stop])
    BY <1>1, <2>3, StopIs DEF MatchEnd
  <2>5. \/ MatchEnd(m) < MatchEnd(k)
        \/ MatchEnd(m) = MatchEnd(k) /\ m.start < q
        \/ MatchEnd(m) = MatchEnd(k) /\ m.start = q /\ m.stop <= i
    BY <1>2, <2>3
  <2>6. PICK x, y, z, l : /\ x = m.start /\ y = Len(request.stops[m.stop])
                          /\ z = Len(request.stops[i]) /\ l = Len(shown)
    OBVIOUS
  <2>7. /\ x \in Nat /\ y \in Nat /\ z \in Nat /\ l \in Nat /\ q \in Nat /\ p \in Nat
        /\ q = p - l
    BY <1>4, <1>5, <2>1, <2>3, <2>4, <2>6
  <2>8. x + y < q + z \/ (x + y = q + z /\ x < q) \/ (x + y = q + z /\ x = q /\ m.stop <= i)
    BY <2>4, <2>5, <2>6
  <2>9. l + q = p
    BY ONLY <2>7
  <2>10. \/ l + x + y < p + z
         \/ l + x + y = p + z /\ l + x < p
         \/ l + x + y = p + z /\ l + x = p /\ m.stop <= i
    <3>1. CASE x + y < q + z
      BY ONLY <2>7, <2>9, <3>1
    <3>2. CASE x + y = q + z /\ x < q
      BY ONLY <2>7, <2>9, <3>2
    <3>3. CASE x + y = q + z /\ x = q /\ m.stop <= i
      BY ONLY <2>7, <2>9, <3>3
    <3> QED BY ONLY <2>8, <3>1, <3>2, <3>3
  <2> QED BY ONLY <2>6, <2>10
<1>9. m.start + Len(request.stops[m.stop]) <= Len(pending \o b)
  BY <1>6 DEF FoundAt
<1> QED BY <1>3, <1>5, <1>7, <1>8, <1>9

\* The text of a token that completes a stop string.
LEMMA MatchInv ==
    ASSUME GenerationInvariant, finish = "none", NEW b \in Seq(TextBytes),
           NEW m \in FirstStopMatch(pending \o b, searchStart), PushMatch(pending \o b, m),
           finish' = "stop_string", generated' \in Nat,
           raw' = raw \o b, gate' = gate, request' = request
    PROVE  GenerationInvariant'
<1>1. /\ request \in GenerationRequests /\ request.stops \in StopLists
      /\ shown \in Seq(TextBytes) /\ pending \in Seq(TextBytes) /\ Utf8(shown)
      /\ raw = shown \o pending /\ gate \in 0..Len(shown \o pending)
      /\ searchStart = SearchFrom(gate, Len(shown))
  BY Running
<1>2. PICK s, p, i, t, l :
         /\ s = pending \o b /\ p = m.start /\ i = m.stop /\ t = request.stops[i]
         /\ l = Len(shown)
  OBVIOUS
<1>3. /\ p \in Nat /\ i \in DOMAIN request.stops /\ p + Len(t) <= Len(s) /\ gate <= l + p
      /\ FoundAt(request.stops, i, raw', l + p)
      /\ \A j \in DOMAIN request.stops, x \in Nat :
           gate <= x /\ FoundAt(request.stops, j, raw', x) =>
             \/ l + p + Len(t) < x + Len(request.stops[j])
             \/ l + p + Len(t) = x + Len(request.stops[j]) /\ l + p < x
             \/ l + p + Len(t) = x + Len(request.stops[j]) /\ l + p = x /\ i <= j
  BY <1>2, FirstIs
<1>4. /\ s \in Seq(TextBytes) /\ raw' = shown \o s /\ Len(s) \in Nat /\ l \in Nat
      /\ raw' \in Seq(TextBytes) /\ Len(raw') = l + Len(s)
      /\ Len(shown \o pending) = l + Len(pending)
      /\ Len(s) = Len(pending) + Len(b) /\ Len(pending) \in Nat /\ Len(b) \in Nat
  <2>1. Regrouped(shown, pending, b) /\ raw' = raw \o b
    BY <1>1, Regroup
  <2> QED BY ONLY <1>1, <1>2, <2>1 DEF Regrouped
<1>5. /\ Len(t) \in Nat /\ Len(t) >= 1 /\ p \in 0..Len(s) /\ gate \in Nat
      /\ gate \in 0..Len(raw') /\ i \in Nat /\ i # 0
  <2>1. Len(t) \in Nat /\ Len(t) >= 1
    BY <1>1, <1>2, <1>3, StopIs
  <2>2. DOMAIN request.stops = 1..Len(request.stops)
    BY <1>1, LenProperties DEF StopLists
  <2>3. i \in Nat /\ i # 0
    BY ONLY <1>3, <2>2
  <2>4. gate \in Nat /\ gate \in 0..Len(raw')
    BY ONLY <1>1, <1>4
  <2>5. p \in 0..Len(s)
    BY ONLY <1>3, <1>4, <2>1
  <2> QED BY ONLY <2>1, <2>3, <2>4, <2>5
<1>6. PICK u, n : u = Prefix(s, p) /\ n = ValidUpTo(u)
  OBVIOUS
<1>7. EmitPrefix(u, n) /\ searchStart' = SearchStartAfter(n) /\ matched' = i
  BY <1>2, <1>6 DEF PushMatch
<1>8. u \in Seq(TextBytes) /\ Len(u) = p /\ Prefix(u, p) = u /\ p \in 0..Len(u)
      /\ \A j \in 1..p : u[j] = s[j]
  <2>1. u \in Seq(TextBytes) /\ Len(u) = p /\ \A j \in 1..p : u[j] = s[j]
    BY <1>4, <1>5, <1>6, PrefixIs
  <2>2. SubSeq(u, 1, Len(u)) = u
    BY <2>1, SubSeqFull
  <2> QED BY <1>3, <2>1, <2>2 DEF Prefix
<1>9. shown' = shown \o Prefix(u, n) /\ pending' = SubSeq(u, n + 1, Len(u))
  BY <1>7 DEF EmitPrefix
<1>10. ShowsUpTo(shown, u, p, n)
  BY <1>1, <1>6, <1>8, Emitted
<1>11. /\ n \in 0..p
       /\ shown' \in Seq(TextBytes) /\ Utf8(shown') /\ Len(shown') = l + n
       /\ Len(shown') = ValidUpTo(Prefix(shown \o u, l + p))
       /\ pending' \in Seq(TextBytes) /\ Len(pending') = p - n
       /\ shown' \o pending' = shown \o u
  BY ONLY <1>2, <1>8, <1>9, <1>10 DEF ShowsUpTo
<1>12. shown \o u = Prefix(raw', l + p) /\ Prefix(shown \o u, l + p) = Prefix(raw', l + p)
  <2>1. PICK v : v = shown \o u
    OBVIOUS
  <2>2. /\ v \in Seq(TextBytes) /\ Len(v) = l + p
        /\ \A j \in 1..(l + p) : v[j] = IF j <= l THEN shown[j] ELSE u[j - l]
    <3>1. /\ shown \o u \in Seq(TextBytes) /\ Len(shown \o u) = Len(shown) + Len(u)
          /\ \A j \in 1..(Len(shown) + Len(u)) :
                (shown \o u)[j] = IF j <= Len(shown) THEN shown[j] ELSE u[j - Len(shown)]
      BY <1>1, <1>8, ConcatProperties
    <3> QED BY ONLY <1>2, <1>8, <2>1, <3>1
  <2>3. PICK w : w = Prefix(raw', l + p)
    OBVIOUS
  <2>4. l + p \in 0..Len(raw')
    BY <1>4, <1>5
  <2>5. w \in Seq(TextBytes) /\ Len(w) = l + p /\ \A j \in 1..(l + p) : w[j] = raw'[j]
    BY <1>4, <2>3, <2>4, PrefixIs
  <2>6. \A j \in 1..(l + Len(s)) : raw'[j] = IF j <= l THEN shown[j] ELSE s[j - l]
    BY <1>1, <1>2, <1>4, ConcatProperties
  <2>7. ASSUME NEW j \in 1..(l + p) PROVE v[j] = w[j]
    <3>1. j \in 1..(l + Len(s)) /\ (~(j <= l) => j - l \in 1..p)
      BY <1>4, <1>5
    <3> QED BY <3>1, <2>2, <2>5, <2>6, <1>8
  <2>8. v = w
    BY <2>2, <2>5, <2>7, SeqEqual
  <2>9. SubSeq(v, 1, Len(v)) = v
    BY <2>2, SubSeqFull
  <2> QED BY <2>1, <2>2, <2>3, <2>8, <2>9 DEF Prefix
<1>13. Kept' = l + p
  <2>1. Kept' = Len(shown') + Len(pending')
    BY DEF Kept
  <2>2. Len(shown') = l + n /\ Len(pending') = p - n /\ n \in 0..p /\ l \in Nat /\ p \in Nat
    BY <1>3, <1>4, <1>11
  <2> QED BY ONLY <2>1, <2>2
<1>14. GenerationTypes'
  <2>1. searchStart' \in Nat
    <3>1. n \in Nat
      BY <1>5, <1>11
    <3> QED BY <1>1, <1>2, <1>4, <1>5, <1>7, <3>1, SearchMoves
  <2>2. finish' \in Reasons
    BY DEF Reasons
  <2> QED BY <1>1, <1>4, <1>5, <1>7, <1>11, <2>1, <2>2 DEF GenerationTypes
<1>15. SearchResumes'
  BY DEF SearchResumes
<1>16. ShownIsReference'
  <2>1. IsPrefix(shown' \o pending', raw')
    <3>1. PICK v : v = shown' \o pending'
      OBVIOUS
    <3>2. v = Prefix(raw', l + p) /\ l + p \in 0..Len(raw')
      <4>1. v = Prefix(raw', l + p)
        BY ONLY <1>11, <1>12, <3>1
      <4> QED BY <1>4, <1>5, <4>1
    <3>3. v \in Seq(TextBytes) /\ Len(v) = l + p /\ Len(v) <= Len(raw')
      <4>1. Prefix(raw', l + p) \in Seq(TextBytes) /\ Len(Prefix(raw', l + p)) = l + p
        BY <1>4, <3>2, PrefixIs
      <4> QED BY <1>4, <3>2, <4>1
    <3>4. SubSeq(v, 1, Len(v)) = v
      BY <3>3, SubSeqFull
    <3> QED BY <3>1, <3>2, <3>3, <3>4 DEF IsPrefix, Prefix
  <2>2. Kept' - 0 = l + p
    BY <1>4, <1>5, <1>13
  <2>3. Len(shown') = ValidUpTo(Prefix(raw', Kept' - 0))
    BY <1>11, <1>12, <2>2
  <2> QED BY <1>5, <1>7, <1>11, <2>1, <2>3 DEF ShownIsReference
<1>17. PICK e : e = l + p + Len(t)
  OBVIOUS
<1>18. Min(StopEnds') = e
  <2>1. StopEnds' = EndsIn(request.stops, raw', gate)
    <3>1. StopEnds' = {x \in 0..Len(raw') : \E j \in DOMAIN request.stops :
              /\ Len(request.stops[j]) <= x - gate
              /\ Suffix(Prefix(raw', x), Len(request.stops[j])) = request.stops[j]}
      BY Zenon DEF StopEnds
    <3>2. {x \in 0..Len(raw') : \E j \in DOMAIN request.stops :
              /\ Len(request.stops[j]) <= x - gate
              /\ Suffix(Prefix(raw', x), Len(request.stops[j])) = request.stops[j]}
            = EndsIn(request.stops, raw', gate)
      BY ONLY <1>1, <1>4, <1>5, EndsAre
    <3> QED BY ONLY <3>1, <3>2
  <2>2. e \in EndsIn(request.stops, raw', gate)
    <3>1. e \in 0..Len(raw') /\ Len(t) <= e - gate /\ e - Len(t) = l + p
      BY SMTT(30), <1>3, <1>4, <1>5, <1>17
    <3> QED BY <1>2, <1>3, <3>1 DEF EndsIn
  <2>3. ASSUME NEW x \in EndsIn(request.stops, raw', gate) PROVE e <= x /\ x \in Nat
    <3>1. PICK j \in DOMAIN request.stops :
             /\ Len(request.stops[j]) <= x - gate
             /\ FoundAt(request.stops, j, raw', x - Len(request.stops[j]))
      BY DEF EndsIn
    <3>2. x \in Nat /\ Len(request.stops[j]) \in Nat
      <4>1. x \in 0..Len(raw')
        BY DEF EndsIn
      <4> QED BY <1>1, <4>1, StopIs
    <3>3. PICK y : y = x - Len(request.stops[j])
      OBVIOUS
    <3>4. y \in Nat /\ gate <= y /\ FoundAt(request.stops, j, raw', y)
          /\ y + Len(request.stops[j]) = x
      BY <1>5, <3>1, <3>2, <3>3
    <3>5. e < x \/ e = x
      BY SMTT(30), <1>3, <1>17, <3>4
    <3> QED BY ONLY SMTT(30), <1>3, <1>4, <1>5, <1>17, <3>2, <3>5
  <2>4. StopEnds' \subseteq Nat /\ e \in StopEnds' /\ \A x \in StopEnds' : e <= x
    BY <2>1, <2>2, <2>3
  <2> QED BY <2>4, MinIs
<1>19. StopsWhereReferenceStops'
  <2>1. Occurs(matched, raw, Kept)'
    <3>1. FoundAt(request.stops, i, raw', l + p) /\ l + p \in Nat
      BY <1>3, <1>4
    <3>2. /\ l + p + Len(request.stops[i]) <= Len(raw')
          /\ SubSeq(raw', l + p + 1, l + p + Len(request.stops[i])) = request.stops[i]
      <4>1. PICK x : x = l + p
        OBVIOUS
      <4>2. (/\ x + Len(request.stops[i]) <= Len(raw')
             /\ SubSeq(raw', x + 1, x + Len(request.stops[i])) = request.stops[i])
                <=> FoundAt(request.stops, i, raw', x)
        <5>1. x \in Nat
          BY ONLY <3>1, <4>1
        <5> QED BY ONLY <1>1, <1>3, <1>4, <5>1, OccursIs
      <4> QED BY ONLY <3>1, <4>1, <4>2
    <3> QED BY <1>7, <1>13, <3>2 DEF Occurs
  <2>2. Kept' >= gate'
    BY <1>3, <1>4, <1>5, <1>13
  <2>3. Kept' + Len(request'.stops[matched']) = Min(StopEnds')
    BY <1>2, <1>7, <1>13, <1>17, <1>18
  <2>4. ASSUME NEW j \in DOMAIN request'.stops, NEW x, x = Min(StopEnds') - Len(request'.stops[j]),
               x >= gate', Occurs(j, raw, x)'
        PROVE  x > Kept' \/ (x = Kept' /\ j >= matched')
    <3>1. Len(request.stops[j]) \in Nat /\ x = e - Len(request.stops[j]) /\ e \in Nat
      <4>1. Len(request.stops[j]) \in Nat
        BY <1>1, StopIs
      <4>2. x = e - Len(request.stops[j])
        BY <1>18, <2>4
      <4>3. e \in Nat
        BY SMTT(30), <1>4, <1>5, <1>17
      <4> QED BY <4>1, <4>2, <4>3
    <3>2. x \in Nat /\ gate <= x /\ x + Len(request.stops[j]) = e
      BY <1>5, <2>4, <3>1
    <3>3. /\ x + Len(request.stops[j]) <= Len(raw')
          /\ SubSeq(raw', x + 1, x + Len(request.stops[j])) = request.stops[j]
      BY <2>4 DEF Occurs
    <3>4. FoundAt(request.stops, j, raw', x)
      BY <1>1, <1>4, <3>2, <3>3, OccursIs
    <3>5. \/ e < e
          \/ l + p < x
          \/ l + p = x /\ i <= j
      BY <1>3, <1>17, <3>2, <3>4
    <3>6. l \in Nat /\ p \in Nat /\ e \in Nat /\ x \in Nat /\ i \in Nat /\ j \in Nat
      <4>1. DOMAIN request.stops = 1..Len(request.stops)
        BY <1>1, LenProperties DEF StopLists
      <4> QED BY SMTT(30), <1>3, <1>4, <1>5, <3>1, <3>2, <4>1
    <3>7. x > l + p \/ (x = l + p /\ j >= i)
      BY ONLY <3>5, <3>6
    <3> QED BY ONLY <1>7, <1>13, <3>7
  <2>5. matched' # 0
    BY <1>5, <1>7
  <2> QED BY <2>1, <2>2, <2>3, <2>4, <2>5 DEF StopsWhereReferenceStops
<1> QED BY <1>14, <1>15, <1>16, <1>19 DEF GenerationInvariant, OutputIsReference

\* A token with visible text.
LEMMA AcceptTokenInv ==
    ASSUME GenerationInvariant, NEW b \in TokenTexts, AcceptToken(b)
    PROVE  GenerationInvariant'
<1>1. b \in Seq(TextBytes)
  BY TextAssumption
<1>2. /\ finish = "none" /\ generated' = generated + 1 /\ raw' = raw \o b
      /\ gate' = (IF StopConditionsEnabled THEN gate ELSE Len(raw')) /\ request' = request
  BY DEF AcceptToken
<1>3. generated' \in Nat
  BY <1>2 DEF GenerationInvariant, GenerationTypes
<1>4. PICK match, last :
         /\ match = IF StopConditionsEnabled THEN FirstStopMatch(pending \o b, searchStart) ELSE {}
         /\ last = (generated + 1 = request.max)
  OBVIOUS
<1>5. IF match # {}
      THEN \E m \in match : PushMatch(pending \o b, m) /\ finish' = "stop_string"
      ELSE PushText(pending \o b, last) /\ finish' = IF last THEN "length" ELSE "none"
  BY <1>4 DEF AcceptToken
<1>6. last \in BOOLEAN
  BY <1>4
<1>7. CASE match # {}
  <2>1. PICK m \in match : PushMatch(pending \o b, m) /\ finish' = "stop_string"
    BY <1>5, <1>7
  <2>2. StopConditionsEnabled /\ m \in FirstStopMatch(pending \o b, searchStart)
    BY <1>4, <1>7
  <2>3. gate' = gate
    BY <1>2, <2>2
  <2> QED BY <1>1, <1>2, <1>3, <2>1, <2>2, <2>3, MatchInv
<1>8. CASE match = {}
  <2>1. PushText(pending \o b, last) /\ finish' = IF last THEN "length" ELSE "none"
    BY <1>5, <1>8
  <2>2. CASE StopConditionsEnabled
    <3>1. FirstStopMatch(pending \o b, searchStart) = {} /\ gate' = gate
      BY <1>2, <1>4, <1>8, <2>2
    <3> QED BY <1>1, <1>2, <1>3, <1>6, <2>1, <2>2, <3>1, EnabledInv
  <2>3. CASE ~StopConditionsEnabled
    <3>1. gate' = Len(raw')
      BY <1>2, <2>3
    <3> QED BY <1>1, <1>2, <1>3, <1>6, <2>1, <2>3, <3>1, DisabledInv
  <2> QED BY <2>2, <2>3
<1> QED BY <1>7, <1>8

\* A failure keeps text and bytes.
LEMMA MarkFailedInv ==
    ASSUME GenerationInvariant, MarkFailed
    PROVE  GenerationInvariant'
<1>1. /\ finish' = "error"
      /\ UNCHANGED <<request, shown, pending, searchStart, matched, generated, raw, gate>>
  BY DEF MarkFailed
<1>2. GenerationTypes'
  BY <1>1 DEF GenerationInvariant, GenerationTypes, Reasons
<1>3. SearchResumes'
  BY <1>1 DEF SearchResumes
<1>4. StopsWhereReferenceStops'
  <2>1. StopsWhereReferenceStops
    BY DEF GenerationInvariant, OutputIsReference
  <2> QED BY <1>1, <2>1 DEF StopsWhereReferenceStops, StopEnds, Kept, Occurs
<1>5. ShownIsReference'
  <2>1. ShownIsReference
    BY DEF GenerationInvariant, OutputIsReference
  <2>2. IsPrefix(shown \o pending, raw) /\ (matched = 0 => Kept = Len(raw)) /\ Utf8(shown)
    BY <2>1 DEF ShownIsReference
  <2>3. Kept' = Kept
    BY <1>1 DEF Kept
  <2> QED BY <1>1, <2>2, <2>3 DEF ShownIsReference
<1> QED BY <1>2, <1>3, <1>4, <1>5 DEF GenerationInvariant, OutputIsReference

\* Nothing changes.
LEMMA StutterInv ==
    ASSUME GenerationInvariant, UNCHANGED generationVars
    PROVE  GenerationInvariant'
<1>1. /\ request' = request /\ shown' = shown /\ pending' = pending
      /\ searchStart' = searchStart /\ matched' = matched /\ generated' = generated
      /\ finish' = finish /\ raw' = raw /\ gate' = gate
  BY DEF generationVars
<1>2. GenerationTypes' /\ SearchResumes'
  BY <1>1 DEF GenerationInvariant, GenerationTypes, SearchResumes
<1>3. StopEnds' = StopEnds /\ Kept' = Kept /\ Ambiguous' = Ambiguous
  BY <1>1 DEF StopEnds, Kept, Ambiguous
<1>4. StopsWhereReferenceStops'
  BY <1>1, <1>3 DEF GenerationInvariant, OutputIsReference, StopsWhereReferenceStops, Occurs
<1>5. ShownIsReference'
  BY <1>1, <1>3 DEF GenerationInvariant, OutputIsReference, ShownIsReference
<1> QED BY <1>2, <1>4, <1>5 DEF GenerationInvariant, OutputIsReference

\* A new generation.
LEMMA InitInvariant ==
    ASSUME GenerationInit
    PROVE  GenerationInvariant
<1>1. /\ request \in GenerationRequests /\ shown = <<>> /\ pending = <<>> /\ searchStart = 0
      /\ matched = 0 /\ generated = 0 /\ raw = <<>> /\ gate = 0
      /\ finish \in {"none", "length"}
  BY DEF GenerationInit
<1>2. <<>> \in Seq(TextBytes) /\ Len(<<>>) = 0
  BY EmptySeq
<1>3. request.stops \in StopLists
  BY <1>1, RequestStops
<1>4. GenerationTypes /\ SearchResumes
  BY <1>1, <1>2 DEF GenerationTypes, SearchResumes, Reasons
<1>5. StopEnds = {}
  <2> SUFFICES ASSUME NEW e \in StopEnds PROVE FALSE
    OBVIOUS
  <2>1. PICK i \in DOMAIN request.stops : Len(request.stops[i]) <= e - gate
    BY DEF StopEnds
  <2>2. e = 0 /\ Len(request.stops[i]) \in Nat /\ Len(request.stops[i]) >= 1
    BY <1>1, <1>2, <1>3, StopIs DEF StopEnds
  <2> QED BY <1>1, <2>1, <2>2
<1>6. StopsWhereReferenceStops
  BY <1>1, <1>5 DEF StopsWhereReferenceStops
<1>7. ShownIsReference
  <2>1. shown \o pending = <<>> /\ Kept = 0
    BY <1>1, <1>2, ConcatEmptySeq DEF Kept
  <2>2. IsPrefix(<<>>, <<>>)
    BY <1>2 DEF IsPrefix
  <2>3. Utf8(<<>>)
    BY <1>2 DEF Utf8
  <2>4. Ambiguous = {}
    <3>1. 1..(Len(raw) - gate) = {}
      BY <1>1, <1>2
    <3> QED BY <3>1 DEF Ambiguous
  <2>5. (IF finish # "none" THEN 0 ELSE Max({0} \union Ambiguous)) = 0
    <3>1. PICK T : T = {0} \union Ambiguous
      OBVIOUS
    <3>2. T \subseteq Nat /\ 0 \in T /\ \A y \in T : y <= 0
      BY <2>4, <3>1
    <3>3. Max(T) = 0
      BY ONLY <3>2, MaxIs
    <3> QED BY ONLY <3>1, <3>3
  <2>6. ValidUpTo(Prefix(<<>>, 0)) = 0
    <3>1. 0 \in 0..Len(<<>>)
      BY <1>2
    <3>2. Prefix(<<>>, 0) \in Seq(TextBytes) /\ Len(Prefix(<<>>, 0)) = 0
      BY <1>2, <3>1, PrefixIs
    <3>3. ValidUpTo(Prefix(<<>>, 0)) \in 0..0
      BY <3>2, ValidUpToIs
    <3> QED BY <3>3
  <2>7. Kept - 0 = 0
    BY <2>1
  <2> QED BY <1>1, <1>2, <2>1, <2>2, <2>3, <2>5, <2>6, <2>7 DEF ShownIsReference
<1> QED BY <1>4, <1>6, <1>7 DEF GenerationInvariant, OutputIsReference

-----------------------------------------------------------------------------

\* GenerationInvariant holds in every reachable state.
THEOREM GenerationInvariance == GenerationSpec => []GenerationInvariant
<1>1. GenerationInit => GenerationInvariant
  BY InitInvariant
<1>2. GenerationInvariant /\ [GenerationNext]_generationVars => GenerationInvariant'
  <2> SUFFICES ASSUME GenerationInvariant, [GenerationNext]_generationVars PROVE GenerationInvariant'
    OBVIOUS
  <2>1. CASE \E b \in TokenTexts : AcceptToken(b)
    BY <2>1, AcceptTokenInv
  <2>2. CASE \E reason \in {"eos", "stop_token", "cancelled"} : EndGeneration(reason)
    BY <2>2, EndGenerationInv
  <2>3. CASE MarkFailed
    BY <2>3, MarkFailedInv
  <2>4. CASE UNCHANGED generationVars
    BY <2>4, StutterInv
  <2> QED BY <2>1, <2>2, <2>3, <2>4 DEF GenerationNext
<1> QED BY <1>1, <1>2, PTL DEF GenerationSpec

\* The incremental search of stop strings decides and shows what a search of the whole
\* text does, wherever token boundaries fall (StopState::push, finish_pending).
THEOREM OutputCorrect == GenerationSpec => []OutputIsReference
<1>1. GenerationInvariant => OutputIsReference
  BY DEF GenerationInvariant
<1> QED BY <1>1, GenerationInvariance, PTL
=============================================================================
