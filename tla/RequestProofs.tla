---------------------------- MODULE RequestProofs ----------------------------
(***************************************************************************)
(* Proofs about the two ends of a request.                                 *)
(*                                                                         *)
(* The inference engine, for any number of requests, any capacities and    *)
(* any failures of the backend: the books of client threads, worker and    *)
(* backend agree, and the channel of any request is a RequestStream.       *)
(*                                                                         *)
(* The delivery, for every output limit, byte limit and probe interval,    *)
(* and whatever the engine sends within RequestStream: what a client reads *)
(* is faithful and no request is left running.                             *)
(***************************************************************************)
EXTENDS EngineChannel, Delivery, FiniteSetTheorems, SequenceTheorems, TLAPS

-----------------------------------------------------------------------------
(* The engine.  The inductive invariant. *)

Early == {"idle", "checked", "counted", "undo"}
Clients == Early \cup {"awaiting", "late", "streaming", "ended", "done"}
Flags == {"live", "cancelled", "cancelling", "terminal"}
Places == {"starting", "top", "cancel", "recheck", "command", "idle", "step", "abort", "flush",
           "publish", "stage", "reject", "drop", "exit", "store", "return", "gone"}
Kinds == {"token", "finished", "failed", "cancelled"}
Counts == 0 .. MaxTokens + 1
EventsOf(r) == [id : {r}, kind : Kinds, n : Counts]
Events == [id : Requests, kind : Kinds, n : Counts]
Payloads == [kind : Kinds, n : Counts]
Workers == [pc : Places, then : {"top", "stage", "abort", "reject", "drop"},
            batch : SUBSET Events, slow : SUBSET Requests,
            received : BOOLEAN, failed : BOOLEAN, staging : BOOLEAN]

EngineTypes ==
    /\ queue \in Seq(Requests \cup {Wake})
    /\ flag \in [Requests -> Flags] /\ client \in [Requests -> Clients]
    /\ stream \in [Requests -> Seq(Payloads)]
    /\ requests \subseteq Requests /\ work \subseteq Requests
    /\ produced \in [Requests -> 0 .. MaxTokens]
    /\ outbox \subseteq Events /\ worker \in Workers /\ faults \in Nat

\* A command is queued once, by a submitter that is past that, and the waiting commands
\* are counted.
Counted ==
    /\ \A i, j \in DOMAIN queue : queue[i] = queue[j] => i = j \/ queue[i] = Wake
    /\ \A r \in Requests : Queued(r) => client[r] \notin Early
    /\ WaitingExact

\* Events are published or staged before the worker goes on, staged events delivered
\* before it stops.
Placed ==
    /\ worker.batch # {} => \/ worker.pc \in {"publish", "stage"}
                            \/ worker.pc = "flush" /\ worker.then = "stage"
    /\ outbox # {} => /\ worker.staging
                      /\ worker.pc \in {"top", "cancel", "recheck", "command", "idle", "step", "flush"}
    /\ worker.pc = "stage" \/ worker.then = "stage" => worker.staging
    /\ worker.pc = "publish" => worker.then \in {"top", "drop"}
    /\ worker.pc # "publish" => worker.then # "drop"

\* The worker stops with nothing left, unless something failed.
StopsClean ==
    /\ worker.then = "drop" => work = {}
    /\ worker.pc \in {"drop", "exit", "store"} /\ ~worker.failed => work = {}
    /\ worker.pc \in {"exit", "store"} => requests = {}
    /\ lifecycle = "stopped" =>
         worker.pc \in {"return", "gone"} /\ work = {} /\ requests = {} /\ outbox = {}
    /\ worker.pc = "gone" => ~receiver /\ queue = <<>>
    /\ caller = "ok" => lifecycle = "stopped" /\ worker.pc = "gone"

Closing == worker.then = "drop" \/ worker.pc = "drop"

Ended(s) == s # <<>> /\ s[Len(s)].kind # "token"
TokensIn(S) == {e.n : e \in {f \in S : ~IsTerminal(f)}}

\* What relates the pieces of state of one request: its stream s, its flag fl, whether the
\* worker's map knows it and the backend runs it, the n tokens it has produced, its staged
\* events O and its events B of the last step.
\* Every sent token is the next; what is pending follows what was sent, without a gap,
\* as long as the flag is live; a terminal event is the only one and the last.
Consistent(s, fl, known, runs, n, O, B, closing) ==
    /\ Ended(s) => ~known /\ fl # "live" /\ \A e \in O : ~IsTerminal(e)
    /\ known => fl # "terminal"
    /\ known => runs \/ \E e \in B : IsTerminal(e)
    /\ runs /\ ~known => fl # "live"
    /\ \A e \in B : IsTerminal(e) => ~runs
    /\ \A e \in O : IsTerminal(e) => ~known
    /\ fl = "live" /\ ~known /\ O # {} => \E e \in O : IsTerminal(e)
    /\ \A e, f \in O : IsTerminal(e) /\ IsTerminal(f) => e = f
    /\ \A e, f \in B : IsTerminal(e) /\ IsTerminal(f) => e = f
    /\ \A e \in O, f \in B : ~IsTerminal(e) /\ ~IsTerminal(f) => e.n < f.n
    /\ fl = "live" /\ (known \/ O # {}) =>
         \E p \in Counts : /\ Len(s) <= p /\ TokensIn(O \cup B) = Len(s) + 1 .. p
                           /\ ~closing => p = n
    /\ ~closing => /\ known => Len(s) <= n
                   /\ \A e \in O \cup B : ~IsTerminal(e) => e.n <= n
    /\ \A e \in O : e.kind = "finished" =>
         Len(s) <= e.n /\ \A f \in O : ~IsTerminal(f) => f.n <= e.n
    /\ \A e \in B : e.kind = "finished" /\ known =>
         Len(s) <= e.n /\ \A f \in O \cup B : ~IsTerminal(f) => f.n <= e.n

Staged(r) == {e \in outbox : e.id = r}
Made(r) == {e \in worker.batch : e.id = r}

Tracked ==
    \A r \in Requests : Consistent(stream[r], flag[r], r \in requests, r \in work, produced[r],
                                   Staged(r), Made(r), Closing)

\* Nothing has happened to a request whose command the worker has not taken.
Fresh ==
    \A r \in Requests : client[r] \in Early \/ Queued(r) =>
        /\ produced[r] = 0 /\ stream[r] = <<>>
        /\ r \notin requests /\ r \notin work /\ Staged(r) = {} /\ Made(r) = {}

\* Unless a call failed, the backend works for nobody else, and the worker aborts nothing.
WorkKnown ==
    faults = 0 => /\ work \subseteq requests
                  /\ ~worker.failed /\ worker.pc # "abort" /\ worker.then # "abort"

IInv ==
    /\ EngineTypes
    /\ Counted
    /\ Placed
    /\ StopsClean
    /\ Tracked
    /\ Fresh
    /\ WorkKnown

-----------------------------------------------------------------------------
(* What can happen to one request. *)

\* A request of the right types.
Typed(r, s, n, O, B) ==
    /\ s \in Seq(Payloads) /\ n \in 0 .. MaxTokens
    /\ O \subseteq EventsOf(r) /\ B \subseteq EventsOf(r)

\* Nothing has happened yet; also when the command was refused.
LEMMA ConsistentAtFirst ==
    ASSUME NEW fl, NEW closing \in BOOLEAN
    PROVE  /\ Consistent(<<>>, fl, FALSE, FALSE, 0, {}, {}, closing)
           /\ Consistent(<<>>, "live", TRUE, TRUE, 0, {}, {}, closing)
<1>1. Len(<<>>) = 0 /\ 0 \in Counts /\ 1 .. 0 = {} /\ ~Ended(<<>>)
  BY EmptySeq, ConfigAssumption DEF Counts, Ended
<1>2. TokensIn({} \cup {}) = Len(<<>>) + 1 .. 0
  BY <1>1 DEF TokensIn
<1> QED BY <1>1, <1>2 DEF Consistent

\* Events are left out of a request that is being cancelled, or not known any more.
LEMMA ConsistentDropped ==
    ASSUME NEW s, NEW fl, NEW known \in BOOLEAN, NEW runs \in BOOLEAN, NEW n, NEW O, NEW B,
           NEW closing \in BOOLEAN, Consistent(s, fl, known, runs, n, O, B, closing),
           NEW fl2, NEW O2 \in SUBSET O, NEW B2 \in SUBSET B,
           known => \A e \in B \ B2 : ~IsTerminal(e),
           known => fl2 # "terminal",
           fl2 # "live" \/ (fl2 = fl /\ ~known /\ O2 = {})
    PROVE  Consistent(s, fl2, known, runs, n, O2, B2, closing)
<1>1. known => runs \/ \E e \in B2 : IsTerminal(e)
  BY DEF Consistent
<1>2. Ended(s) => ~known /\ fl2 # "live" /\ \A e \in O2 : ~IsTerminal(e)
  BY DEF Consistent
<1>3. /\ runs /\ ~known => fl2 # "live"
      /\ \A e \in B2 : IsTerminal(e) => ~runs
      /\ \A e \in O2 : IsTerminal(e) => ~known
  BY DEF Consistent
<1>4. /\ \A e, f \in O2 : IsTerminal(e) /\ IsTerminal(f) => e = f
      /\ \A e, f \in B2 : IsTerminal(e) /\ IsTerminal(f) => e = f
      /\ \A e \in O2, f \in B2 : ~IsTerminal(e) /\ ~IsTerminal(f) => e.n < f.n
  BY DEF Consistent
<1>5. ~closing => /\ known => Len(s) <= n
                  /\ \A e \in O2 \cup B2 : ~IsTerminal(e) => e.n <= n
  BY DEF Consistent
<1>6. \A e \in O2 : e.kind = "finished" =>
         Len(s) <= e.n /\ \A f \in O2 : ~IsTerminal(f) => f.n <= e.n
  BY DEF Consistent
<1>7. \A e \in B2 : e.kind = "finished" /\ known =>
         Len(s) <= e.n /\ \A f \in O2 \cup B2 : ~IsTerminal(f) => f.n <= e.n
  BY DEF Consistent
<1> QED BY <1>1, <1>2, <1>3, <1>4, <1>5, <1>6, <1>7 DEF Consistent

\* The worker ends a request that it knows, whether the terminal event fits or not.
LEMMA ConsistentEnded ==
    ASSUME NEW s, NEW fl, NEW runs \in BOOLEAN, NEW n, NEW O, NEW B,
           NEW closing \in BOOLEAN, Consistent(s, fl, TRUE, runs, n, O, B, closing),
           NEW t, NEW runs2 \in BOOLEAN, runs2 => runs
    PROVE  Consistent(t, "terminal", FALSE, runs2, n, O, B, closing)
<1>1. \A e \in O : ~IsTerminal(e) /\ e.kind # "finished"
  BY DEF Consistent, IsTerminal
<1> QED BY <1>1 DEF Consistent

\* The token e is the first of the staged events, or of the last step's if none is staged.
Takes(e, O, B, O2, B2) ==
    \/ /\ e \in O /\ O2 = O \ {e} /\ B2 = B
       /\ \A f \in O : f # e => IsTerminal(f) \/ e.n < f.n
    \/ /\ e \in B /\ O = {} /\ O2 = {} /\ B2 = B \ {e}
       /\ \A f \in B : f # e => IsTerminal(f) \/ e.n < f.n

\* The token e is the next.
LEMMA ConsistentSent ==
    ASSUME NEW r, NEW s, NEW known \in BOOLEAN, NEW runs \in BOOLEAN, NEW n, NEW O, NEW B,
           NEW closing \in BOOLEAN, Typed(r, s, n, O, B),
           Consistent(s, "live", known, runs, n, O, B, closing),
           NEW e, ~IsTerminal(e), NEW O2, NEW B2, known \/ O # {},
           Takes(e, O, B, O2, B2)
    PROVE  /\ e.n = Len(s) + 1 /\ Payload(e) = [kind |-> "token", n |-> Len(s) + 1]
           /\ ~Ended(s)
           /\ known \/ O2 # {}
           /\ Consistent(Append(s, Payload(e)), "live", known, runs, n, O2, B2, closing)
<1> USE DEF Takes
<1> DEFINE k == Len(s)
           t == Append(s, Payload(e))
<1>1. /\ MaxTokens \in Nat /\ k \in Nat /\ n \in Nat
      /\ \A f \in O \cup B : f \in EventsOf(r) /\ f.n \in Nat
      /\ e \in O \cup B /\ O2 \cup B2 = (O \cup B) \ {e}
  <2>1. MaxTokens \in Nat /\ k \in Nat /\ n \in Nat
    BY ConfigAssumption, LenProperties DEF Typed
  <2>2. \A f \in O \cup B : f \in EventsOf(r) /\ f.n \in Nat
    BY <2>1 DEF Typed, EventsOf, Counts
  <2>3. e \in O => e \notin B
    BY <2>2 DEF Consistent
  <2>4. e \in O \cup B /\ O2 \cup B2 = (O \cup B) \ {e}
    BY <2>3
  <2> QED BY <2>1, <2>2, <2>4
<1>2. PICK p \in Counts : /\ k <= p /\ TokensIn(O \cup B) = k + 1 .. p
                          /\ ~closing => p = n
  BY DEF Consistent
<1>3. \A f \in O \cup B : ~IsTerminal(f) /\ f # e => e.n < f.n
  BY DEF Consistent
<1>4. e.n = k + 1 /\ p \in Nat /\ k + 1 <= p
  <2>1. e.n \in k + 1 .. p
    BY <1>1, <1>2 DEF TokensIn
  <2>2. p \in Nat
    BY <1>1 DEF Counts
  <2>3. k + 1 \in k + 1 .. p
    BY <1>1, <2>1, <2>2
  <2>4. PICK f \in O \cup B : ~IsTerminal(f) /\ f.n = k + 1
    BY <1>2, <2>3 DEF TokensIn
  <2> QED BY <1>1, <1>3, <2>1, <2>2, <2>4
<1>5. e = [id |-> r, kind |-> "token", n |-> k + 1]
  BY <1>1, <1>4 DEF EventsOf, IsTerminal
<1>6. Payload(e) = [kind |-> "token", n |-> k + 1]
  BY <1>5 DEF Payload
<1>7. ~Ended(s)
  BY DEF Consistent
<1>8. /\ Len(t) = k + 1 /\ ~Ended(t)
  <2>1. PICK x : x = Payload(e)
    OBVIOUS
  <2>2. x \in Payloads /\ x.kind = "token"
    BY <1>1, <1>4, <1>6, <2>1 DEF Payloads, Kinds, Counts
  <2>3. Len(Append(s, x)) = k + 1 /\ Append(s, x)[k + 1] = x
    BY <2>2, AppendProperties DEF Typed
  <2> QED BY <2>1, <2>2, <2>3 DEF Ended
<1> HIDE DEF t, k
<1>9. TokensIn(O2 \cup B2) = k + 2 .. p
  <2>1. ASSUME NEW m \in TokensIn(O2 \cup B2) PROVE m \in k + 2 .. p
    <3>1. PICK f \in O2 \cup B2 : ~IsTerminal(f) /\ f.n = m
      BY <2>1 DEF TokensIn
    <3>2. f # e /\ f \in O \cup B /\ e.n < m
      BY <1>1, <1>3, <3>1
    <3>3. m \in k + 1 .. p
      BY <1>2, <3>1, <3>2 DEF TokensIn
    <3> QED BY <1>1, <1>4, <3>2, <3>3
  <2>2. ASSUME NEW m \in k + 2 .. p PROVE m \in TokensIn(O2 \cup B2)
    <3>1. m \in k + 1 .. p /\ m # k + 1
      BY <1>1, <1>4
    <3>2. PICK f \in O \cup B : ~IsTerminal(f) /\ f.n = m
      BY <1>2, <3>1 DEF TokensIn
    <3>3. f # e
      BY <1>4, <3>1, <3>2
    <3> QED BY <1>1, <3>2, <3>3 DEF TokensIn
  <2> QED BY <2>1, <2>2
<1>10. \E q \in Counts : /\ Len(t) <= q /\ TokensIn(O2 \cup B2) = Len(t) + 1 .. q
                         /\ ~closing => q = n
  <2>1. Len(t) + 1 = k + 2
    BY <1>1, <1>8
  <2> QED BY <1>2, <1>4, <1>8, <1>9, <2>1
<1>11. known \/ \E f \in O2 : IsTerminal(f)
  BY DEF Consistent
<1>12. /\ \A f \in O2 : f \in O
       /\ \A f \in B2 : f \in B
       /\ \A f \in B : IsTerminal(f) => f \in B2
  OBVIOUS
<1>13. /\ known => runs \/ \E f \in B2 : IsTerminal(f)
       /\ ~(runs /\ ~known)
       /\ \A f \in B2 : IsTerminal(f) => ~runs
       /\ \A f \in O2 : IsTerminal(f) => ~known
  BY <1>12 DEF Consistent
<1>14. /\ \A f, g \in O2 : IsTerminal(f) /\ IsTerminal(g) => f = g
       /\ \A f, g \in B2 : IsTerminal(f) /\ IsTerminal(g) => f = g
       /\ \A f \in O2, g \in B2 : ~IsTerminal(f) /\ ~IsTerminal(g) => f.n < g.n
  BY <1>12 DEF Consistent
<1>15. ~closing => /\ known => Len(t) <= n
                   /\ \A f \in O2 \cup B2 : ~IsTerminal(f) => f.n <= n
  <2>1. ~closing => \A f \in O \cup B : ~IsTerminal(f) => f.n <= n
    BY DEF Consistent
  <2> QED BY <1>1, <1>4, <1>8, <2>1
<1>16. \A f \in O2 : f.kind = "finished" =>
         Len(t) <= f.n /\ \A g \in O2 : ~IsTerminal(g) => g.n <= f.n
  <2> SUFFICES ASSUME NEW f \in O2, f.kind = "finished"
               PROVE  Len(t) <= f.n /\ \A g \in O2 : ~IsTerminal(g) => g.n <= f.n
    OBVIOUS
  <2>1. e \in O
    BY <1>12
  <2>2. \A g \in O : ~IsTerminal(g) => g.n <= f.n
    BY <1>12 DEF Consistent
  <2> QED BY <1>4, <1>8, <1>12, <2>1, <2>2
<1>17. \A f \in B2 : f.kind = "finished" /\ known =>
         Len(t) <= f.n /\ \A g \in O2 \cup B2 : ~IsTerminal(g) => g.n <= f.n
  <2> SUFFICES ASSUME NEW f \in B2, f.kind = "finished", known
               PROVE  Len(t) <= f.n /\ \A g \in O2 \cup B2 : ~IsTerminal(g) => g.n <= f.n
    OBVIOUS
  <2>1. \A g \in O \cup B : ~IsTerminal(g) => g.n <= f.n
    BY <1>12 DEF Consistent
  <2> QED BY <1>1, <1>4, <1>8, <1>12, <2>1
<1>18. Consistent(t, "live", known, runs, n, O2, B2, closing)
  BY <1>8, <1>10, <1>11, <1>13, <1>14, <1>15, <1>16, <1>17 DEF Consistent
<1> QED BY <1>4, <1>6, <1>7, <1>11, <1>18 DEF t, k

\* A staged terminal event is delivered, whether it fits or not.
LEMMA ConsistentDelivered ==
    ASSUME NEW s, NEW fl, NEW known \in BOOLEAN, NEW runs \in BOOLEAN, NEW n, NEW O, NEW B,
           NEW closing \in BOOLEAN, Consistent(s, fl, known, runs, n, O, B, closing),
           NEW e \in O, IsTerminal(e), NEW t
    PROVE  /\ ~Ended(s) /\ (e.kind = "finished" => Len(s) <= e.n)
           /\ Consistent(t, "terminal", known, runs, n, O \ {e}, B, closing)
<1>1. ~known /\ ~Ended(s) /\ (e.kind = "finished" => Len(s) <= e.n)
  BY DEF Consistent
<1>2. \A f \in O \ {e} : ~IsTerminal(f) /\ f.kind # "finished"
  BY DEF Consistent, IsTerminal
<1>3. Consistent(t, "terminal", FALSE, runs, n, O \ {e}, B, closing)
  BY <1>1, <1>2 DEF Consistent
<1> QED BY <1>1, <1>3

\* B are the events of a step that takes a request from n to m tokens; end is the terminal
\* one, if the request does not run any more.
StepMakes(B, n, m, runs, end) ==
    /\ \A f \in B : ~IsTerminal(f) => f.n \in n + 1 .. m
    /\ \A i \in n + 1 .. m : \E f \in B : ~IsTerminal(f) /\ f.n = i
    /\ \A f \in B : IsTerminal(f) => ~runs /\ f = end
    /\ ~runs => end \in B /\ IsTerminal(end) /\ end.n = m

\* A step takes a request to m tokens and may end it.
LEMMA ConsistentStepped ==
    ASSUME NEW r, NEW s, NEW fl, NEW known \in BOOLEAN, NEW n \in Nat, NEW O, Typed(r, s, n, O, {}),
           Consistent(s, fl, known, TRUE, n, O, {}, FALSE),
           NEW m \in Nat, n <= m, m <= MaxTokens, NEW B, NEW runs2 \in BOOLEAN, NEW end,
           StepMakes(B, n, m, runs2, end)
    PROVE  Consistent(s, fl, known, runs2, m, O, B, FALSE)
<1>1. /\ MaxTokens \in Nat /\ n \in Nat /\ m \in Nat /\ n <= m /\ m \in Counts
      /\ Len(s) \in Nat
      /\ \A f \in O : f.n \in Nat
  <2>1. MaxTokens \in Nat /\ n \in Nat /\ Len(s) \in Nat
    BY ConfigAssumption, LenProperties DEF Typed
  <2>2. \A f \in O : f.n \in Nat
    BY <2>1 DEF Typed, EventsOf, Counts
  <2> QED BY <2>1, <2>2 DEF Counts
<1>2. /\ \A f \in B : ~IsTerminal(f) => f.n \in n + 1 .. m
      /\ \A i \in n + 1 .. m : \E f \in B : ~IsTerminal(f) /\ f.n = i
      /\ \A f \in B : IsTerminal(f) => ~runs2 /\ f = end
      /\ ~runs2 => end \in B /\ IsTerminal(end) /\ end.n = m
  BY DEF StepMakes
<1>3. \A f \in O : ~IsTerminal(f) => f.n <= n
  BY DEF Consistent
<1>4. ASSUME fl = "live", known \/ O # {}
      PROVE  \E p \in Counts : /\ Len(s) <= p /\ TokensIn(O \cup B) = Len(s) + 1 .. p
                               /\ p = m
  <2>1. /\ Len(s) <= n /\ TokensIn(O \cup {}) = Len(s) + 1 .. n
    BY <1>4 DEF Consistent
  <2>2. ASSUME NEW i \in TokensIn(O \cup B) PROVE i \in Len(s) + 1 .. m
    <3>1. PICK f \in O \cup B : ~IsTerminal(f) /\ f.n = i
      BY <2>2 DEF TokensIn
    <3>2. CASE f \in O
      <4>1. i \in Len(s) + 1 .. n
        BY <2>1, <3>1, <3>2 DEF TokensIn
      <4> QED BY <1>1, <4>1
    <3>3. CASE f \in B
      BY <1>1, <1>2, <2>1, <3>1, <3>3
    <3> QED BY <3>2, <3>3
  <2>3. ASSUME NEW i \in Len(s) + 1 .. m PROVE i \in TokensIn(O \cup B)
    <3>1. CASE i <= n
      <4>1. i \in TokensIn(O \cup {})
        BY <1>1, <2>1, <3>1
      <4> QED BY <4>1 DEF TokensIn
    <3>2. CASE i > n
      <4>1. i \in n + 1 .. m
        BY <1>1, <3>2
      <4> QED BY <1>2, <4>1 DEF TokensIn
    <3> QED BY <1>1, <3>1, <3>2
  <2>4. TokensIn(O \cup B) = Len(s) + 1 .. m
    BY <2>2, <2>3
  <2>5. Len(s) <= m
    BY <1>1, <2>1
  <2> QED BY <1>1, <2>4, <2>5
<1>5. /\ known => Len(s) <= m
      /\ \A f \in O \cup B : ~IsTerminal(f) => f.n <= m
  <2>1. known => Len(s) <= n
    BY DEF Consistent
  <2>2. known => Len(s) <= m
    BY <1>1, <2>1
  <2>3. ASSUME NEW f \in O, ~IsTerminal(f) PROVE f.n <= m
    <3>1. f.n \in Nat /\ f.n <= n
      BY <1>1, <1>3, <2>3
    <3> QED BY <1>1, <3>1
  <2>4. ASSUME NEW f \in B, ~IsTerminal(f) PROVE f.n <= m
    <3>1. f.n \in n + 1 .. m
      BY <1>2, <2>4
    <3> QED BY <1>1, <3>1
  <2> QED BY <2>2, <2>3, <2>4
<1>6. ASSUME NEW f \in O, NEW g \in B, ~IsTerminal(f), ~IsTerminal(g) PROVE f.n < g.n
  <2>1. f.n \in Nat /\ f.n <= n /\ g.n \in n + 1 .. m
    BY <1>1, <1>2, <1>3, <1>6
  <2> QED BY <1>1, <2>1
<1>7. \A f \in B : f.kind = "finished" /\ known =>
         Len(s) <= f.n /\ \A g \in O \cup B : ~IsTerminal(g) => g.n <= f.n
  BY <1>2, <1>5 DEF IsTerminal
<1>8. /\ known => runs2 \/ \E f \in B : IsTerminal(f)
      /\ \A f \in B : IsTerminal(f) => ~runs2
      /\ \A f, g \in B : IsTerminal(f) /\ IsTerminal(g) => f = g
  BY <1>2
<1>9. /\ Ended(s) => ~known /\ fl # "live" /\ \A f \in O : ~IsTerminal(f)
      /\ known => fl # "terminal"
      /\ runs2 /\ ~known => fl # "live"
      /\ \A f \in O : IsTerminal(f) => ~known
      /\ fl = "live" /\ ~known /\ O # {} => \E f \in O : IsTerminal(f)
      /\ \A f, g \in O : IsTerminal(f) /\ IsTerminal(g) => f = g
      /\ \A f \in O : f.kind = "finished" =>
           Len(s) <= f.n /\ \A g \in O : ~IsTerminal(g) => g.n <= f.n
  BY DEF Consistent
<1> HIDE DEF TokensIn
<1> QED BY <1>4, <1>5, <1>6, <1>7, <1>8, <1>9 DEF Consistent

\* The events of the last step are staged, and the request leaves the map with its
\* terminal event.
LEMMA ConsistentStaged ==
    ASSUME NEW s, NEW fl, NEW known \in BOOLEAN, NEW runs \in BOOLEAN, NEW n, NEW B,
           Consistent(s, fl, known, runs, n, {}, B, FALSE),
           NEW known2 \in BOOLEAN, known2 <=> known /\ \A e \in B : ~IsTerminal(e), NEW O,
           O = IF known THEN B ELSE {}
    PROVE  Consistent(s, fl, known2, runs, n, O, {}, FALSE)
<1>1. CASE known
  <2>1. O = B /\ O \cup {} = {} \cup B
    BY <1>1
  <2>2. \A e \in B : e.kind = "finished" =>
           Len(s) <= e.n /\ \A f \in B : ~IsTerminal(f) => f.n <= e.n
    BY <1>1 DEF Consistent
  <2>3. fl = "live" => \E p \in Counts : /\ Len(s) <= p /\ TokensIn(O \cup {}) = Len(s) + 1 .. p
                                         /\ p = n
    BY <1>1, <2>1 DEF Consistent
  <2>4. Len(s) <= n /\ \A e \in B : ~IsTerminal(e) => e.n <= n
    BY <1>1 DEF Consistent
  <2> QED BY <1>1, <2>1, <2>2, <2>3, <2>4 DEF Consistent
<1>2. CASE ~known
  BY <1>2 DEF Consistent
<1> QED BY <1>1, <1>2

\* B are the events of a shutdown that finds a request with n tokens.
CloseMakes(B, r, n, runs, tail) ==
    \A f : f \in B <=> /\ runs
                      /\ \/ f = Event(r, "cancelled", n)
                         \/ tail /\ f = Event(r, "token", n + 1)

\* backend.shutdown cancels a request, and may flush a text that is no token.
LEMMA ConsistentClosed ==
    ASSUME NEW r, NEW s, NEW fl, NEW known \in BOOLEAN, NEW runs \in BOOLEAN, NEW n,
           Typed(r, s, n, {}, {}), Consistent(s, fl, known, runs, n, {}, {}, FALSE),
           NEW B, NEW tail \in BOOLEAN, CloseMakes(B, r, n, runs, tail)
    PROVE  Consistent(s, fl, known, FALSE, n, {}, B, TRUE)
<1>1. /\ MaxTokens \in Nat /\ n \in Nat /\ n \in Counts /\ n + 1 \in Counts /\ Len(s) \in Nat
  BY ConfigAssumption, LenProperties DEF Typed, Counts
<1>2. PICK c, x : c = Event(r, "cancelled", n) /\ x = Event(r, "token", n + 1)
  OBVIOUS
<1>3. /\ IsTerminal(c) /\ c.kind # "finished"
      /\ ~IsTerminal(x) /\ x.n = n + 1 /\ x.kind = "token"
  BY <1>2 DEF Event, IsTerminal
<1>4. /\ \A e \in B : IsTerminal(e) => e = c
      /\ \A e \in B : e.kind # "finished" /\ (~IsTerminal(e) => e.n = n + 1)
      /\ runs => c \in B
  BY <1>2, <1>3 DEF CloseMakes
<1>5. ASSUME fl = "live", known
      PROVE  \E p \in Counts : /\ Len(s) <= p /\ TokensIn({} \cup B) = Len(s) + 1 .. p
  <2>1. /\ Len(s) <= n /\ TokensIn({} \cup {}) = Len(s) + 1 .. n
    BY <1>5 DEF Consistent
  <2>2. Len(s) = n
    <3>1. Len(s) + 1 .. n = {}
      BY <2>1 DEF TokensIn
    <3>2. Len(s) < n => n \in Len(s) + 1 .. n
      BY <1>1
    <3> QED BY <1>1, <2>1, <3>1, <3>2
  <2>3. runs
    BY <1>5 DEF Consistent
  <2>4. CASE tail
    <3>1. TokensIn({} \cup B) = {n + 1}
      <4>1. x \in B /\ \A e \in B : ~IsTerminal(e) => e = x
        BY <1>2, <1>3, <2>3, <2>4 DEF CloseMakes
      <4> QED BY <1>3, <4>1 DEF TokensIn
    <3>2. n + 1 .. n + 1 = {n + 1}
      BY <1>1
    <3>3. Len(s) <= n + 1 /\ Len(s) + 1 .. n + 1 = {n + 1}
      BY <1>1, <2>2, <3>2
    <3> QED BY <1>1, <3>1, <3>3
  <2>5. CASE ~tail
    <3>1. TokensIn({} \cup B) = {}
      <4>1. \A e \in B : IsTerminal(e)
        BY <1>2, <1>3, <2>3, <2>5 DEF CloseMakes
      <4> QED BY <4>1 DEF TokensIn
    <3>2. n + 1 .. n = {}
      BY <1>1
    <3>3. Len(s) <= n /\ Len(s) + 1 .. n = {}
      BY <1>1, <2>2, <3>2
    <3> QED BY <1>1, <3>1, <3>3
  <2> QED BY <2>4, <2>5
<1>6. known => runs
  BY DEF Consistent
<1>7. /\ Ended(s) => ~known /\ fl # "live"
      /\ known => fl # "terminal"
  BY DEF Consistent
<1>8. known => \E e \in B : IsTerminal(e)
  BY <1>3, <1>4, <1>6
<1>9. PICK b : b = B
  OBVIOUS
<1>10. Consistent(s, fl, known, FALSE, n, {}, b, TRUE)
  BY <1>4, <1>5, <1>7, <1>8, <1>9 DEF Consistent
<1> QED BY <1>9, <1>10

\* What the worker does when it has stopped.
LEMMA ConsistentStops ==
    ASSUME NEW s, NEW fl, NEW known \in BOOLEAN, NEW runs \in BOOLEAN, NEW n, NEW O, NEW B
    PROVE  /\ Consistent(s, fl, known, runs, n, O, B, FALSE) => Consistent(s, fl, known, runs, n, O, B, TRUE)
           /\ Consistent(s, fl, FALSE, runs, n, {}, {}, TRUE) => Consistent(s, fl, FALSE, runs, n, {}, {}, FALSE)
  BY DEF Consistent

-----------------------------------------------------------------------------
(* Steps that leave most of the state alone. *)

\* The worker goes somewhere else.
LEMMA GotoIs ==
    ASSUME worker \in Workers, NEW place \in Places, WorkerGoto(place)
    PROVE  /\ worker' \in Workers /\ worker'.pc = place /\ worker'.then = worker.then
           /\ worker'.batch = worker.batch /\ worker'.slow = worker.slow
           /\ worker'.failed = worker.failed /\ worker'.staging = worker.staging
  BY DEF WorkerGoto, Workers

\* The worker delivers what is staged before it goes there.
LEMMA FlushFirstIs ==
    ASSUME worker \in Workers, NEW place \in {"abort", "reject"}, FlushFirst(place)
    PROVE  /\ worker' \in Workers
           /\ worker'.pc = IF worker.staging THEN "flush" ELSE place
           /\ worker'.then = IF worker.staging THEN place ELSE worker.then
           /\ worker'.batch = worker.batch /\ worker'.slow = worker.slow
           /\ worker'.failed = worker.failed /\ worker'.staging = worker.staging
<1>1. CASE worker.staging
  BY ZenonT(60), <1>1 DEF FlushFirst, Flush, Workers, Places
<1>2. CASE ~worker.staging
  <2>1. WorkerGoto(place) /\ place \in Places
    BY <1>2 DEF FlushFirst, Places
  <2> QED BY <1>2, <2>1, GotoIs
<1> QED BY <1>1, <1>2

\* Events stay what they were, and the worker is not less far.
LEMMA TrackedKept ==
    ASSUME IInv, UNCHANGED <<stream, requests, work, produced, outbox>>, worker'.batch = worker.batch,
           Closing => Closing', \A r \in Requests : flag'[r] = flag[r] \/ flag'[r] = "cancelled"
    PROVE  Tracked'
<1> SUFFICES ASSUME NEW r \in Requests
             PROVE  Consistent(stream[r], flag'[r], r \in requests, r \in work, produced[r],
                               Staged(r), Made(r), Closing')
  BY DEF Tracked, Staged, Made
<1> DEFINE known == r \in requests
           runs == r \in work
           O == Staged(r)
           B == Made(r)
           fl == flag'[r]
<1>1. Consistent(stream[r], flag[r], known, runs, produced[r], O, B, Closing)
  BY DEF IInv, Tracked
<1>2. known \in BOOLEAN /\ runs \in BOOLEAN /\ Closing \in BOOLEAN /\ Closing' \in BOOLEAN
  BY DEF Closing
<1>3. flag'[r] = flag[r] \/ flag'[r] = "cancelled"
  OBVIOUS
<1> HIDE DEF known, runs, O, B, fl
<1>4. Consistent(stream[r], fl, known, runs, produced[r], O, B, Closing)
  <2>1. CASE flag'[r] = flag[r]
    BY <1>1, <2>1 DEF fl
  <2>2. CASE flag'[r] = "cancelled"
    <3>1. O \in SUBSET O /\ B \in SUBSET B /\ fl = "cancelled"
      BY <2>2 DEF fl
    <3> QED BY <1>1, <1>2, <3>1, ConsistentDropped
  <2> QED BY <1>3, <2>1, <2>2
<1>5. Consistent(stream[r], fl, known, runs, produced[r], O, B, Closing')
  <2>1. CASE Closing' = Closing
    BY <1>4, <2>1
  <2>2. CASE Closing = FALSE /\ Closing' = TRUE
    BY <1>2, <1>4, <2>2, ConsistentStops
  <2> QED BY <1>2, <2>1, <2>2
<1> QED BY <1>5 DEF known, runs, O, B, fl

\* No request becomes fresh again.
LEMMA FreshKept ==
    ASSUME IInv, UNCHANGED <<stream, requests, work, produced, outbox>>, worker'.batch = worker.batch,
           \A r \in Requests : client'[r] \in Early \/ Queued(r)' => client[r] \in Early \/ Queued(r)
    PROVE  Fresh'
  BY DEF IInv, Fresh, Staged, Made

\* Nothing about the commands changes.
LEMMA CountedKept ==
    ASSUME IInv, UNCHANGED <<queue, client, waiting>>,
           worker'.pc \notin {"store", "return", "gone"} => worker.pc \notin {"store", "return", "gone"}
    PROVE  Counted'
  BY DEF IInv, Counted, WaitingExact, Queued

\* Only the worker moves.
LEMMA MoveInv ==
    ASSUME IInv, UNCHANGED <<stream, flag, requests, work, produced, outbox, queue, client, waiting>>,
           worker' \in Workers, worker'.batch = worker.batch, Closing => Closing',
           worker'.pc \notin {"store", "return", "gone"} => worker.pc \notin {"store", "return", "gone"},
           faults' \in Nat, faults' = 0 => faults = 0, Placed', StopsClean',
           faults' = 0 => ~worker'.failed /\ worker'.pc # "abort" /\ worker'.then # "abort"
    PROVE  IInv'
<1>1. EngineTypes'
  BY DEF IInv, EngineTypes
<1>2. Counted' /\ Fresh'
  <2>1. \A r \in Requests : Queued(r)' <=> Queued(r)
    BY DEF Queued
  <2> QED BY <2>1, CountedKept, FreshKept
<1>3. Tracked' /\ WorkKnown'
  BY TrackedKept DEF IInv, WorkKnown
<1> QED BY <1>1, <1>2, <1>3 DEF IInv

-----------------------------------------------------------------------------
(* The worker moves. *)

\* What the worker looks like.
LEMMA WorkerIs ==
    ASSUME IInv
    PROVE  /\ worker \in Workers /\ worker.pc \in Places /\ worker.batch \subseteq Events
           /\ worker.staging \in BOOLEAN /\ worker.failed \in BOOLEAN
           /\ faults \in Nat /\ MaxTokens \in Nat
  BY ConfigAssumption DEF IInv, EngineTypes, Workers

\* The backend is built, or not.
LEMMA WorkerStartInv ==
    ASSUME IInv, WorkerStart PROVE IInv'
<1>1. /\ worker.pc = "starting" /\ worker \in Workers /\ faults \in Nat
      /\ UNCHANGED <<clientVars, queue, receiver, waiting, flag, stream, read, admitted,
                     requests, work, produced, outbox>>
  BY WorkerIs DEF WorkerStart, WorkerAt
<1>2. \/ lifecycle' = "ready" /\ WorkerGoto("top") /\ faults' = faults
      \/ lifecycle' = "failed" /\ WorkerGoto("return") /\ faults' = faults + 1
  BY DEF WorkerStart, Fault
<1>3. PICK place \in {"top", "return"} : WorkerGoto(place)
  BY <1>2
<1>4. /\ worker' \in Workers /\ worker'.pc = place /\ worker'.then = worker.then
      /\ worker'.batch = worker.batch /\ worker'.failed = worker.failed /\ worker'.staging = worker.staging
  BY <1>1, <1>3, GotoIs DEF Places
<1>5. lifecycle' # "stopped" /\ faults' \in Nat /\ (faults' = 0 => faults = 0)
  BY <1>1, <1>2
<1>6. Placed' /\ StopsClean' /\ WorkKnown' /\ (Closing => Closing')
  BY <1>1, <1>4, <1>5 DEF IInv, Placed, StopsClean, WorkKnown, Closing, clientVars
<1> QED BY <1>1, <1>4, <1>5, <1>6, MoveInv DEF WorkKnown, clientVars

\* The top of the loop.
LEMMA TopInv ==
    ASSUME IInv, Top PROVE IInv'
<1>1. /\ worker.pc = "top" /\ worker \in Workers /\ faults \in Nat
      /\ UNCHANGED <<clientVars, sharedVars, requests, work, produced, outbox, faults>>
  BY WorkerIs DEF Top, WorkerAt
<1>2. CASE lifecycle = "draining"
  <2>1. /\ worker' \in Workers /\ worker'.pc = (IF worker.staging THEN "flush" ELSE "reject")
        /\ worker'.then = (IF worker.staging THEN "reject" ELSE worker.then)
        /\ worker'.batch = worker.batch /\ worker'.failed = worker.failed
        /\ worker'.staging = worker.staging
    BY <1>1, <1>2, FlushFirstIs DEF Top
  <2>2. Placed' /\ StopsClean' /\ WorkKnown' /\ (Closing => Closing')
    BY <1>1, <2>1 DEF IInv, Placed, StopsClean, WorkKnown, Closing, clientVars, sharedVars
  <2> QED BY <1>1, <2>1, <2>2, MoveInv DEF WorkKnown, clientVars, sharedVars
<1>3. CASE lifecycle # "draining"
  <2>1. /\ worker' \in Workers /\ worker'.pc = "cancel" /\ worker'.then = worker.then
        /\ worker'.batch = worker.batch /\ worker'.failed = worker.failed
        /\ worker'.staging = worker.staging
    BY ZenonT(60), <1>1, <1>3 DEF Top, Workers, Places
  <2>2. Placed' /\ StopsClean' /\ WorkKnown' /\ (Closing => Closing')
    BY <1>1, <2>1 DEF IInv, Placed, StopsClean, WorkKnown, Closing, clientVars, sharedVars
  <2> QED BY <1>1, <2>1, <2>2, MoveInv DEF WorkKnown, clientVars, sharedVars
<1> QED BY <1>2, <1>3

\* No command: the worker drains, steps or idles.
LEMMA NoCommandInv ==
    ASSUME IInv, NoCommand \/ IdleTimeout PROVE IInv'
<1>1. /\ worker.pc \in {"command", "idle"} /\ worker \in Workers /\ faults \in Nat
      /\ UNCHANGED <<clientVars, queue, receiver, waiting, flag, stream, read, admitted,
                     requests, work, produced, outbox, faults>>
      /\ lifecycle' \in {"draining", lifecycle}
  BY WorkerIs DEF NoCommand, IdleTimeout, WorkerAt
<1>2. \E place \in {"top", "step", "idle"} : WorkerGoto(place)
  BY DEF NoCommand, IdleTimeout
<1>3. PICK place \in {"top", "step", "idle"} : WorkerGoto(place)
  BY <1>2
<1>4. /\ worker' \in Workers /\ worker'.pc = place /\ worker'.then = worker.then
      /\ worker'.batch = worker.batch /\ worker'.failed = worker.failed /\ worker'.staging = worker.staging
  BY <1>1, <1>3, GotoIs DEF Places
<1>5. Placed' /\ StopsClean' /\ WorkKnown' /\ (Closing => Closing')
  BY <1>1, <1>4 DEF IInv, Placed, StopsClean, WorkKnown, Closing, clientVars
<1> QED BY <1>1, <1>4, <1>5, MoveInv DEF WorkKnown, clientVars

\* The backend fails a step.
LEMMA StepFailsInv ==
    ASSUME IInv, StepFails PROVE IInv'
<1>1. /\ worker.pc = "step" /\ worker \in Workers /\ faults \in Nat /\ faults' = faults + 1
      /\ UNCHANGED <<clientVars, sharedVars, requests, work, produced, outbox>>
  BY WorkerIs DEF StepFails, WorkerAt, Fault
<1>2. /\ worker' \in Workers /\ worker'.pc = (IF worker.staging THEN "flush" ELSE "abort")
      /\ worker'.then = (IF worker.staging THEN "abort" ELSE worker.then)
      /\ worker'.batch = worker.batch /\ worker'.failed = worker.failed
      /\ worker'.staging = worker.staging
  BY <1>1, FlushFirstIs DEF StepFails
<1>3. Placed' /\ StopsClean' /\ WorkKnown' /\ (Closing => Closing')
  BY <1>1, <1>2 DEF IInv, Placed, StopsClean, WorkKnown, Closing, clientVars, sharedVars
<1> QED BY <1>1, <1>2, <1>3, MoveInv DEF WorkKnown, clientVars, sharedVars

\* The backend fails to shut down.
LEMMA CloseFailsInv ==
    ASSUME IInv, CloseFails PROVE IInv'
<1>1. /\ worker.pc = "reject" /\ worker \in Workers /\ faults \in Nat /\ faults' = faults + 1
      /\ UNCHANGED <<clientVars, sharedVars, requests, work, produced, outbox>>
      /\ worker' = [worker EXCEPT !.pc = "drop", !.failed = TRUE]
  BY WorkerIs DEF CloseFails, WorkerAt, Fault
<1>2. /\ worker' \in Workers /\ worker'.pc = "drop" /\ worker'.then = worker.then
      /\ worker'.batch = worker.batch /\ worker'.failed = TRUE /\ worker'.staging = worker.staging
  BY <1>1 DEF Workers, Places
<1>3. Placed' /\ StopsClean' /\ WorkKnown' /\ (Closing => Closing')
  BY <1>1, <1>2 DEF IInv, Placed, StopsClean, WorkKnown, Closing, clientVars, sharedVars
<1> QED BY <1>1, <1>2, <1>3, MoveInv DEF WorkKnown, clientVars, sharedVars

\* The worker stores its last state.
LEMMA StoreInv ==
    ASSUME IInv, Store PROVE IInv'
<1>1. /\ worker.pc = "store" /\ worker \in Workers /\ faults \in Nat /\ WorkerGoto("return")
      /\ lifecycle' = (IF worker.failed THEN "failed" ELSE "stopped")
      /\ UNCHANGED <<clientVars, queue, receiver, waiting, flag, stream, read, admitted,
                     requests, work, produced, outbox, faults>>
  BY WorkerIs DEF Store, WorkerAt
<1>2. /\ worker' \in Workers /\ worker'.pc = "return" /\ worker'.then = worker.then
      /\ worker'.batch = worker.batch /\ worker'.failed = worker.failed /\ worker'.staging = worker.staging
  BY <1>1, GotoIs DEF Places
<1>3. Placed' /\ StopsClean' /\ WorkKnown' /\ (Closing => Closing')
  BY <1>1, <1>2 DEF IInv, Placed, StopsClean, WorkKnown, Closing, clientVars
<1> QED BY <1>1, <1>2, <1>3, MoveInv DEF WorkKnown, clientVars

\* The worker resets the counter, and the thread ends; neither counts any more.
LEMMA ExitReturnInv ==
    ASSUME IInv, Exit \/ Return PROVE IInv'
<1>1. /\ worker.pc \in {"exit", "return"} /\ worker \in Workers /\ faults \in Nat
      /\ UNCHANGED <<clientVars, lifecycle, flag, stream, read, admitted,
                     requests, work, produced, outbox, faults>>
      /\ queue' \in {queue, <<>>}
  BY WorkerIs DEF Exit, Return, WorkerAt
<1>2. \/ worker.pc = "exit" /\ WorkerGoto("store") /\ UNCHANGED <<queue, receiver>>
      \/ worker.pc = "return" /\ WorkerGoto("gone") /\ receiver' = FALSE /\ queue' = <<>>
  BY DEF Exit, Return, WorkerAt
<1>3. PICK place \in {"store", "gone"} : WorkerGoto(place)
  BY <1>2
<1>4. /\ worker' \in Workers /\ worker'.pc = place /\ worker'.then = worker.then
      /\ worker'.batch = worker.batch /\ worker'.failed = worker.failed /\ worker'.staging = worker.staging
  BY <1>1, <1>3, GotoIs DEF Places
<1>5. place = "store" <=> worker.pc = "exit"
  <2>1. CASE worker.pc = "exit"
    <3>1. WorkerGoto("store")
      BY <1>2, <2>1
    <3>2. worker'.pc = "store"
      BY <1>1, <3>1, GotoIs DEF Places
    <3> QED BY <1>4, <2>1, <3>2
  <2>2. CASE worker.pc = "return"
    <3>1. WorkerGoto("gone")
      BY <1>2, <2>2
    <3>2. worker'.pc = "gone"
      BY <1>1, <3>1, GotoIs DEF Places
    <3> QED BY <1>4, <2>2, <3>2
  <2> QED BY <1>1, <2>1, <2>2
<1>6. Placed' /\ StopsClean' /\ WorkKnown' /\ (Closing => Closing')
  BY <1>1, <1>2, <1>4, <1>5 DEF IInv, Placed, StopsClean, WorkKnown, Closing, clientVars
<1>7. EngineTypes'
  <2>1. queue' \in Seq(Requests \cup {Wake})
    BY <1>1, EmptySeq DEF IInv, EngineTypes
  <2> QED BY <1>1, <1>4, <2>1 DEF IInv, EngineTypes, clientVars
<1>8. Counted'
  <2>1. WaitingExact'
    BY <1>4 DEF WaitingExact
  <2> QED BY <1>1, <2>1 DEF IInv, Counted, Queued, clientVars
<1>9. Tracked'
  BY <1>1, <1>4, <1>6, TrackedKept
<1>10. Fresh'
  <2>1. \A r \in Requests : Queued(r)' => Queued(r)
    BY <1>1 DEF Queued
  <2> QED BY <1>1, <1>4, <2>1, FreshKept DEF clientVars
<1> QED BY <1>6, <1>7, <1>8, <1>9, <1>10 DEF IInv

-----------------------------------------------------------------------------
(* The commands that wait. *)

Undecided == {r \in Requests : client[r] \in {"counted", "undo"}}
InQueue == {r \in Requests : Queued(r)}

\* A counter that stays in its range does not wrap around.
LEMMA InRange ==
    ASSUME NEW n \in Nat, n < CounterRange
    PROVE  n % CounterRange = n
  BY ConfigAssumption

\* No more commands wait than there are requests, so the counter does not wrap around.
LEMMA CountsAre ==
    ASSUME IInv
    PROVE  /\ IsFiniteSet(Undecided) /\ IsFiniteSet(InQueue)
           /\ Cardinality(Undecided) \in Nat /\ Cardinality(InQueue) \in Nat
           /\ Cardinality(Undecided) + Cardinality(InQueue) < CounterRange
           /\ \A r \in Requests : r \notin Undecided /\ r \notin InQueue =>
                 Cardinality(Undecided) + Cardinality(InQueue) + 1 < CounterRange
<1> DEFINE all == Undecided \cup InQueue
           u == Cardinality(Undecided)
           q == Cardinality(InQueue)
<1>1. /\ IsFiniteSet(Requests) /\ Cardinality(Requests) < CounterRange
      /\ CounterRange \in Nat /\ Cardinality(Requests) \in Nat
  BY ConfigAssumption, FS_CardinalityType
<1>2. Undecided \in SUBSET Requests /\ InQueue \in SUBSET Requests
  BY DEF Undecided, InQueue
<1>3. Undecided \cap InQueue = {}
  BY DEF IInv, Counted, Undecided, InQueue, Early
<1>4. IsFiniteSet(Undecided) /\ IsFiniteSet(InQueue) /\ u \in Nat /\ q \in Nat
  BY <1>1, <1>2, FS_Subset, FS_CardinalityType
<1>5. IsFiniteSet(all) /\ Cardinality(all) = u + q
  <2>1. Cardinality(all) = u + q - Cardinality(Undecided \cap InQueue) /\ IsFiniteSet(all)
    BY <1>4, FS_Union
  <2>2. Cardinality(Undecided \cap InQueue) = 0
    BY <1>3, FS_EmptySet
  <2> QED BY <1>4, <2>1, <2>2
<1>6. Cardinality(all) <= Cardinality(Requests)
  BY <1>1, <1>2, FS_Subset
<1>7. ASSUME NEW r \in Requests, r \notin all
      PROVE  u + q + 1 < CounterRange
  <2>1. Cardinality(all \cup {r}) = u + q + 1
    BY <1>5, <1>7, FS_AddElement
  <2>2. all \cup {r} \in SUBSET Requests
    BY <1>2
  <2>3. Cardinality(all \cup {r}) <= Cardinality(Requests)
    BY <1>1, <2>2, FS_Subset
  <2> QED BY <1>1, <1>4, <2>1, <2>3
<1> HIDE DEF u, q
<1>8. u + q < CounterRange
  BY <1>1, <1>4, <1>5, <1>6
<1> QED BY <1>4, <1>7, <1>8 DEF u, q

\* Wake is put into the queue, or not; which requests are queued stays the same.
LEMMA WakeIs ==
    ASSUME IInv, SendWake
    PROVE  /\ queue' \in Seq(Requests \cup {Wake}) /\ (~receiver => queue' = queue)
           /\ \A r \in Requests : Queued(r)' <=> Queued(r)
           /\ \A i, j \in DOMAIN queue' : queue'[i] = queue'[j] => i = j \/ queue'[i] = Wake
<1>1. /\ queue \in Seq(Requests \cup {Wake}) /\ Wake \notin Requests
      /\ \A i, j \in DOMAIN queue : queue[i] = queue[j] => i = j \/ queue[i] = Wake
  BY ConfigAssumption DEF IInv, EngineTypes, Counted
<1>2. CASE queue' = queue
  BY <1>1, <1>2 DEF Queued
<1>3. CASE queue' = Append(queue, Wake) /\ receiver
  <2>1. /\ queue' \in Seq(Requests \cup {Wake}) /\ Len(queue') = Len(queue) + 1 /\ Len(queue) \in Nat
        /\ \A i \in 1 .. Len(queue) : queue'[i] = queue[i]
        /\ queue'[Len(queue) + 1] = Wake
    BY <1>1, <1>3, AppendProperties, LenProperties
  <2>2. DOMAIN queue' = 1 .. Len(queue) + 1 /\ DOMAIN queue = 1 .. Len(queue)
    BY <1>1, <2>1, LenProperties
  <2> QED BY <1>1, <1>3, <2>1, <2>2 DEF Queued
<1> QED BY <1>2, <1>3 DEF SendWake

\* The queue and what is undecided stay the same, so does the count.
LEMMA CountedSame ==
    ASSUME IInv, UNCHANGED <<waiting, worker>>,
           \A r \in Requests : Queued(r)' <=> Queued(r),
           \A i, j \in DOMAIN queue' : queue'[i] = queue'[j] => i = j \/ queue'[i] = Wake,
           \A r \in Requests : client'[r] \in {"counted", "undo"} <=> client[r] \in {"counted", "undo"},
           \A r \in Requests : client'[r] \in Early => client[r] \in Early
    PROVE  Counted'
<1>1. Undecided' = Undecided /\ InQueue' = InQueue
  BY DEF Undecided, InQueue
<1>2. WaitingExact' <=> WaitingExact
  BY <1>1 DEF WaitingExact, Undecided, InQueue
<1> QED BY <1>2 DEF IInv, Counted

\* A step of a client or of the owner.
LEMMA ClientInv ==
    ASSUME IInv, UNCHANGED <<workerVars, stream, receiver>>, Counted',
           queue' \in Seq(Requests \cup {Wake}), ~receiver => queue' = queue,
           client' \in [Requests -> Clients], flag' \in [Requests -> Flags],
           \A r \in Requests : flag'[r] = flag[r] \/ flag'[r] = "cancelled",
           \A r \in Requests : client'[r] \in Early \/ Queued(r)' => client[r] \in Early \/ Queued(r),
           lifecycle' = lifecycle \/ (lifecycle' # "stopped" /\ lifecycle # "stopped"),
           caller' = "ok" => caller = "ok" \/ (lifecycle = "stopped" /\ worker.pc = "gone")
    PROVE  IInv'
<1>1. EngineTypes'
  BY DEF IInv, EngineTypes, workerVars
<1>2. Placed' /\ WorkKnown'
  BY DEF IInv, Placed, WorkKnown, workerVars
<1>3. StopsClean'
  BY DEF IInv, StopsClean, workerVars
<1>4. Tracked' /\ Fresh'
  <2>1. UNCHANGED <<stream, requests, work, produced, outbox, worker>> /\ (Closing => Closing')
    BY DEF workerVars, Closing
  <2> QED BY <2>1, TrackedKept, FreshKept
<1> QED BY <1>1, <1>2, <1>3, <1>4 DEF IInv

-----------------------------------------------------------------------------
(* The threads of clients and owner. *)

\* A client that neither counts nor sends a command.
LEMMA ThreadInv ==
    ASSUME IInv, NEW r \in Requests, NEW there \in Clients,
           client' = [client EXCEPT ![r] = there],
           there \in {"counted", "undo"} <=> client[r] \in {"counted", "undo"},
           there \in Early => client[r] \in Early,
           UNCHANGED <<engine, caller, lifecycle, receiver, waiting, stream, workerVars>>,
           queue' = queue \/ SendWake,
           flag' \in [Requests -> Flags], \A q \in Requests : flag'[q] = flag[q] \/ flag'[q] = "cancelled"
    PROVE  IInv'
<1>1. client \in [Requests -> Clients] /\ queue \in Seq(Requests \cup {Wake})
  BY DEF IInv, EngineTypes
<1>2. /\ client' \in [Requests -> Clients] /\ client'[r] = there
      /\ \A q \in Requests : q # r => client'[q] = client[q]
  BY <1>1
<1>3. /\ queue' \in Seq(Requests \cup {Wake}) /\ (~receiver => queue' = queue)
      /\ \A q \in Requests : Queued(q)' <=> Queued(q)
      /\ \A i, j \in DOMAIN queue' : queue'[i] = queue'[j] => i = j \/ queue'[i] = Wake
  <2>1. CASE queue' = queue
    BY <1>1, <2>1 DEF Queued, IInv, Counted
  <2>2. CASE SendWake
    BY <2>2, WakeIs
  <2> QED BY <2>1, <2>2
<1>4. /\ \A q \in Requests : client'[q] \in {"counted", "undo"} <=> client[q] \in {"counted", "undo"}
      /\ \A q \in Requests : client'[q] \in Early => client[q] \in Early
  BY <1>2
<1>5. Counted'
  BY <1>3, <1>4, CountedSame DEF workerVars
<1> QED BY <1>2, <1>3, <1>4, <1>5, ClientInv

\* submit looks at the lifecycle, waits for its answer, and a consumer receives.
LEMMA WaitingInv ==
    ASSUME IInv, NEW r \in Requests,
           \/ SubmitCheck(r) \/ SubmitAnswered(r) \/ SubmitTimeout(r)
           \/ Recv(r) \/ RecvDisconnected(r)
    PROVE  IInv'
<1>1. flag \in [Requests -> Flags] /\ client \in [Requests -> Clients]
  BY DEF IInv, EngineTypes
<1>2. UNCHANGED <<engine, caller, lifecycle, receiver, waiting, stream, workerVars, queue, flag>>
  BY DEF SubmitCheck, SubmitAnswered, SubmitTimeout, Recv, RecvDisconnected, sharedVars
<1>3. CASE SubmitCheck(r)
  <2>1. client' = [client EXCEPT ![r] = "checked"] /\ client[r] = "idle"
    BY <1>3 DEF SubmitCheck, At, Goto
  <2>2. "checked" \in Clients /\ client[r] \in Early
    BY <2>1 DEF Clients, Early
  <2> QED BY <1>1, <1>2, <2>1, <2>2, ThreadInv
<1>4. CASE SubmitAnswered(r)
  <2>1. client[r] = "awaiting" /\ \E there \in {"streaming", "done"} : client' = [client EXCEPT ![r] = there]
    BY <1>4 DEF SubmitAnswered, At, Goto
  <2>2. PICK there \in {"streaming", "done"} : client' = [client EXCEPT ![r] = there]
    BY <2>1
  <2>3. there \in Clients /\ there \notin Early /\ client[r] \notin {"counted", "undo"}
        /\ there \notin {"counted", "undo"}
    BY <2>1 DEF Clients, Early
  <2> QED BY <1>1, <1>2, <2>2, <2>3, ThreadInv
<1>5. CASE SubmitTimeout(r)
  <2>1. client' = [client EXCEPT ![r] = "late"] /\ client[r] = "awaiting"
    BY <1>5 DEF SubmitTimeout, At, Goto
  <2>2. "late" \in Clients /\ "late" \notin Early
    BY DEF Clients, Early
  <2> QED BY <1>1, <1>2, <2>1, <2>2, ThreadInv
<1>6. CASE Recv(r) \/ RecvDisconnected(r)
  <2>1. client[r] = "streaming" /\ \E there \in {"streaming", "ended"} : client' = [client EXCEPT ![r] = there]
    <3>1. client[r] = "streaming" /\ (client' = client \/ client' = [client EXCEPT ![r] = "ended"])
      BY <1>6 DEF Recv, RecvDisconnected, At, Goto
    <3>2. client = [client EXCEPT ![r] = "streaming"]
      BY <1>1, <3>1
    <3> QED BY <3>1, <3>2
  <2>2. PICK there \in {"streaming", "ended"} : client' = [client EXCEPT ![r] = there]
    BY <2>1
  <2>3. there \in Clients /\ there \notin Early /\ client[r] \notin {"counted", "undo"}
        /\ there \notin {"counted", "undo"}
    BY <2>1 DEF Clients, Early
  <2> QED BY <1>1, <1>2, <2>2, <2>3, ThreadInv
<1> QED BY <1>3, <1>4, <1>5, <1>6

\* The flag is set, by the consumer or by a submitter that gives up.
LEMMA FlagInv ==
    ASSUME IInv, NEW r \in Requests, SubmitAbandon(r) \/ Cancel(r) \/ DropHandle(r)
    PROVE  IInv'
<1>1. flag \in [Requests -> Flags] /\ client \in [Requests -> Clients]
  BY DEF IInv, EngineTypes
<1>2. UNCHANGED <<engine, caller, lifecycle, receiver, waiting, stream, workerVars>> /\ SendWake
  BY DEF SubmitAbandon, Cancel, DropHandle, CancelFlag
<1>3. \E x \in {"cancelled", flag[r]} : flag' = [flag EXCEPT ![r] = x]
  BY DEF SubmitAbandon, Cancel, DropHandle, CancelFlag
<1>4. PICK x \in {"cancelled", flag[r]} : flag' = [flag EXCEPT ![r] = x]
  BY <1>3
<1>5. flag' \in [Requests -> Flags] /\ \A q \in Requests : flag'[q] = flag[q] \/ flag'[q] = "cancelled"
  BY <1>1, <1>4 DEF Flags
<1>6. client[r] \in {"late", "streaming", "ended"} /\ (client' = client \/ client' = [client EXCEPT ![r] = "done"])
  BY DEF SubmitAbandon, Cancel, DropHandle, At, Goto
<1>7. client = [client EXCEPT ![r] = client[r]]
  BY <1>1
<1>8. PICK there \in {"done", client[r]} : client' = [client EXCEPT ![r] = there]
  BY <1>6, <1>7
<1>9. there \in Clients /\ there \notin Early /\ client[r] \notin {"counted", "undo"}
      /\ there \notin {"counted", "undo"}
  BY <1>6, <1>8 DEF Clients, Early
<1> QED BY <1>2, <1>5, <1>8, <1>9, ThreadInv

\* A submitter counts its command.
LEMMA SubmitCountInv ==
    ASSUME IInv, NEW r \in Requests, SubmitCount(r) PROVE IInv'
<1>1. /\ client[r] = "checked" /\ client' = [client EXCEPT ![r] = "counted"]
      /\ waiting' = Incremented(waiting)
      /\ UNCHANGED <<engine, caller, lifecycle, queue, receiver, flag, stream, workerVars>>
  BY DEF SubmitCount, At, Goto
<1>2. /\ client \in [Requests -> Clients] /\ flag \in [Requests -> Flags]
      /\ queue \in Seq(Requests \cup {Wake})
  BY DEF IInv, EngineTypes
<1>3. /\ client' \in [Requests -> Clients] /\ client'[r] = "counted"
      /\ \A q \in Requests : q # r => client'[q] = client[q]
  BY <1>1, <1>2 DEF Clients, Early
<1>4. \A q \in Requests : (Queued(q)' <=> Queued(q)) /\ (client'[q] \in Early <=> client[q] \in Early)
  BY <1>1, <1>3 DEF Queued, Early
<1>5. r \notin Undecided /\ r \notin InQueue
  BY <1>1 DEF Undecided, InQueue, IInv, Counted, Early
<1>6. Undecided' = Undecided \cup {r} /\ InQueue' = InQueue
  BY <1>1, <1>3, <1>4 DEF Undecided, InQueue
<1>7. Cardinality(Undecided') = Cardinality(Undecided) + 1
  BY <1>5, <1>6, CountsAre, FS_AddElement
<1>8. WaitingExact'
  <2> SUFFICES ASSUME worker.pc \notin {"store", "return", "gone"}
               PROVE  waiting' = Cardinality(Undecided') + Cardinality(InQueue')
    BY <1>1 DEF WaitingExact, Undecided, InQueue, workerVars
  <2>1. waiting = Cardinality(Undecided) + Cardinality(InQueue)
    BY DEF IInv, Counted, WaitingExact, Undecided, InQueue
  <2>2. waiting + 1 \in Nat /\ waiting + 1 < CounterRange
    BY <1>5, <2>1, CountsAre
  <2>3. waiting' = waiting + 1
    BY <1>1, <2>2, InRange DEF Incremented
  <2> QED BY <1>6, <1>7, <2>1, <2>3, CountsAre
<1>9. Counted'
  BY <1>1, <1>4, <1>8 DEF IInv, Counted
<1> QED BY <1>1, <1>2, <1>3, <1>4, <1>9, ClientInv

\* A submitter takes its count back.
LEMMA SubmitUndoInv ==
    ASSUME IInv, NEW r \in Requests, SubmitUndo(r) PROVE IInv'
<1>1. /\ client[r] = "undo" /\ client' = [client EXCEPT ![r] = "done"]
      /\ waiting' = Decremented(waiting)
      /\ UNCHANGED <<engine, caller, lifecycle, queue, receiver, flag, stream, workerVars>>
  BY DEF SubmitUndo, At, Goto
<1>2. /\ client \in [Requests -> Clients] /\ flag \in [Requests -> Flags]
      /\ queue \in Seq(Requests \cup {Wake})
  BY DEF IInv, EngineTypes
<1>3. /\ client' \in [Requests -> Clients] /\ client'[r] = "done"
      /\ \A q \in Requests : q # r => client'[q] = client[q]
  BY <1>1, <1>2 DEF Clients, Early
<1>4. \A q \in Requests : (Queued(q)' <=> Queued(q)) /\ (client'[q] \in Early => client[q] \in Early)
  BY <1>1, <1>3 DEF Queued, Early
<1>5. r \in Undecided
  BY <1>1 DEF Undecided
<1>6. Undecided' = Undecided \ {r} /\ InQueue' = InQueue
  BY <1>1, <1>3, <1>4 DEF Undecided, InQueue
<1>7. Cardinality(Undecided') = Cardinality(Undecided) - 1
  BY <1>5, <1>6, CountsAre, FS_RemoveElement
<1>8. Cardinality(Undecided) # 0
  BY <1>5, CountsAre, FS_EmptySet
<1>9. WaitingExact'
  <2> SUFFICES ASSUME worker.pc \notin {"store", "return", "gone"}
               PROVE  waiting' = Cardinality(Undecided') + Cardinality(InQueue')
    BY <1>1 DEF WaitingExact, Undecided, InQueue, workerVars
  <2>1. waiting = Cardinality(Undecided) + Cardinality(InQueue)
    BY DEF IInv, Counted, WaitingExact, Undecided, InQueue
  <2>2. waiting - 1 \in Nat /\ waiting - 1 < CounterRange
    BY <1>8, <2>1, CountsAre, ConfigAssumption
  <2>3. waiting' = waiting - 1
    BY <1>1, <2>2, InRange DEF Decremented
  <2> QED BY <1>6, <1>7, <2>1, <2>3, CountsAre
<1>10. Counted'
  BY <1>1, <1>4, <1>9 DEF IInv, Counted
<1> QED BY <1>1, <1>2, <1>3, <1>4, <1>10, ClientInv

\* A submitter sends its command, if there is room.
LEMMA SubmitSendInv ==
    ASSUME IInv, NEW r \in Requests, SubmitSend(r) PROVE IInv'
<1>1. /\ client[r] = "counted"
      /\ UNCHANGED <<engine, caller, lifecycle, receiver, waiting, flag, stream, workerVars>>
  BY DEF SubmitSend, At
<1>2. /\ client \in [Requests -> Clients] /\ flag \in [Requests -> Flags]
      /\ queue \in Seq(Requests \cup {Wake}) /\ Wake \notin Requests
  BY ConfigAssumption DEF IInv, EngineTypes
<1>3. CASE ~(receiver /\ Len(queue) < QueueCapacity)
  <2>1. queue' = queue /\ client' = [client EXCEPT ![r] = "undo"]
    BY <1>3 DEF SubmitSend, Goto
  <2>2. "undo" \in Clients /\ "undo" \in Early /\ client[r] \in Early
    BY <1>1 DEF Clients, Early
  <2> QED BY <1>1, <1>2, <2>1, <2>2, ThreadInv
<1>4. CASE receiver /\ Len(queue) < QueueCapacity
  <2>1. queue' = Append(queue, r) /\ client' = [client EXCEPT ![r] = "awaiting"]
    BY <1>4 DEF SubmitSend, Goto
  <2>2. /\ client' \in [Requests -> Clients] /\ client'[r] = "awaiting"
        /\ \A q \in Requests : q # r => client'[q] = client[q]
    BY <1>2, <2>1 DEF Clients
  <2>3. ~Queued(r)
    BY <1>1 DEF IInv, Counted, Early
  <2>4. /\ queue' \in Seq(Requests \cup {Wake}) /\ Len(queue') = Len(queue) + 1 /\ Len(queue) \in Nat
        /\ \A i \in 1 .. Len(queue) : queue'[i] = queue[i]
        /\ queue'[Len(queue) + 1] = r
    BY <1>2, <2>1, AppendProperties, LenProperties
  <2>5. DOMAIN queue' = 1 .. Len(queue) + 1 /\ DOMAIN queue = 1 .. Len(queue)
    BY <1>2, <2>4, LenProperties
  <2>6. Queued(r)' /\ \A q \in Requests : q # r => (Queued(q)' <=> Queued(q))
    BY <2>4, <2>5 DEF Queued
  <2>7. \A i, j \in DOMAIN queue' : queue'[i] = queue'[j] => i = j \/ queue'[i] = Wake
    <3>1. \A i, j \in DOMAIN queue : queue[i] = queue[j] => i = j \/ queue[i] = Wake
      BY DEF IInv, Counted
    <3>2. \A i \in DOMAIN queue : queue[i] # r
      BY <2>3 DEF Queued
    <3> QED BY <2>4, <2>5, <3>1, <3>2
  <2>8. r \in Undecided /\ r \notin InQueue /\ Undecided' = Undecided \ {r} /\ InQueue' = InQueue \cup {r}
    BY <1>1, <2>2, <2>3, <2>6 DEF Undecided, InQueue
  <2>9. /\ Cardinality(Undecided') = Cardinality(Undecided) - 1
        /\ Cardinality(InQueue') = Cardinality(InQueue) + 1
    BY <2>8, CountsAre, FS_RemoveElement, FS_AddElement
  <2>10. WaitingExact'
    <3> SUFFICES ASSUME worker.pc \notin {"store", "return", "gone"}
                 PROVE  waiting' = Cardinality(Undecided') + Cardinality(InQueue')
      BY <1>1 DEF WaitingExact, Undecided, InQueue, workerVars
    <3>1. waiting = Cardinality(Undecided) + Cardinality(InQueue)
      BY DEF IInv, Counted, WaitingExact, Undecided, InQueue
    <3> QED BY <1>1, <2>9, <3>1, CountsAre
  <2>11. \A q \in Requests : Queued(q)' => client'[q] \notin Early
    BY <2>2, <2>6 DEF IInv, Counted, Early
  <2>12. Counted'
    BY <2>7, <2>10, <2>11 DEF Counted
  <2>13. \A q \in Requests : client'[q] \in Early \/ Queued(q)' => client[q] \in Early \/ Queued(q)
    BY <1>1, <2>2, <2>6 DEF Early
  <2> QED BY <1>1, <1>2, <1>4, <2>2, <2>4, <2>12, <2>13, ClientInv
<1> QED BY <1>3, <1>4

\* The owner.
LEMMA OwnerInv ==
    ASSUME IInv, OwnerNext PROVE IInv'
<1>1. /\ client \in [Requests -> Clients] /\ flag \in [Requests -> Flags]
      /\ queue \in Seq(Requests \cup {Wake})
  BY DEF IInv, EngineTypes
<1>2. /\ UNCHANGED <<client, receiver, waiting, flag, stream, workerVars>>
      /\ queue' = queue \/ SendWake
      /\ lifecycle' = lifecycle \/ (lifecycle' # "stopped" /\ lifecycle # "stopped")
      /\ caller' = "ok" => caller = "ok" \/ (lifecycle = "stopped" /\ worker.pc = "gone")
  BY DEF OwnerNext, StartTimeout, BeginShutdown, ShutdownReturns, MetricsSnapshot, DropEngine,
         sharedVars, clientVars
<1>3. /\ queue' \in Seq(Requests \cup {Wake}) /\ (~receiver => queue' = queue)
      /\ \A q \in Requests : Queued(q)' <=> Queued(q)
      /\ \A i, j \in DOMAIN queue' : queue'[i] = queue'[j] => i = j \/ queue'[i] = Wake
  <2>1. CASE queue' = queue
    BY <1>1, <2>1 DEF Queued, IInv, Counted
  <2>2. CASE SendWake
    BY <2>2, WakeIs
  <2> QED BY <1>2, <2>1, <2>2
<1>4. Counted'
  BY <1>2, <1>3, CountedSame DEF workerVars
<1> QED BY <1>1, <1>2, <1>3, <1>4, ClientInv

-----------------------------------------------------------------------------
(* The worker takes a command. *)

\* The first command leaves the queue.
LEMMA DequeueIs ==
    ASSUME IInv, queue # <<>>, queue' = Tail(queue), NEW r, r = Head(queue)
    PROVE  /\ r \in Requests \cup {Wake} /\ queue' \in Seq(Requests \cup {Wake})
           /\ \A i, j \in DOMAIN queue' : queue'[i] = queue'[j] => i = j \/ queue'[i] = Wake
           /\ \A q \in Requests : Queued(q)' <=> Queued(q) /\ q # r
           /\ r \in Requests => Queued(r)
<1>1. /\ queue \in Seq(Requests \cup {Wake}) /\ Wake \notin Requests
      /\ \A i, j \in DOMAIN queue : queue[i] = queue[j] => i = j \/ queue[i] = Wake
  BY ConfigAssumption DEF IInv, EngineTypes, Counted
<1>2. /\ Len(queue) \in Nat /\ Len(queue) # 0 /\ DOMAIN queue = 1 .. Len(queue)
  BY <1>1, LenProperties, EmptySeq
<1>3. /\ queue' \in Seq(Requests \cup {Wake}) /\ Len(queue') = Len(queue) - 1
      /\ \A i \in 1 .. Len(queue) - 1 : queue'[i] = queue[i + 1]
      /\ r = queue[1] /\ r \in Requests \cup {Wake}
  BY <1>1, <1>2, HeadTailProperties, ElementOfSeq
<1>4. DOMAIN queue' = 1 .. Len(queue) - 1
  BY <1>2, <1>3, LenProperties
<1>5. \A i, j \in DOMAIN queue' : queue'[i] = queue'[j] => i = j \/ queue'[i] = Wake
  <2> SUFFICES ASSUME NEW i \in DOMAIN queue', NEW j \in DOMAIN queue', queue'[i] = queue'[j],
                      queue'[i] # Wake
               PROVE  i = j
    OBVIOUS
  <2>1. /\ i + 1 \in DOMAIN queue /\ j + 1 \in DOMAIN queue /\ i \in Nat /\ j \in Nat
        /\ queue[i + 1] = queue'[i] /\ queue[j + 1] = queue'[j]
    BY <1>2, <1>3, <1>4
  <2>2. i + 1 = j + 1
    BY <1>1, <2>1
  <2> QED BY <2>1, <2>2
<1>6. ASSUME NEW q \in Requests, Queued(q)' PROVE Queued(q) /\ q # r
  <2>1. PICK i \in DOMAIN queue' : queue'[i] = q
    BY <1>6 DEF Queued
  <2>2. i + 1 \in DOMAIN queue /\ queue[i + 1] = q /\ i + 1 # 1 /\ 1 \in DOMAIN queue
    BY <1>2, <1>3, <1>4, <2>1
  <2>3. q # Wake
    BY <1>1
  <2>4. queue[1] # q
    BY <1>1, <2>2, <2>3
  <2> QED BY <1>3, <2>2, <2>4 DEF Queued
<1>7. ASSUME NEW q \in Requests, Queued(q), q # r PROVE Queued(q)'
  <2>1. PICK i \in DOMAIN queue : queue[i] = q
    BY <1>7 DEF Queued
  <2>2. i - 1 \in DOMAIN queue' /\ queue'[i - 1] = q
    BY <1>2, <1>3, <1>4, <1>7, <2>1
  <2> QED BY <2>2 DEF Queued
<1>8. Queued(r)
  BY <1>2, <1>3 DEF Queued
<1> QED BY <1>3, <1>5, <1>6, <1>7, <1>8

\* One command less waits.
LEMMA DequeueCounted ==
    ASSUME IInv, queue # <<>>, queue' = Tail(queue), UNCHANGED client,
           worker.pc \notin {"store", "return", "gone"},
           waiting' = IF Head(queue) = Wake THEN waiting ELSE Decremented(waiting)
    PROVE  Counted'
<1>1. PICK r : r = Head(queue)
  OBVIOUS
<1>2. /\ r \in Requests \cup {Wake} /\ Wake \notin Requests
      /\ \A i, j \in DOMAIN queue' : queue'[i] = queue'[j] => i = j \/ queue'[i] = Wake
      /\ \A q \in Requests : Queued(q)' <=> Queued(q) /\ q # r
      /\ r \in Requests => Queued(r)
  BY <1>1, DequeueIs, ConfigAssumption
<1>3. waiting = Cardinality(Undecided) + Cardinality(InQueue)
  BY DEF IInv, Counted, WaitingExact, Undecided, InQueue
<1>4. Undecided' = Undecided
  BY DEF Undecided
<1>5. waiting' = Cardinality(Undecided') + Cardinality(InQueue')
  <2>1. CASE r = Wake
    <3>1. InQueue' = InQueue
      BY <1>2, <2>1 DEF InQueue
    <3> QED BY <1>1, <1>3, <1>4, <2>1, <3>1
  <2>2. CASE r \in Requests
    <3>1. InQueue' = InQueue \ {r} /\ r \in InQueue
      BY <1>2, <2>2 DEF InQueue
    <3>2. Cardinality(InQueue') = Cardinality(InQueue) - 1 /\ Cardinality(InQueue) # 0
      BY <3>1, CountsAre, FS_RemoveElement, FS_EmptySet
    <3>3. waiting - 1 \in Nat /\ waiting - 1 < CounterRange
      BY <1>3, <3>2, CountsAre, ConfigAssumption
    <3>4. waiting' = waiting - 1
      BY <1>1, <1>2, <2>2, <3>3, InRange DEF Decremented
    <3> QED BY <1>3, <1>4, <3>2, <3>4, CountsAre
  <2> QED BY <1>2, <2>1, <2>2
<1>6. WaitingExact'
  BY <1>5 DEF WaitingExact, Undecided, InQueue
<1> QED BY <1>2, <1>6 DEF IInv, Counted

\* process_command: a request is admitted or refused.
LEMMA CommandInv ==
    ASSUME IInv, ProcessCommand, worker.pc \in {"command", "idle"},
           worker' \in Workers, worker'.pc \in {"recheck", "top"}, worker'.then = worker.then,
           worker'.batch = worker.batch, worker'.failed = worker.failed, worker'.staging = worker.staging,
           UNCHANGED <<clientVars, lifecycle, receiver, flag, stream, produced, outbox, faults>>
    PROVE  IInv'
<1>1. PICK r : r = Head(queue)
  OBVIOUS
<1>2. /\ queue # <<>> /\ queue' = Tail(queue)
      /\ \/ r = Wake /\ UNCHANGED <<waiting, requests, work>>
         \/ r # Wake /\ waiting' = Decremented(waiting) /\ (Admit(r) \/ Refuse(r))
  BY <1>1 DEF ProcessCommand
<1>3. /\ r \in Requests \cup {Wake} /\ Wake \notin Requests
      /\ queue' \in Seq(Requests \cup {Wake})
      /\ \A q \in Requests : Queued(q)' <=> Queued(q) /\ q # r
      /\ r \in Requests => Queued(r)
  BY <1>1, <1>2, DequeueIs, ConfigAssumption
<1>4. Counted'
  BY <1>1, <1>2, DequeueCounted DEF clientVars
<1>5. \/ UNCHANGED <<requests, work>>
      \/ r \in Requests /\ flag[r] = "live" /\ requests' = requests \cup {r} /\ work' = work \cup {r}
  BY <1>2, <1>3 DEF Admit, Refuse, Admissible
<1>6. Placed' /\ StopsClean' /\ (Closing' <=> Closing)
  <2>1. worker.pc \notin {"publish", "stage", "flush", "drop"} /\ worker.batch = {} /\ worker.then # "drop"
    BY DEF IInv, Placed
  <2>2. Placed' /\ (Closing' <=> Closing)
    BY <2>1 DEF IInv, Placed, Closing
  <2>3. lifecycle # "stopped" /\ caller # "ok"
    BY DEF IInv, StopsClean
  <2>4. StopsClean'
    BY <2>1, <2>3 DEF StopsClean, clientVars
  <2> QED BY <2>2, <2>4
<1>7. EngineTypes' /\ WorkKnown'
  BY <1>3, <1>5 DEF IInv, EngineTypes, WorkKnown, clientVars
<1>8. /\ \A q \in Requests : Staged(q)' = Staged(q) /\ Made(q)' = Made(q)
      /\ Closing' = Closing
  BY <1>6 DEF Staged, Made, Closing
<1>9. r \in Requests => /\ produced[r] = 0 /\ stream[r] = <<>> /\ Staged(r) = {} /\ Made(r) = {}
                        /\ client[r] \notin Early
  BY <1>3 DEF IInv, Fresh, Counted
<1>10. Tracked'
  <2> SUFFICES ASSUME NEW q \in Requests
               PROVE  Consistent(stream[q], flag[q], q \in requests', q \in work', produced[q],
                                 Staged(q), Made(q), Closing)
    BY <1>8 DEF Tracked
  <2>1. CASE (q \in requests' <=> q \in requests) /\ (q \in work' <=> q \in work)
    BY <2>1 DEF IInv, Tracked
  <2>2. CASE q = r /\ r \in Requests /\ flag[r] = "live" /\ q \in requests' /\ q \in work'
    <3>1. Closing \in BOOLEAN
      BY DEF Closing
    <3>2. Consistent(<<>>, "live", TRUE, TRUE, 0, {}, {}, Closing)
      BY <3>1, ConsistentAtFirst
    <3>3. (q \in requests') = TRUE /\ (q \in work') = TRUE
      BY <2>2
    <3> QED BY <1>9, <2>2, <3>2, <3>3
  <2> QED BY <1>5, <2>1, <2>2
<1>11. Fresh'
  <2> SUFFICES ASSUME NEW q \in Requests, client[q] \in Early \/ Queued(q)'
               PROVE  /\ produced[q] = 0 /\ stream[q] = <<>>
                      /\ q \notin requests' /\ q \notin work' /\ Staged(q) = {} /\ Made(q) = {}
    BY <1>8 DEF Fresh, clientVars
  <2>1. q # r
    BY <1>3, <1>9
  <2>2. client[q] \in Early \/ Queued(q)
    BY <1>3
  <2> QED BY <1>5, <2>1, <2>2 DEF IInv, Fresh
<1> QED BY <1>4, <1>6, <1>7, <1>10, <1>11 DEF IInv

\* try_recv and recv_timeout.
LEMMA TakeCommandInv ==
    ASSUME IInv, TakeCommand \/ IdleCommand PROVE IInv'
<1>1. CASE TakeCommand
  <2>1. /\ worker.pc = "command" /\ ProcessCommand /\ worker \in Workers
        /\ worker' = [worker EXCEPT !.pc = "recheck", !.received = TRUE]
        /\ UNCHANGED <<clientVars, lifecycle, receiver, flag, stream, produced, outbox, faults>>
    BY <1>1, WorkerIs DEF TakeCommand, WorkerAt
  <2>2. /\ worker' \in Workers /\ worker'.pc = "recheck" /\ worker'.then = worker.then
        /\ worker'.batch = worker.batch /\ worker'.failed = worker.failed
        /\ worker'.staging = worker.staging
    BY <2>1 DEF Workers, Places
  <2> QED BY <2>1, <2>2, CommandInv
<1>2. CASE IdleCommand
  <2>1. /\ worker.pc = "idle" /\ ProcessCommand /\ worker \in Workers /\ WorkerGoto("top")
        /\ UNCHANGED <<clientVars, lifecycle, receiver, flag, stream, produced, outbox, faults>>
    BY <1>2, WorkerIs DEF IdleCommand, WorkerAt
  <2>2. /\ worker' \in Workers /\ worker'.pc = "top" /\ worker'.then = worker.then
        /\ worker'.batch = worker.batch /\ worker'.failed = worker.failed
        /\ worker'.staging = worker.staging
    BY <2>1, GotoIs DEF Places
  <2> QED BY <2>1, <2>2, CommandInv
<1> QED BY <1>1, <1>2

\* reject_pending_commands.
LEMMA RejectInv ==
    ASSUME IInv, Reject PROVE IInv'
<1>1. /\ worker.pc = "reject" /\ queue # <<>> /\ queue' = Tail(queue)
      /\ waiting' = IF Head(queue) = Wake THEN waiting ELSE Decremented(waiting)
      /\ UNCHANGED <<clientVars, lifecycle, receiver, flag, stream, workerVars>>
  BY DEF Reject, WorkerAt
<1>2. PICK r : r = Head(queue)
  OBVIOUS
<1>3. /\ queue' \in Seq(Requests \cup {Wake})
      /\ \A q \in Requests : Queued(q)' => Queued(q)
  BY <1>1, <1>2, DequeueIs
<1>4. Counted'
  BY <1>1, DequeueCounted DEF clientVars
<1>5. EngineTypes' /\ Placed' /\ WorkKnown'
  BY <1>1, <1>3 DEF IInv, EngineTypes, Placed, WorkKnown, clientVars, workerVars
<1>6. StopsClean'
  BY <1>1 DEF IInv, StopsClean, clientVars, workerVars
<1>7. Tracked' /\ Fresh'
  <2>1. UNCHANGED <<stream, requests, work, produced, outbox, worker, flag, client>> /\ (Closing => Closing')
    BY <1>1 DEF workerVars, clientVars, Closing
  <2> QED BY <1>3, <2>1, TrackedKept, FreshKept
<1> QED BY <1>4, <1>5, <1>6, <1>7 DEF IInv

-----------------------------------------------------------------------------
(* The worker ends requests. *)

\* What End does to the requests it ends, and to the others.
LEMMA EndIs ==
    ASSUME IInv, NEW kinds, DOMAIN kinds \subseteq requests,
           \A r \in DOMAIN kinds : kinds[r] \in {"cancelled", "failed"}, End(kinds)
    PROVE  /\ stream' \in [Requests -> Seq(Payloads)] /\ flag' \in [Requests -> Flags]
           /\ requests' = requests \ DOMAIN kinds
           /\ \A r \in Requests \ DOMAIN kinds : stream'[r] = stream[r] /\ flag'[r] = flag[r]
           /\ \A r \in DOMAIN kinds :
                /\ flag'[r] = "terminal"
                /\ \/ stream'[r] = stream[r]
                   \/ stream'[r] = Append(stream[r], [kind |-> kinds[r], n |-> produced[r]])
<1>1. /\ stream \in [Requests -> Seq(Payloads)] /\ flag \in [Requests -> Flags]
      /\ requests \subseteq Requests /\ produced \in [Requests -> 0 .. MaxTokens] /\ MaxTokens \in Nat
  BY ConfigAssumption DEF IInv, EngineTypes
<1>2. /\ stream' = [r \in Requests |->
                      IF r \in DOMAIN kinds /\ Room(r)
                      THEN Append(stream[r], Payload(Terminal(r, kinds[r]))) ELSE stream[r]]
      /\ flag' = [r \in Requests |-> IF r \in DOMAIN kinds THEN "terminal" ELSE flag[r]]
      /\ requests' = requests \ DOMAIN kinds
  BY DEF End
<1>3. ASSUME NEW r \in DOMAIN kinds
      PROVE  /\ Payload(Terminal(r, kinds[r])) = [kind |-> kinds[r], n |-> produced[r]]
             /\ [kind |-> kinds[r], n |-> produced[r]] \in Payloads
             /\ Append(stream[r], [kind |-> kinds[r], n |-> produced[r]]) \in Seq(Payloads)
  <2>1. Payload(Terminal(r, kinds[r])) = [kind |-> kinds[r], n |-> produced[r]]
    BY DEF Payload, Terminal, Event
  <2>2. r \in Requests /\ produced[r] \in 0 .. MaxTokens /\ kinds[r] \in {"cancelled", "failed"}
    BY <1>1
  <2>3. PICK x : x = [kind |-> kinds[r], n |-> produced[r]]
    OBVIOUS
  <2>4. x \in Payloads
    BY <1>1, <2>2, <2>3 DEF Payloads, Kinds, Counts
  <2>5. Append(stream[r], x) \in Seq(Payloads)
    BY <1>1, <2>2, <2>4, AppendProperties
  <2> QED BY <2>1, <2>3, <2>4, <2>5
<1>4. stream' \in [Requests -> Seq(Payloads)] /\ flag' \in [Requests -> Flags]
  <2>1. \A r \in Requests : stream'[r] \in Seq(Payloads)
    BY <1>1, <1>2, <1>3
  <2>2. PICK f : f = stream'
    OBVIOUS
  <2>3. f \in [Requests -> Seq(Payloads)]
    BY <1>2, <2>1, <2>2
  <2> QED BY <1>1, <1>2, <2>2, <2>3 DEF Flags
<1> QED BY <1>1, <1>2, <1>3, <1>4

\* The requests that are ended, and the others, stay consistent.
LEMMA EndTracked ==
    ASSUME IInv, NEW kinds, DOMAIN kinds \subseteq requests,
           \A r \in DOMAIN kinds : kinds[r] \in {"cancelled", "failed"}, End(kinds),
           work' \subseteq work, \A r \in Requests \ DOMAIN kinds : r \in work' <=> r \in work,
           UNCHANGED <<client, queue, produced, outbox>>, worker'.batch = worker.batch
    PROVE  /\ (Closing' <=> Closing) => Tracked'
           /\ (outbox = {} /\ worker.batch = {} /\ requests' = {}) => Tracked'
           /\ Fresh'
<1>1. /\ requests' = requests \ DOMAIN kinds /\ requests \subseteq Requests
      /\ \A r \in Requests \ DOMAIN kinds : stream'[r] = stream[r] /\ flag'[r] = flag[r]
      /\ \A r \in DOMAIN kinds : flag'[r] = "terminal"
  BY EndIs DEF IInv, EngineTypes
<1>2. \A r \in Requests : Staged(r)' = Staged(r) /\ Made(r)' = Made(r)
  BY DEF Staged, Made
<1>3. Closing \in BOOLEAN /\ Closing' \in BOOLEAN
  BY DEF Closing
<1>4. ASSUME NEW r \in Requests
      PROVE  Consistent(stream'[r], flag'[r], r \in requests', r \in work', produced[r],
                        Staged(r), Made(r), Closing)
  <2>1. Consistent(stream[r], flag[r], r \in requests, r \in work, produced[r],
                   Staged(r), Made(r), Closing)
    BY DEF IInv, Tracked
  <2>2. CASE r \notin DOMAIN kinds
    <3>1. (r \in requests' <=> r \in requests) /\ (r \in work' <=> r \in work)
      BY <1>1, <2>2
    <3> QED BY <1>1, <2>1, <2>2, <3>1
  <2>3. CASE r \in DOMAIN kinds
    <3>1. (r \in requests) = TRUE /\ (r \in requests') = FALSE /\ flag'[r] = "terminal"
      BY <1>1, <2>3
    <3>2. /\ (r \in work) \in BOOLEAN /\ (r \in work') \in BOOLEAN
          /\ (r \in work') => (r \in work)
      OBVIOUS
    <3>3. Consistent(stream[r], flag[r], TRUE, r \in work, produced[r], Staged(r), Made(r), Closing)
      BY <2>1, <3>1
    <3>4. PICK s, t, fl, runs, runs2, n, O, B, c :
             /\ s = stream[r] /\ t = stream'[r] /\ fl = flag[r] /\ runs = (r \in work)
             /\ runs2 = (r \in work') /\ n = produced[r] /\ O = Staged(r) /\ B = Made(r)
             /\ c = Closing
      OBVIOUS
    <3>5. /\ c \in BOOLEAN /\ runs \in BOOLEAN /\ runs2 \in BOOLEAN /\ (runs2 => runs)
          /\ Consistent(s, fl, TRUE, runs, n, O, B, c)
      BY <1>3, <3>2, <3>3, <3>4
    <3>6. Consistent(t, "terminal", FALSE, runs2, n, O, B, c)
      BY ZenonT(60), <3>5, ConsistentEnded
    <3> QED BY <3>1, <3>4, <3>6
  <2> QED BY <2>2, <2>3
<1>5. (Closing' <=> Closing) => Tracked'
  <2> SUFFICES ASSUME Closing' <=> Closing PROVE Tracked'
    OBVIOUS
  <2>1. Closing' = Closing
    BY <1>3
  <2> QED BY <1>2, <1>4, <2>1 DEF Tracked
<1>6. ASSUME outbox = {}, worker.batch = {}, requests' = {} PROVE Tracked'
  <2> SUFFICES ASSUME NEW r \in Requests
               PROVE  Consistent(stream'[r], flag'[r], r \in requests', r \in work', produced[r],
                                 Staged(r), Made(r), Closing')
    BY <1>2 DEF Tracked
  <2>1. Staged(r) = {} /\ Made(r) = {} /\ (r \in requests') = FALSE /\ (r \in work') \in BOOLEAN
    BY <1>6 DEF Staged, Made
  <2>2. PICK c, d, s, fl, runs, n : /\ c = Closing /\ d = Closing' /\ s = stream'[r] /\ fl = flag'[r]
                                    /\ runs = (r \in work') /\ n = produced[r]
    OBVIOUS
  <2>3. Consistent(s, fl, FALSE, runs, n, {}, {}, c)
    BY <1>4, <2>1, <2>2
  <2>4. c \in BOOLEAN /\ d \in BOOLEAN /\ runs \in BOOLEAN
    BY <1>3, <2>2
  <2>5. Consistent(s, fl, FALSE, runs, n, {}, {}, d)
    <3>1. CASE c = d
      BY <2>3, <3>1
    <3>2. CASE c = TRUE /\ d = FALSE
      BY <2>3, <2>4, <3>2, ConsistentStops
    <3>3. CASE c = FALSE /\ d = TRUE
      BY <2>3, <2>4, <3>3, ConsistentStops
    <3> QED BY <2>4, <3>1, <3>2, <3>3
  <2> QED BY <2>1, <2>2, <2>5
<1>7. Fresh'
  <2> SUFFICES ASSUME NEW r \in Requests, client[r] \in Early \/ Queued(r)
               PROVE  /\ produced[r] = 0 /\ stream'[r] = <<>>
                      /\ r \notin requests' /\ r \notin work' /\ Staged(r) = {} /\ Made(r) = {}
    BY <1>2 DEF Fresh, Queued
  <2>1. /\ produced[r] = 0 /\ stream[r] = <<>>
        /\ r \notin requests /\ r \notin work /\ Staged(r) = {} /\ Made(r) = {}
    BY DEF IInv, Fresh
  <2> QED BY <1>1, <2>1
<1> QED BY <1>5, <1>6, <1>7

\* An action that ends requests and moves the worker.
LEMMA EndInv ==
    ASSUME IInv, NEW kinds, DOMAIN kinds \subseteq requests,
           \A r \in DOMAIN kinds : kinds[r] \in {"cancelled", "failed"}, End(kinds),
           work' \subseteq work, \A r \in Requests \ DOMAIN kinds : r \in work' <=> r \in work,
           UNCHANGED <<client, queue, waiting, produced, outbox>>, worker'.batch = worker.batch,
           \/ Closing' <=> Closing
           \/ outbox = {} /\ worker.batch = {} /\ requests' = {},
           worker' \in Workers, faults' \in Nat,
           worker.pc \notin {"store", "return", "gone"},
           Placed', StopsClean', WorkKnown'
    PROVE  IInv'
<1>1. stream' \in [Requests -> Seq(Payloads)] /\ flag' \in [Requests -> Flags]
      /\ requests' = requests \ DOMAIN kinds
  BY EndIs
<1>2. Tracked' /\ Fresh'
  BY EndTracked
<1>3. Counted'
  BY CountedKept
<1>4. EngineTypes'
  BY <1>1 DEF IInv, EngineTypes
<1> QED BY <1>2, <1>3, <1>4 DEF IInv

\* process_cancellations.
LEMMA CancellationsInv ==
    ASSUME IInv, ProcessCancellations PROVE IInv'
<1>1. /\ worker.pc \in {"cancel", "recheck"} /\ worker \in Workers /\ faults \in Nat
      /\ End([r \in Cancelled |-> "cancelled"]) /\ work' = work \ Cancelled
      /\ UNCHANGED <<clientVars, lifecycle, queue, receiver, waiting, produced, outbox, faults>>
      /\ requests \subseteq Requests /\ work \subseteq Requests
  BY DEF IInv, EngineTypes, ProcessCancellations
<1>2. \E place \in {"top", "command"} : WorkerGoto(place)
  BY DEF ProcessCancellations
<1>3. PICK place \in {"top", "command"} : WorkerGoto(place)
  BY <1>2
<1>4. /\ worker' \in Workers /\ worker'.pc = place /\ worker'.then = worker.then
      /\ worker'.batch = worker.batch /\ worker'.failed = worker.failed /\ worker'.staging = worker.staging
  BY <1>1, <1>3, GotoIs DEF Places
<1>5. PICK kinds : kinds = [r \in Cancelled |-> "cancelled"]
  OBVIOUS
<1>6. /\ DOMAIN kinds = Cancelled /\ Cancelled \subseteq requests
      /\ \A r \in DOMAIN kinds : kinds[r] \in {"cancelled", "failed"}
  BY <1>5 DEF Cancelled
<1>7. End(kinds)
  BY <1>1, <1>5
<1>8. requests' = requests \ Cancelled
  BY <1>6, <1>7 DEF End
<1>9. Placed' /\ StopsClean' /\ WorkKnown' /\ (Closing' <=> Closing)
  BY <1>1, <1>4, <1>8 DEF IInv, Placed, StopsClean, WorkKnown, Closing, clientVars
<1>10. work' \subseteq work /\ \A r \in Requests \ DOMAIN kinds : r \in work' <=> r \in work
  BY <1>1, <1>6
<1> QED BY <1>1, <1>4, <1>6, <1>7, <1>9, <1>10, EndInv DEF clientVars

\* The backend fails to cancel a request.
LEMMA CancellationFailsInv ==
    ASSUME IInv, CancellationFails PROVE IInv'
<1>1. /\ worker.pc \in {"cancel", "recheck"} /\ worker \in Workers /\ faults \in Nat
      /\ faults' = faults + 1 /\ lifecycle' = "draining"
      /\ worker' = [worker EXCEPT !.pc = "top", !.failed = TRUE]
      /\ UNCHANGED <<clientVars, queue, receiver, waiting, produced, outbox>>
      /\ requests \subseteq Requests /\ work \subseteq Requests
  BY DEF IInv, EngineTypes, CancellationFails, Fault
<1>2. PICK done \in SUBSET Cancelled :
         /\ End([r \in requests |-> IF r \in done THEN "cancelled" ELSE "failed"])
         /\ work' = work \ done
  BY DEF CancellationFails
<1>3. /\ worker' \in Workers /\ worker'.pc = "top" /\ worker'.then = worker.then
      /\ worker'.batch = worker.batch /\ worker'.failed = TRUE /\ worker'.staging = worker.staging
  BY <1>1 DEF Workers, Places
<1>4. PICK kinds : kinds = [r \in requests |-> IF r \in done THEN "cancelled" ELSE "failed"]
  OBVIOUS
<1>5. /\ DOMAIN kinds = requests
      /\ \A r \in DOMAIN kinds : kinds[r] \in {"cancelled", "failed"}
  BY <1>4
<1>6. End(kinds)
  BY <1>2, <1>4
<1>7. requests' = {}
  BY <1>5, <1>6 DEF End
<1>8. Placed' /\ StopsClean' /\ WorkKnown' /\ (Closing' <=> Closing)
  BY <1>1, <1>3, <1>7 DEF IInv, Placed, StopsClean, WorkKnown, Closing, clientVars
<1>9. work' \subseteq work /\ \A r \in Requests \ DOMAIN kinds : r \in work' <=> r \in work
  BY <1>2, <1>5 DEF Cancelled
<1> QED BY <1>1, <1>3, <1>5, <1>6, <1>8, <1>9, EndInv DEF clientVars

\* fail_remaining, after a failed step and when the worker stops.
LEMMA FailRemainingInv ==
    ASSUME IInv, Abort \/ Drop PROVE IInv'
<1>1. /\ worker \in Workers /\ faults \in Nat /\ FailRemaining
      /\ UNCHANGED <<clientVars, queue, receiver, waiting, produced, outbox, work, faults>>
      /\ requests \subseteq Requests
  BY DEF IInv, EngineTypes, Abort, Drop
<1>2. PICK kinds : kinds = [r \in requests |-> "failed"]
  OBVIOUS
<1>3. /\ DOMAIN kinds = requests /\ End(kinds)
      /\ \A r \in DOMAIN kinds : kinds[r] \in {"cancelled", "failed"}
  BY <1>1, <1>2 DEF FailRemaining
<1>4. requests' = {}
  BY <1>3 DEF End
<1>5. CASE Abort
  <2>1. /\ worker.pc = "abort" /\ lifecycle' = "draining"
        /\ worker' = [worker EXCEPT !.pc = "top", !.failed = TRUE]
    BY <1>5 DEF Abort, WorkerAt
  <2>2. /\ worker' \in Workers /\ worker'.pc = "top" /\ worker'.then = worker.then
        /\ worker'.batch = worker.batch /\ worker'.failed = TRUE /\ worker'.staging = worker.staging
    BY <1>1, <2>1 DEF Workers, Places
  <2>3. Placed' /\ StopsClean' /\ WorkKnown' /\ (Closing' <=> Closing)
    BY <1>1, <1>4, <2>1, <2>2 DEF IInv, Placed, StopsClean, WorkKnown, Closing, clientVars
  <2> QED BY <1>1, <1>3, <2>1, <2>2, <2>3, EndInv DEF clientVars
<1>6. CASE Drop
  <2>1. worker.pc = "drop" /\ WorkerGoto("exit") /\ lifecycle' = lifecycle
    BY <1>6 DEF Drop, WorkerAt
  <2>2. /\ worker' \in Workers /\ worker'.pc = "exit" /\ worker'.then = worker.then
        /\ worker'.batch = worker.batch /\ worker'.failed = worker.failed
        /\ worker'.staging = worker.staging
    BY <1>1, <2>1, GotoIs DEF Places
  <2>3. Placed' /\ StopsClean' /\ WorkKnown' /\ outbox = {} /\ worker.batch = {}
    BY <1>1, <1>4, <2>1, <2>2 DEF IInv, Placed, StopsClean, WorkKnown, clientVars
  <2> QED BY <1>1, <1>3, <1>4, <2>1, <2>2, <2>3, EndInv DEF clientVars
<1> QED BY <1>5, <1>6

\* The slow consumers are cancelled.
LEMMA CancelSlowInv ==
    ASSUME IInv, CancelSlow PROVE IInv'
<1>1. /\ worker \in Workers /\ faults \in Nat
      /\ \/ worker.pc = "publish" /\ worker.batch = {}
         \/ worker.pc = "flush" /\ outbox = {}
      /\ worker' = [worker EXCEPT !.pc = worker.then, !.then = "top", !.slow = {}]
      /\ UNCHANGED <<clientVars, lifecycle, queue, receiver, waiting, produced, outbox>>
      /\ requests \subseteq Requests /\ work \subseteq Requests
  BY DEF IInv, EngineTypes, CancelSlow, WorkerAt
<1>2. PICK slow : slow = worker.slow \cap requests \cap work
  OBVIOUS
<1>3. PICK bad \in SUBSET slow :
          /\ faults' = faults + Cardinality(bad)
          /\ End([r \in slow |-> IF r \in bad THEN "failed" ELSE "cancelled"])
          /\ work' = work \ (slow \ bad)
  BY <1>2 DEF CancelSlow
<1>4. PICK then : then = worker.then
  OBVIOUS
<1>5. then \in {"top", "stage", "abort", "reject", "drop"}
  BY <1>1, <1>4 DEF Workers
<1>6. /\ worker' \in Workers /\ worker'.pc = then /\ worker'.then = "top"
      /\ worker'.batch = worker.batch /\ worker'.failed = worker.failed
      /\ worker'.staging = worker.staging
  BY <1>1, <1>4, <1>5 DEF Workers, Places
<1>7. IsFiniteSet(bad) /\ Cardinality(bad) \in Nat /\ (Cardinality(bad) = 0 => bad = {})
  BY <1>1, <1>2, ConfigAssumption, FS_Subset, FS_CardinalityType, FS_EmptySet
<1>8. faults' \in Nat /\ (faults' = 0 => faults = 0 /\ bad = {})
  BY <1>1, <1>3, <1>7
<1>9. PICK kinds : kinds = [r \in slow |-> IF r \in bad THEN "failed" ELSE "cancelled"]
  OBVIOUS
<1>10. /\ DOMAIN kinds = slow /\ slow \subseteq requests
       /\ \A r \in DOMAIN kinds : kinds[r] \in {"cancelled", "failed"}
  BY <1>2, <1>9
<1>11. End(kinds)
  BY <1>3, <1>9
<1>12. requests' = requests \ slow
  BY <1>10, <1>11 DEF End
<1>13. Placed' /\ (Closing' <=> Closing)
  BY <1>1, <1>4, <1>6 DEF IInv, Placed, Closing
<1>14. work' \subseteq work /\ \A r \in Requests \ DOMAIN kinds : r \in work' <=> r \in work
  BY <1>3, <1>10
<1>15. /\ StopsClean
       /\ worker.pc = "publish" => then \in {"top", "drop"}
       /\ worker.pc # "publish" => then # "drop"
  BY <1>4 DEF IInv, Placed
<1>16. StopsClean'
  <2>1. then = "drop" => work' = {}
    BY <1>4, <1>14, <1>15 DEF StopsClean
  <2>2. lifecycle # "stopped" /\ caller # "ok"
    BY <1>1, <1>15 DEF StopsClean
  <2> QED BY <1>1, <1>5, <1>6, <2>1, <2>2 DEF StopsClean, clientVars
<1>17. WorkKnown'
  BY <1>3, <1>4, <1>6, <1>8, <1>12 DEF IInv, WorkKnown
<1> QED BY <1>1, <1>6, <1>8, <1>10, <1>11, <1>13, <1>14, <1>16, <1>17, EndInv DEF clientVars

-----------------------------------------------------------------------------
(* The worker steps the backend. *)

\* The events of a step, of all requests and of one.
LEMMA StepEventsAre ==
    ASSUME IInv, NEW upto \in [work -> 0 .. MaxTokens], NEW ended \in SUBSET work,
           NEW ends \in [ended -> {"finished", "failed"}]
    PROVE  /\ StepEvents(upto, ends) \subseteq Events
           /\ \A e \in StepEvents(upto, ends) : e.id \in work
           /\ \A e \in StepEvents(upto, ends) : ~IsTerminal(e) => e.n \in produced[e.id] + 1 .. upto[e.id]
           /\ \A e \in StepEvents(upto, ends) : IsTerminal(e) => e.id \in ended /\ e = Event(e.id, ends[e.id], upto[e.id])
           /\ \A r \in work : \A i \in produced[r] + 1 .. upto[r] :
                 \E e \in StepEvents(upto, ends) : e.id = r /\ ~IsTerminal(e) /\ e.n = i
           /\ \A r \in ended : Event(r, ends[r], upto[r]) \in StepEvents(upto, ends)
<1>1. /\ MaxTokens \in Nat /\ work \subseteq Requests
      /\ \A r \in work : produced[r] \in Nat /\ upto[r] \in 0 .. MaxTokens
      /\ \A r \in ended : r \in work /\ ends[r] \in {"finished", "failed"}
      /\ DOMAIN ends = ended
  BY ConfigAssumption DEF IInv, EngineTypes
<1>2. \A e : e \in StepEvents(upto, ends) <=>
               \/ \E r \in work : \E i \in produced[r] + 1 .. upto[r] : e = Event(r, "token", i)
               \/ \E r \in ended : e = Event(r, ends[r], upto[r])
  <2> DEFINE tokens(r) == {Event(r, "token", n) : n \in produced[r] + 1 .. upto[r]}
             last == {Event(r, ends[r], upto[r]) : r \in DOMAIN ends}
  <2>1. \A e : e \in last <=> \E r \in ended : e = Event(r, ends[r], upto[r])
    BY <1>1, Zenon
  <2>2. \A r, e : e \in tokens(r) <=> \E i \in produced[r] + 1 .. upto[r] : e = Event(r, "token", i)
    BY Zenon
  <2>3. StepEvents(upto, ends) = (UNION {tokens(r) : r \in work}) \cup last
    BY DEF StepEvents
  <2> HIDE DEF tokens, last
  <2>4. \A e : e \in UNION {tokens(r) : r \in work} <=> \E r \in work : e \in tokens(r)
    OBVIOUS
  <2>5. \A e : e \in StepEvents(upto, ends) <=> (\E r \in work : e \in tokens(r)) \/ e \in last
    BY <2>3, <2>4
  <2> QED BY <2>1, <2>2, <2>5, Zenon
<1>3. ASSUME NEW e \in StepEvents(upto, ends)
      PROVE  e \in Events /\ e.id \in work
  <2>1. CASE \E r \in work : \E i \in produced[r] + 1 .. upto[r] : e = Event(r, "token", i)
    <3>1. PICK r \in work : \E i \in produced[r] + 1 .. upto[r] : e = Event(r, "token", i)
      BY <2>1
    <3>2. PICK i \in produced[r] + 1 .. upto[r] : e = Event(r, "token", i)
      BY <3>1
    <3>3. i \in Counts
      BY <1>1 DEF Counts
    <3> QED BY <1>1, <3>2, <3>3 DEF Event, Events, Kinds
  <2>2. CASE \E r \in ended : e = Event(r, ends[r], upto[r])
    <3>1. PICK r \in ended : e = Event(r, ends[r], upto[r])
      BY <2>2
    <3>2. upto[r] \in Counts /\ ends[r] \in Kinds /\ r \in Requests /\ r \in work
      BY <1>1 DEF Counts, Kinds
    <3> QED BY <3>1, <3>2 DEF Event, Events
  <2> QED BY <1>2, <2>1, <2>2
<1>4. \A r, k, i : /\ Event(r, k, i).id = r /\ Event(r, k, i).n = i
                   /\ IsTerminal(Event(r, k, i)) <=> k # "token"
  BY DEF Event, IsTerminal
<1>5. ASSUME NEW e \in StepEvents(upto, ends)
      PROVE  /\ ~IsTerminal(e) => e.n \in produced[e.id] + 1 .. upto[e.id]
             /\ IsTerminal(e) => e.id \in ended /\ e = Event(e.id, ends[e.id], upto[e.id])
  <2>1. CASE \E r \in work : \E i \in produced[r] + 1 .. upto[r] : e = Event(r, "token", i)
    <3>1. PICK r \in work : \E i \in produced[r] + 1 .. upto[r] : e = Event(r, "token", i)
      BY <2>1
    <3>2. PICK i \in produced[r] + 1 .. upto[r] : e = Event(r, "token", i)
      BY <3>1
    <3>3. e.id = r /\ e.n = i /\ ~IsTerminal(e)
      BY <3>2 DEF Event, IsTerminal
    <3> QED BY <3>3
  <2>2. CASE \E r \in ended : e = Event(r, ends[r], upto[r])
    <3>1. PICK r \in ended : e = Event(r, ends[r], upto[r])
      BY <2>2
    <3>2. e.id = r /\ ends[r] # "token"
      BY <1>1, <1>4, <3>1
    <3>3. IsTerminal(e)
      BY <1>4, <3>1, <3>2
    <3> QED BY <3>1, <3>2, <3>3
  <2> QED BY <1>2, <2>1, <2>2
<1>6. ASSUME NEW r \in work, NEW i \in produced[r] + 1 .. upto[r]
      PROVE  \E e \in StepEvents(upto, ends) : e.id = r /\ ~IsTerminal(e) /\ e.n = i
  <2>1. PICK e : e = Event(r, "token", i)
    OBVIOUS
  <2>2. e \in StepEvents(upto, ends)
    BY <1>2, <2>1
  <2>3. e.id = r /\ ~IsTerminal(e) /\ e.n = i
    BY <2>1 DEF Event, IsTerminal
  <2> QED BY <2>2, <2>3
<1>7. ASSUME NEW r \in ended PROVE Event(r, ends[r], upto[r]) \in StepEvents(upto, ends)
  BY <1>2
<1> QED BY <1>3, <1>5, <1>6, <1>7

\* backend.step.
LEMMA StepInv ==
    ASSUME IInv, Step PROVE IInv'
<1>1. /\ worker.pc = "step" /\ worker \in Workers /\ faults \in Nat /\ MaxTokens \in Nat
      /\ UNCHANGED <<clientVars, sharedVars, requests, outbox, faults>>
      /\ requests \subseteq Requests /\ work \subseteq Requests
      /\ produced \in [Requests -> 0 .. MaxTokens] /\ worker.staging \in BOOLEAN
      /\ stream \in [Requests -> Seq(Payloads)] /\ outbox \subseteq Events
  BY WorkerIs DEF IInv, EngineTypes, Step, WorkerAt
<1>2. PICK upto \in [work -> 0 .. MaxTokens], ended \in SUBSET work :
        \E ends \in [ended -> {"finished", "failed"}] :
          /\ \A r \in work : upto[r] >= produced[r]
          /\ produced' = [r \in Requests |-> IF r \in work THEN upto[r] ELSE produced[r]]
          /\ work' = work \ ended
          /\ worker' = [worker EXCEPT !.batch = StepEvents(upto, ends),
                                      !.pc = IF worker.staging THEN "flush" ELSE "publish",
                                      !.then = IF worker.staging THEN "stage" ELSE "top"]
  BY DEF Step
<1>3. PICK ends \in [ended -> {"finished", "failed"}] :
          /\ \A r \in work : upto[r] >= produced[r]
          /\ produced' = [r \in Requests |-> IF r \in work THEN upto[r] ELSE produced[r]]
          /\ work' = work \ ended
          /\ worker' = [worker EXCEPT !.batch = StepEvents(upto, ends),
                                      !.pc = IF worker.staging THEN "flush" ELSE "publish",
                                      !.then = IF worker.staging THEN "stage" ELSE "top"]
  BY <1>2
<1>4. PICK made : made = StepEvents(upto, ends)
  OBVIOUS
<1>5. /\ made \subseteq Events
      /\ \A e \in made : e.id \in work
      /\ \A e \in made : ~IsTerminal(e) => e.n \in produced[e.id] + 1 .. upto[e.id]
      /\ \A e \in made : IsTerminal(e) => e.id \in ended /\ e = Event(e.id, ends[e.id], upto[e.id])
      /\ \A r \in work : \A i \in produced[r] + 1 .. upto[r] :
            \E e \in made : e.id = r /\ ~IsTerminal(e) /\ e.n = i
      /\ \A r \in ended : Event(r, ends[r], upto[r]) \in made
  <2>1. /\ StepEvents(upto, ends) \subseteq Events
        /\ \A e \in StepEvents(upto, ends) : e.id \in work
        /\ \A e \in StepEvents(upto, ends) : ~IsTerminal(e) => e.n \in produced[e.id] + 1 .. upto[e.id]
        /\ \A e \in StepEvents(upto, ends) : IsTerminal(e) => e.id \in ended /\ e = Event(e.id, ends[e.id], upto[e.id])
        /\ \A r \in work : \A i \in produced[r] + 1 .. upto[r] :
              \E e \in StepEvents(upto, ends) : e.id = r /\ ~IsTerminal(e) /\ e.n = i
        /\ \A r \in ended : Event(r, ends[r], upto[r]) \in StepEvents(upto, ends)
    BY StepEventsAre
  <2> QED BY <1>4, <2>1
<1>6. PICK place, then : /\ place = (IF worker.staging THEN "flush" ELSE "publish")
                      /\ then = (IF worker.staging THEN "stage" ELSE "top")
  OBVIOUS
<1>7. worker' = [worker EXCEPT !.batch = made, !.pc = place, !.then = then]
  BY <1>3, <1>4, <1>6
<1>8. /\ worker' \in Workers /\ worker'.pc = place /\ worker'.then = then /\ worker'.batch = made
      /\ worker'.failed = worker.failed /\ worker'.staging = worker.staging
  BY <1>1, <1>5, <1>6, <1>7 DEF Workers, Places
<1>9. worker.batch = {} /\ worker.then # "drop" /\ (outbox # {} => worker.staging)
  BY <1>1 DEF IInv, Placed
<1>10. Placed' /\ ~Closing /\ ~Closing'
  BY <1>1, <1>6, <1>8, <1>9 DEF Placed, Closing
<1>11. StopsClean' /\ WorkKnown'
  BY <1>1, <1>3, <1>6, <1>8 DEF IInv, StopsClean, WorkKnown, clientVars, sharedVars
<1>12. Counted'
  BY <1>1, <1>6, <1>8, CountedKept DEF clientVars, sharedVars
<1>13. produced' \in [Requests -> 0 .. MaxTokens]
  BY <1>1, <1>3
<1>14. EngineTypes'
  BY <1>1, <1>3, <1>8, <1>13 DEF IInv, EngineTypes, clientVars, sharedVars
<1>15. \A r \in Requests : /\ Staged(r)' = Staged(r) /\ Made(r) = {}
                           /\ Made(r)' = {e \in made : e.id = r}
  BY <1>1, <1>8, <1>9 DEF Staged, Made
<1>16. ASSUME NEW r \in Requests
       PROVE  Consistent(stream[r], flag[r], r \in requests, r \in work', produced'[r],
                         Staged(r), {e \in made : e.id = r}, FALSE)
  <2>1. PICK s, fl, known, runs, n, O :
           /\ s = stream[r] /\ fl = flag[r] /\ known = (r \in requests) /\ runs = (r \in work)
           /\ n = produced[r] /\ O = Staged(r)
    OBVIOUS
  <2>2. known \in BOOLEAN /\ runs \in BOOLEAN
    BY <2>1
  <2>3. Consistent(s, fl, known, runs, n, O, {}, FALSE)
    <3>1. Closing = FALSE
      BY <1>10 DEF Closing
    <3>2. Consistent(stream[r], flag[r], r \in requests, r \in work, produced[r],
                     Staged(r), Made(r), Closing)
      BY DEF IInv, Tracked
    <3> QED BY <1>15, <2>1, <3>1, <3>2
  <2>4. CASE r \in work
    <3>1. PICK m, B, runs2, end : /\ m = upto[r] /\ B = {e \in made : e.id = r}
                                  /\ runs2 = (r \notin ended) /\ end = Event(r, ends[r], upto[r])
      OBVIOUS
    <3>2. n \in Nat /\ m \in Nat /\ n <= m /\ m <= MaxTokens /\ runs2 \in BOOLEAN /\ runs = TRUE
      <4>1. n \in Nat /\ m \in Nat /\ n <= m /\ m <= MaxTokens
        BY <1>1, <1>3, <2>1, <2>4, <3>1
      <4> QED BY <2>1, <2>4, <3>1, <4>1
    <3>3. StepMakes(B, n, m, runs2, end)
      <4>1. \A f : f \in B <=> f \in made /\ f.id = r
        BY <3>1
      <4>2. /\ \A f \in B : ~IsTerminal(f) => f.n \in n + 1 .. m
            /\ \A i \in n + 1 .. m : \E f \in B : ~IsTerminal(f) /\ f.n = i
        BY <1>5, <2>1, <2>4, <3>1, <4>1
      <4>3. \A f \in B : IsTerminal(f) => ~runs2 /\ f = end
        <5> SUFFICES ASSUME NEW f \in B, IsTerminal(f) PROVE ~runs2 /\ f = end
          OBVIOUS
        <5>1. f.id = r /\ f.id \in ended /\ f = Event(f.id, ends[f.id], upto[f.id])
          BY <1>5, <4>1
        <5> QED BY <3>1, <5>1
      <4>4. r \in ended => ends[r] # "token" /\ end \in made
        BY <1>5, <3>1
      <4>5. end.id = r /\ end.n = m /\ end.kind = ends[r]
        BY <3>1 DEF Event
      <4>6. ~runs2 => end \in B /\ IsTerminal(end) /\ end.n = m
        BY <3>1, <4>1, <4>4, <4>5 DEF IsTerminal
      <4> QED BY <4>2, <4>3, <4>6 DEF StepMakes
    <3>4. Typed(r, s, n, O, {})
      <4>1. s \in Seq(Payloads) /\ n \in 0 .. MaxTokens
        BY <1>1, <2>1
      <4>2. O \subseteq EventsOf(r)
        BY <1>1, <2>1 DEF Staged, Events, EventsOf
      <4> QED BY <4>1, <4>2 DEF Typed
    <3>5. Consistent(s, fl, known, TRUE, n, O, {}, FALSE)
      BY <2>3, <3>2
    <3>6. Consistent(s, fl, known, runs2, m, O, B, FALSE)
      BY <2>2, <3>2, <3>3, <3>4, <3>5, ConsistentStepped
    <3>7. (r \in work') = runs2 /\ produced'[r] = m
      BY <1>3, <2>4, <3>1
    <3> QED BY <2>1, <3>1, <3>6, <3>7
  <2>5. CASE r \notin work
    <3>1. (r \in work') = runs /\ produced'[r] = n /\ {e \in made : e.id = r} = {}
      BY <1>1, <1>3, <1>5, <2>1, <2>5
    <3> QED BY <2>1, <2>3, <3>1
  <2> QED BY <2>4, <2>5
<1>17. Tracked'
  <2>1. Closing' = FALSE
    BY <1>10 DEF Closing
  <2> QED BY <1>1, <1>15, <1>16, <2>1 DEF Tracked, sharedVars
<1>18. Fresh'
  <2> SUFFICES ASSUME NEW r \in Requests, client[r] \in Early \/ Queued(r)
               PROVE  /\ produced'[r] = 0 /\ stream[r] = <<>>
                      /\ r \notin requests /\ r \notin work' /\ Staged(r) = {}
                      /\ {e \in made : e.id = r} = {}
    BY <1>1, <1>15 DEF Fresh, Queued, sharedVars, clientVars
  <2>1. produced[r] = 0 /\ stream[r] = <<>> /\ r \notin requests /\ r \notin work /\ Staged(r) = {}
    BY DEF IInv, Fresh
  <2> QED BY <1>3, <1>5, <2>1
<1> QED BY <1>10, <1>11, <1>12, <1>14, <1>17, <1>18 DEF IInv

\* stage_events.
LEMMA StageInv ==
    ASSUME IInv, Stage PROVE IInv'
<1>1. /\ worker.pc = "stage" /\ worker \in Workers /\ faults \in Nat
      /\ outbox' = {e \in worker.batch : e.id \in requests}
      /\ requests' = requests \ {e.id : e \in {f \in worker.batch : IsTerminal(f)}}
      /\ UNCHANGED <<clientVars, sharedVars, work, produced, faults>>
      /\ requests \subseteq Requests /\ work \subseteq Requests /\ worker.batch \subseteq Events
  BY WorkerIs DEF IInv, EngineTypes, Stage, WorkerAt
<1>2. PICK place : place = (IF work = {} THEN "flush" ELSE "top")
  OBVIOUS
<1>3. worker' = [worker EXCEPT !.pc = place, !.then = "top", !.batch = {}]
  BY <1>2 DEF Stage
<1>4. /\ worker' \in Workers /\ worker'.pc = place /\ worker'.then = "top" /\ worker'.batch = {}
      /\ worker'.failed = worker.failed /\ worker'.staging = worker.staging
      /\ place \in {"flush", "top"}
  BY <1>1, <1>2, <1>3 DEF Workers, Places
<1>5. worker.staging /\ outbox = {} /\ worker.then # "drop"
  BY <1>1 DEF IInv, Placed
<1>6. Placed' /\ Closing = FALSE /\ Closing' = FALSE
  BY <1>1, <1>4, <1>5 DEF Placed, Closing
<1>7. \A r \in Requests : r \in requests' <=> r \in requests /\ \A e \in Made(r) : ~IsTerminal(e)
  BY <1>1 DEF Made
<1>8. \A r \in Requests : Staged(r) = {} /\ Made(r)' = {}
  BY <1>4, <1>5 DEF Staged, Made
<1>9. \A r \in Requests : Staged(r)' = IF r \in requests THEN Made(r) ELSE {}
  BY <1>1 DEF Staged, Made
<1>10. \A r \in Requests : Consistent(stream[r], flag[r], r \in requests, r \in work, produced[r],
                                      {}, Made(r), FALSE)
  BY <1>6, <1>8 DEF IInv, Tracked
<1>11. StopsClean'
  BY <1>1, <1>4 DEF IInv, StopsClean, clientVars, sharedVars
<1>12. WorkKnown'
  <2>1. \A r \in Requests : r \in work => \A e \in Made(r) : ~IsTerminal(e)
    BY <1>10 DEF Consistent
  <2> QED BY <1>1, <1>4, <1>7, <2>1 DEF IInv, WorkKnown
<1>13. Counted'
  BY <1>1, <1>4, CountedKept DEF clientVars, sharedVars
<1>14. EngineTypes'
  BY <1>1, <1>4 DEF IInv, EngineTypes, clientVars, sharedVars
<1>15. Tracked'
  <2> SUFFICES ASSUME NEW r \in Requests
               PROVE  Consistent(stream[r], flag[r], r \in requests', r \in work, produced[r],
                                 Staged(r)', {}, FALSE)
    BY <1>1, <1>6, <1>8 DEF Tracked, sharedVars
  <2>1. PICK s, fl, known, known2, runs, n, O, B :
           /\ s = stream[r] /\ fl = flag[r] /\ known = (r \in requests) /\ runs = (r \in work)
           /\ known2 = (r \in requests') /\ n = produced[r] /\ O = Staged(r)' /\ B = Made(r)
    OBVIOUS
  <2>2. known \in BOOLEAN /\ known2 \in BOOLEAN /\ runs \in BOOLEAN
    BY <2>1
  <2>3. Consistent(s, fl, known, runs, n, {}, B, FALSE)
    BY <1>10, <2>1
  <2>4. known2 <=> known /\ \A e \in B : ~IsTerminal(e)
    BY <1>7, <2>1
  <2>5. O = IF known THEN B ELSE {}
    BY <1>9, <2>1
  <2>6. Consistent(s, fl, known2, runs, n, O, {}, FALSE)
    BY <2>2, <2>3, <2>4, <2>5, ConsistentStaged
  <2> QED BY <2>1, <2>6
<1>16. Fresh'
  <2> SUFFICES ASSUME NEW r \in Requests, client[r] \in Early \/ Queued(r)
               PROVE  /\ produced[r] = 0 /\ stream[r] = <<>>
                      /\ r \notin requests' /\ r \notin work /\ Staged(r)' = {}
    BY <1>1, <1>8 DEF Fresh, Queued, sharedVars, clientVars
  <2>1. produced[r] = 0 /\ stream[r] = <<>> /\ r \notin requests /\ r \notin work
    BY DEF IInv, Fresh
  <2> QED BY <1>1, <1>9, <2>1
<1> QED BY <1>6, <1>11, <1>12, <1>13, <1>14, <1>15, <1>16 DEF IInv

\* backend.shutdown.
LEMMA CloseInv ==
    ASSUME IInv, Close PROVE IInv'
<1>1. /\ worker.pc = "reject" /\ worker \in Workers /\ faults \in Nat /\ work' = {}
      /\ UNCHANGED <<clientVars, sharedVars, requests, produced, outbox, faults>>
      /\ requests \subseteq Requests /\ work \subseteq Requests
      /\ produced \in [Requests -> 0 .. MaxTokens] /\ MaxTokens \in Nat
      /\ stream \in [Requests -> Seq(Payloads)]
  BY SMTT(30), WorkerIs DEF IInv, EngineTypes, Close, WorkerAt
<1>2. PICK tails \in SUBSET work :
          worker' = [worker EXCEPT !.pc = "publish", !.then = "drop",
                                   !.batch = {Event(r, "token", produced[r] + 1) : r \in tails}
                                             \union {Terminal(r, "cancelled") : r \in work}]
  BY DEF Close
<1>3. PICK made : made = {Event(r, "token", produced[r] + 1) : r \in tails}
                         \union {Terminal(r, "cancelled") : r \in work}
  OBVIOUS
<1>4. worker' = [worker EXCEPT !.pc = "publish", !.then = "drop", !.batch = made]
  BY <1>2, <1>3
<1>5. \A e : e \in made <=> \/ \E r \in tails : e = Event(r, "token", produced[r] + 1)
                            \/ \E r \in work : e = Event(r, "cancelled", produced[r])
  BY <1>3 DEF Terminal
<1>6. made \subseteq Events
  <2> SUFFICES ASSUME NEW e \in made PROVE e \in Events
    OBVIOUS
  <2>1. ASSUME NEW r \in work, NEW k \in Kinds, NEW n \in Counts PROVE Event(r, k, n) \in Events
    BY <1>1 DEF Event, Events
  <2>2. \A r \in work : produced[r] \in Counts /\ produced[r] + 1 \in Counts
    BY <1>1 DEF Counts
  <2>3. "token" \in Kinds /\ "cancelled" \in Kinds
    BY DEF Kinds
  <2> QED BY <1>5, <2>1, <2>2, <2>3
<1>7. /\ worker' \in Workers /\ worker'.pc = "publish" /\ worker'.then = "drop"
      /\ worker'.batch = made
      /\ worker'.failed = worker.failed /\ worker'.staging = worker.staging
  BY <1>1, <1>4, <1>6 DEF Workers, Places
<1>8. worker.batch = {} /\ outbox = {} /\ worker.then # "drop"
  BY <1>1 DEF IInv, Placed
<1>9. Placed' /\ Closing = FALSE /\ Closing' = TRUE
  BY <1>1, <1>7, <1>8 DEF Placed, Closing
<1>10. StopsClean' /\ WorkKnown'
  BY <1>1, <1>7 DEF IInv, StopsClean, WorkKnown, clientVars, sharedVars
<1>11. Counted'
  BY <1>1, <1>7, CountedKept DEF clientVars, sharedVars
<1>12. EngineTypes'
  BY <1>1, <1>7 DEF IInv, EngineTypes, clientVars, sharedVars
<1>13. \A r \in Requests : /\ Staged(r) = {} /\ Staged(r)' = {} /\ Made(r) = {}
                           /\ Made(r)' = {e \in made : e.id = r}
  BY <1>1, <1>7, <1>8 DEF Staged, Made
<1>14. \A r \in Requests : CloseMakes(Made(r)', r, produced[r], r \in work, r \in tails)
  <2> SUFFICES ASSUME NEW r \in Requests, NEW f
               PROVE  f \in Made(r)' <=> /\ r \in work
                                         /\ \/ f = Event(r, "cancelled", produced[r])
                                            \/ r \in tails /\ f = Event(r, "token", produced[r] + 1)
    BY DEF CloseMakes
  <2>1. f \in Made(r)' <=> f \in made /\ f.id = r
    BY <1>13
  <2>2. \A q, k, n : f = Event(q, k, n) => f.id = q
    BY DEF Event
  <2>3. \A q : f = Event(q, "token", produced[q] + 1) \/ f = Event(q, "cancelled", produced[q]) => f.id = q
    BY <2>2
  <2> QED BY <1>5, <2>1, <2>3
<1>15. Tracked'
  <2> SUFFICES ASSUME NEW r \in Requests
               PROVE  Consistent(stream[r], flag[r], r \in requests, r \in work', produced[r],
                                 {}, Made(r)', TRUE)
    BY <1>1, <1>9, <1>13 DEF Tracked, sharedVars
  <2>7. (r \in work') = FALSE
    BY <1>1
  <2>1. PICK s, fl, known, runs, tail, n, B :
           /\ s = stream[r] /\ fl = flag[r] /\ known = (r \in requests) /\ runs = (r \in work)
           /\ tail = (r \in tails) /\ n = produced[r] /\ B = Made(r)'
    OBVIOUS
  <2>2. known \in BOOLEAN /\ tail \in BOOLEAN /\ runs \in BOOLEAN
    BY <2>1
  <2>3. Consistent(s, fl, known, runs, n, {}, {}, FALSE)
    BY <1>9, <1>13, <2>1 DEF IInv, Tracked
  <2>4. CloseMakes(B, r, n, runs, tail)
    BY <1>14, <2>1
  <2>5. Typed(r, s, n, {}, {})
    BY <1>1, <2>1 DEF Typed
  <2>6. Consistent(s, fl, known, FALSE, n, {}, B, TRUE)
    BY <2>2, <2>3, <2>4, <2>5, ConsistentClosed
  <2> QED BY <2>1, <2>6, <2>7
<1>16. Fresh'
  <2> SUFFICES ASSUME NEW r \in Requests, client[r] \in Early \/ Queued(r)
               PROVE  /\ produced[r] = 0 /\ stream[r] = <<>> /\ r \notin requests /\ Made(r)' = {}
    BY <1>1, <1>13 DEF Fresh, Queued, sharedVars, clientVars
  <2>1. produced[r] = 0 /\ stream[r] = <<>> /\ r \notin requests /\ r \notin work
    BY DEF IInv, Fresh
  <2> QED BY <1>14, <2>1 DEF CloseMakes
<1> QED BY SMTT(30), <1>9, <1>10, <1>11, <1>12, <1>15, <1>16 DEF IInv

-----------------------------------------------------------------------------
(* The worker sends one event. *)

\* try_send of e to a request, with and without room in its channel.
Sends(e, s, fl, room, s2, fl2) ==
    /\ s2 = IF room THEN Append(s, Payload(e)) ELSE s
    /\ fl2 = IF IsTerminal(e) THEN "terminal" ELSE IF ~room /\ fl = "live" THEN "cancelling" ELSE fl

\* e is the first event of B that is sent.
Leads(e, B) == \A f \in B : f # e => IsTerminal(f) \/ (~IsTerminal(e) /\ e.n < f.n)

\* publish_events and deliver_staged_events, for the request of the event.
PublishOne(e, s, fl, known, O, B, room, s2, fl2, known2, B2) ==
    /\ O = {} /\ e \in B /\ Leads(e, B) /\ B2 = B \ {e}
    /\ known2 <=> known /\ ~IsTerminal(e)
    /\ IF ~known \/ (~IsTerminal(e) /\ fl \in {"cancelled", "cancelling"})
       THEN s2 = s /\ fl2 = fl ELSE Sends(e, s, fl, room, s2, fl2)

DeliverOne(e, s, fl, O, room, s2, fl2, O2) ==
    /\ e \in O /\ Leads(e, O) /\ O2 = O \ {e}
    /\ IF ~IsTerminal(e) /\ fl # "live" THEN s2 = s /\ fl2 = fl ELSE Sends(e, s, fl, room, s2, fl2)

\* What module RequestStream allows an event e to do to a channel, some sender of which
\* exists afterwards if alive.
Allowed(e, s, s2, alive) ==
    \/ s2 = s
    \/ ~Ended(s) /\ s2 = Append(s, [kind |-> "token", n |-> Len(s) + 1]) /\ alive
    \/ /\ ~Ended(s) /\ s2 = Append(s, Payload(e)) /\ IsTerminal(e)
       /\ e.kind = "finished" => Len(s) <= e.n

\* An event that is published.
LEMMA PublishOneConsistent ==
    ASSUME NEW r, NEW s, NEW fl \in Flags, NEW known \in BOOLEAN, NEW runs \in BOOLEAN, NEW n, NEW O, NEW B,
           NEW closing \in BOOLEAN, Typed(r, s, n, O, B),
           Consistent(s, fl, known, runs, n, O, B, closing),
           NEW e, NEW room \in BOOLEAN, NEW s2, NEW fl2, NEW known2 \in BOOLEAN, NEW B2,
           PublishOne(e, s, fl, known, O, B, room, s2, fl2, known2, B2)
    PROVE  /\ Consistent(s2, fl2, known2, runs, n, O, B2, closing)
           /\ Allowed(e, s, s2, known2) /\ (s2 # s => known)
           /\ known /\ runs => known2
<1>1. /\ O = {} /\ e \in B /\ Leads(e, B) /\ B2 = B \ {e} /\ B2 \in SUBSET B
      /\ known2 <=> known /\ ~IsTerminal(e)
  BY DEF PublishOne
<1>2. IsTerminal(e) => ~runs
  BY <1>1 DEF Consistent
<1>3. e \in B /\ O \in SUBSET O /\ B2 \in SUBSET B /\ \A f \in B \ B2 : f = e
  BY <1>1
<1>4. CASE ~known
  <2>1. s2 = s /\ fl2 = fl /\ known2 = known
    BY <1>1, <1>4 DEF PublishOne
  <2>2. Consistent(s, fl, known, runs, n, O, B2, closing)
    BY <1>1, <1>4, ConsistentDropped
  <2> QED BY <1>4, <2>1, <2>2 DEF Allowed
<1>5. CASE known /\ ~IsTerminal(e) /\ fl # "live"
  <2>1. fl # "terminal"
    BY <1>5 DEF Consistent
  <2>2. fl \in {"cancelled", "cancelling"}
    BY <1>5, <2>1 DEF Flags
  <2>3. s2 = s /\ fl2 = fl /\ known2 = known
    BY <1>1, <1>5, <2>2 DEF PublishOne
  <2>4. /\ O \in SUBSET O /\ B2 \in SUBSET B /\ (known => \A f \in B \ B2 : ~IsTerminal(f))
        /\ (known => fl # "terminal") /\ fl # "live"
    BY <1>3, <1>5, <2>1
  <2>5. Consistent(s, fl, known, runs, n, O, B2, closing)
    BY <2>4, ConsistentDropped
  <2> QED BY <1>5, <2>3, <2>5 DEF Allowed
<1>6. CASE known /\ ~IsTerminal(e) /\ fl = "live"
  <2>1. Sends(e, s, fl, room, s2, fl2) /\ known2 = known
    BY <1>1, <1>6 DEF PublishOne
  <2>2. CASE room
    <3>1. s2 = Append(s, Payload(e)) /\ fl2 = "live"
      BY <1>6, <2>1, <2>2 DEF Sends
    <3>2. /\ Payload(e) = [kind |-> "token", n |-> Len(s) + 1] /\ ~Ended(s)
          /\ Consistent(Append(s, Payload(e)), "live", known, runs, n, O, B2, closing)
      <4>1. \A f \in B : f # e => IsTerminal(f) \/ e.n < f.n
        BY <1>1 DEF Leads
      <4>2. /\ Consistent(s, "live", known, runs, n, O, B, closing) /\ ~IsTerminal(e)
            /\ known \/ O # {}
        BY <1>6
      <4>3. Takes(e, O, B, O, B2)
        BY <1>1, <4>1 DEF Takes
      <4> QED BY <4>2, <4>3, ConsistentSent
    <3> QED BY <1>6, <2>1, <3>1, <3>2 DEF Allowed
  <2>3. CASE ~room
    <3>1. s2 = s /\ fl2 = "cancelling"
      BY <1>6, <2>1, <2>3 DEF Sends
    <3>2. O \in SUBSET O /\ B2 \in SUBSET B /\ (known => \A f \in B \ B2 : ~IsTerminal(f))
      BY <1>3, <1>6
    <3>3. Consistent(s, "cancelling", known, runs, n, O, B2, closing)
      BY <3>2, ConsistentDropped
    <3> QED BY <1>6, <2>1, <3>1, <3>3 DEF Allowed
  <2> QED BY <2>2, <2>3
<1>7. CASE known /\ IsTerminal(e)
  <2>1. /\ s2 \in {s, Append(s, Payload(e))} /\ fl2 = "terminal" /\ known2 = FALSE
    BY <1>1, <1>7 DEF PublishOne, Sends
  <2>2. Consistent(s, fl, TRUE, runs, n, O, B, closing)
    BY <1>7
  <2>3. /\ ~Ended(s) /\ (e.kind = "finished" => Len(s) <= e.n)
        /\ Consistent(s2, "terminal", FALSE, runs, n, O, B \ {e}, closing)
    <3>1. Consistent(s, fl, TRUE, runs, n, {}, B, closing) /\ e \in B /\ IsTerminal(e)
      BY <1>1, <1>7, <2>2
    <3>2. /\ ~Ended(s) /\ (e.kind = "finished" => Len(s) <= e.n)
          /\ Consistent(s2, "terminal", FALSE, runs, n, {}, B \ {e}, closing)
      BY <3>1 DEF Consistent
    <3> QED BY <1>1, <3>2
  <2> QED BY <1>1, <1>2, <1>7, <2>1, <2>3 DEF Allowed
<1> QED BY <1>4, <1>5, <1>6, <1>7

\* An event that is delivered.
LEMMA DeliverOneConsistent ==
    ASSUME NEW r, NEW s, NEW fl \in Flags, NEW known \in BOOLEAN, NEW runs \in BOOLEAN, NEW n,
           NEW O, NEW B, NEW closing \in BOOLEAN, Typed(r, s, n, O, B),
           Consistent(s, fl, known, runs, n, O, B, closing),
           NEW e, NEW room \in BOOLEAN, NEW s2, NEW fl2, NEW O2,
           DeliverOne(e, s, fl, O, room, s2, fl2, O2)
    PROVE  /\ Consistent(s2, fl2, known, runs, n, O2, B, closing)
           /\ Allowed(e, s, s2, known \/ O2 # {})
<1>1. e \in O /\ Leads(e, O) /\ O2 = O \ {e} /\ O2 \in SUBSET O /\ B \in SUBSET B
  BY DEF DeliverOne
<1>2. CASE ~IsTerminal(e) /\ fl # "live"
  <2>1. s2 = s /\ fl2 = fl /\ (known => fl # "terminal")
    BY <1>2 DEF DeliverOne, Consistent
  <2>2. Consistent(s, fl, known, runs, n, O2, B, closing)
    BY <1>1, <1>2, <2>1, ConsistentDropped
  <2> QED BY <2>1, <2>2 DEF Allowed
<1>3. CASE ~IsTerminal(e) /\ fl = "live"
  <2>1. Sends(e, s, fl, room, s2, fl2)
    BY <1>3 DEF DeliverOne
  <2>2. CASE room
    <3>1. s2 = Append(s, Payload(e)) /\ fl2 = "live"
      BY <1>3, <2>1, <2>2 DEF Sends
    <3>2. /\ Payload(e) = [kind |-> "token", n |-> Len(s) + 1] /\ ~Ended(s)
          /\ known \/ O2 # {}
          /\ Consistent(Append(s, Payload(e)), "live", known, runs, n, O2, B, closing)
      <4>1. \A f \in O : f # e => IsTerminal(f) \/ e.n < f.n
        BY <1>1 DEF Leads
      <4>2. Consistent(s, "live", known, runs, n, O, B, closing)
        BY <1>3
      <4>3. Takes(e, O, B, O2, B) /\ O # {}
        BY <1>1, <4>1 DEF Takes
      <4> QED BY <1>3, <4>2, <4>3, ConsistentSent
    <3> QED BY <3>1, <3>2 DEF Allowed
  <2>3. CASE ~room
    <3>1. s2 = s /\ fl2 = "cancelling"
      BY <1>3, <2>1, <2>3 DEF Sends
    <3>2. Consistent(s, "cancelling", known, runs, n, O2, B, closing)
      BY <1>1, <1>3, ConsistentDropped
    <3> QED BY <3>1, <3>2 DEF Allowed
  <2> QED BY <2>2, <2>3
<1>4. CASE IsTerminal(e)
  <2>1. /\ s2 \in {s, Append(s, Payload(e))} /\ fl2 = "terminal"
    BY <1>4 DEF DeliverOne, Sends
  <2>2. /\ ~Ended(s) /\ (e.kind = "finished" => Len(s) <= e.n)
        /\ Consistent(s2, "terminal", known, runs, n, O \ {e}, B, closing)
    BY <1>1, <1>4, ConsistentDelivered
  <2> QED BY <1>1, <1>4, <2>1, <2>2 DEF Allowed
<1> QED BY <1>2, <1>3, <1>4

\* A step of the worker that only touches one request, some event of which is pending.
LEMMA OneInv ==
    ASSUME IInv, NEW r \in Requests,
           UNCHANGED <<client, queue, waiting, lifecycle, receiver, caller, work, produced, faults>>,
           worker' \in Workers, worker'.pc = worker.pc, worker'.then = worker.then,
           worker'.failed = worker.failed, worker'.staging = worker.staging,
           worker'.batch \subseteq worker.batch, outbox' \subseteq outbox, requests' \subseteq requests,
           stream' \in [Requests -> Seq(Payloads)], flag' \in [Requests -> Flags],
           worker.pc \in {"publish", "flush"},
           \A q \in Requests \ {r} :
              /\ stream'[q] = stream[q] /\ flag'[q] = flag[q] /\ (q \in requests' <=> q \in requests)
              /\ Staged(q)' = Staged(q) /\ Made(q)' = Made(q),
           Staged(r) # {} \/ Made(r) # {},
           Consistent(stream'[r], flag'[r], r \in requests', r \in work, produced[r],
                      Staged(r)', Made(r)', Closing),
           r \in work /\ r \in requests => r \in requests'
    PROVE  IInv'
<1>1. EngineTypes'
  BY DEF IInv, EngineTypes
<1>2. Counted'
  BY CountedKept
<1>3. Placed' /\ StopsClean'
  BY DEF IInv, Placed, StopsClean
<1>4. WorkKnown'
  BY DEF IInv, EngineTypes, WorkKnown
<1>5. Closing' = Closing
  BY DEF Closing
<1>6. Tracked'
  <2> SUFFICES ASSUME NEW q \in Requests
               PROVE  Consistent(stream'[q], flag'[q], q \in requests', q \in work, produced[q],
                                 Staged(q)', Made(q)', Closing)
    BY <1>5 DEF Tracked
  <2>1. CASE q = r
    BY <2>1
  <2>2. CASE q # r
    <3>1. Consistent(stream[q], flag[q], q \in requests, q \in work, produced[q],
                     Staged(q), Made(q), Closing)
      BY DEF IInv, Tracked
    <3>2. (q \in requests') = (q \in requests)
      BY <2>2
    <3> QED BY <2>2, <3>1, <3>2
  <2> QED BY <2>1, <2>2
<1>7. Fresh'
  <2> SUFFICES ASSUME NEW q \in Requests, client[q] \in Early \/ Queued(q)
               PROVE  /\ produced[q] = 0 /\ stream'[q] = <<>>
                      /\ q \notin requests' /\ q \notin work /\ Staged(q)' = {} /\ Made(q)' = {}
    BY DEF Fresh, Queued
  <2>1. /\ produced[q] = 0 /\ stream[q] = <<>> /\ q \notin requests /\ q \notin work
        /\ Staged(q) = {} /\ Made(q) = {}
    BY DEF IInv, Fresh
  <2> QED BY <2>1
<1> QED BY <1>1, <1>2, <1>3, <1>4, <1>6, <1>7 DEF IInv

\* TrySend, for the request of the event and for the others.
LEMMA TrySendIs ==
    ASSUME IInv, NEW e \in Events, TrySend(e)
    PROVE  /\ stream' \in [Requests -> Seq(Payloads)] /\ flag' \in [Requests -> Flags]
           /\ \A q \in Requests \ {e.id} : stream'[q] = stream[q] /\ flag'[q] = flag[q]
           /\ Sends(e, stream[e.id], flag[e.id], Room(e.id), stream'[e.id], flag'[e.id])
<1>1. PICK r : r = e.id
  OBVIOUS
<1>2. PICK p : p = Payload(e)
  OBVIOUS
<1>3. PICK room : room = Room(r)
  OBVIOUS
<1>4. /\ r \in Requests /\ p \in Payloads /\ room \in BOOLEAN
  BY <1>1, <1>2, <1>3 DEF Events, Payload, Payloads, Room, Listening
<1>5. stream \in [Requests -> Seq(Payloads)] /\ flag \in [Requests -> Flags]
  BY DEF IInv, EngineTypes
<1>6. PICK x : x = IF IsTerminal(e) THEN "terminal"
                   ELSE IF ~room /\ flag[r] = "live" THEN "cancelling" ELSE flag[r]
  OBVIOUS
<1>7. flag' = [flag EXCEPT ![r] = x] /\ x \in Flags
  BY <1>1, <1>3, <1>4, <1>5, <1>6 DEF TrySend, Flags
<1>8. stream' = IF room THEN [stream EXCEPT ![r] = Append(stream[r], p)] ELSE stream
  BY <1>1, <1>2, <1>3 DEF TrySend, Sent
<1>9. Append(stream[r], p) \in Seq(Payloads)
  BY <1>4, <1>5, AppendProperties
<1>10. /\ stream' \in [Requests -> Seq(Payloads)] /\ flag' \in [Requests -> Flags]
       /\ \A q \in Requests \ {r} : stream'[q] = stream[q] /\ flag'[q] = flag[q]
       /\ stream'[r] = (IF room THEN Append(stream[r], p) ELSE stream[r]) /\ flag'[r] = x
  BY <1>4, <1>5, <1>7, <1>8, <1>9
<1> QED BY <1>1, <1>2, <1>3, <1>6, <1>10 DEF Sends

\* One event of publish_events: the channel of its request sees what RequestStream allows.
LEMMA PublishInv ==
    ASSUME IInv, NEW e \in worker.batch, Publish(e)
    PROVE  /\ IInv'
           /\ e \in Events /\ \A q \in Requests \ {e.id} : stream'[q] = stream[q]
           /\ Allowed(e, stream[e.id], stream'[e.id], e.id \in requests')
           /\ stream'[e.id] # stream[e.id] => e.id \in requests
<1>1. /\ worker.pc = "publish" /\ First(e, worker.batch) /\ worker \in Workers
      /\ requests' = IF IsTerminal(e) THEN requests \ {e.id} ELSE requests
      /\ UNCHANGED <<clientVars, lifecycle, queue, receiver, waiting, work, produced, outbox, faults>>
      /\ worker.batch \subseteq Events /\ e \in Events
  BY WorkerIs DEF Publish, WorkerAt
<1>2. PICK r : r = e.id
  OBVIOUS
<1>3. r \in Requests
  BY <1>1, <1>2 DEF Events
<1>4. PICK slow : slow = IF SkipsPublish(e) THEN worker.slow ELSE SlowAfter(e)
  OBVIOUS
<1>5. slow \subseteq Requests
  <2>1. worker.slow \subseteq Requests
    BY <1>1 DEF Workers
  <2> QED BY <1>2, <1>3, <1>4, <2>1 DEF SlowAfter
<1>6. PICK batch : batch = worker.batch \ {e}
  OBVIOUS
<1>7. worker' = [worker EXCEPT !.batch = batch, !.slow = slow]
  BY <1>4, <1>6 DEF Publish
<1>8. /\ worker' \in Workers /\ worker'.pc = worker.pc /\ worker'.then = worker.then
      /\ worker'.failed = worker.failed /\ worker'.staging = worker.staging
      /\ worker'.batch = batch
  BY <1>1, <1>5, <1>6, <1>7 DEF Workers
<1>9. outbox = {}
  BY <1>1 DEF IInv, Placed
<1>10. /\ stream \in [Requests -> Seq(Payloads)] /\ flag \in [Requests -> Flags]
       /\ requests \subseteq Requests /\ produced \in [Requests -> 0 .. MaxTokens]
  BY DEF IInv, EngineTypes
<1>11. /\ stream' \in [Requests -> Seq(Payloads)] /\ flag' \in [Requests -> Flags]
       /\ \A q \in Requests \ {r} : stream'[q] = stream[q] /\ flag'[q] = flag[q]
       /\ IF SkipsPublish(e) THEN stream'[r] = stream[r] /\ flag'[r] = flag[r]
          ELSE Sends(e, stream[r], flag[r], Room(r), stream'[r], flag'[r])
  <2>1. CASE SkipsPublish(e)
    <3>1. stream' = stream /\ flag' = flag
      BY <2>1 DEF Publish
    <3> QED BY <1>10, <2>1, <3>1
  <2>2. CASE ~SkipsPublish(e)
    <3>1. TrySend(e)
      BY <2>2 DEF Publish
    <3> QED BY <1>1, <1>2, <2>2, <3>1, TrySendIs
  <2> QED BY <2>1, <2>2
<1>12. \A q \in Requests : Staged(q)' = {} /\ Staged(q) = {}
  BY <1>1, <1>9 DEF Staged
<1>13. /\ \A q \in Requests \ {r} : Made(q)' = Made(q)
       /\ Made(r)' = Made(r) \ {e} /\ e \in Made(r)
  BY <1>2, <1>6, <1>8 DEF Made
<1>14. /\ requests' \subseteq requests
       /\ \A q \in Requests \ {r} : q \in requests' <=> q \in requests
       /\ r \in requests' <=> r \in requests /\ ~IsTerminal(e)
  BY <1>1, <1>2
<1>15. PICK s, fl, known, runs, n, O, B, c, room, s2, fl2, known2, B2 :
          /\ s = stream[r] /\ fl = flag[r] /\ known = (r \in requests) /\ runs = (r \in work)
          /\ n = produced[r] /\ O = Staged(r) /\ B = Made(r) /\ c = Closing /\ room = Room(r)
          /\ s2 = stream'[r] /\ fl2 = flag'[r] /\ known2 = (r \in requests') /\ B2 = Made(r)'
  OBVIOUS
<1>16. /\ known \in BOOLEAN /\ runs \in BOOLEAN /\ c \in BOOLEAN /\ room \in BOOLEAN
       /\ known2 \in BOOLEAN /\ fl \in Flags
  <2>1. Room(r) \in BOOLEAN /\ Closing \in BOOLEAN
    BY DEF Room, Listening, Closing
  <2> QED BY <1>3, <1>10, <1>15, <2>1
<1>17. Consistent(s, fl, known, runs, n, O, B, c)
  BY <1>3, <1>15 DEF IInv, Tracked
<1>18. Typed(r, s, n, O, B)
  <2>1. B \subseteq EventsOf(r)
    BY <1>1, <1>15 DEF Made, Events, EventsOf
  <2>2. O = {} /\ s \in Seq(Payloads) /\ n \in 0 .. MaxTokens
    BY <1>3, <1>10, <1>12, <1>15
  <2> QED BY <2>1, <2>2 DEF Typed
<1>19. PublishOne(e, s, fl, known, O, B, room, s2, fl2, known2, B2)
  <2>1. Leads(e, B)
    BY <1>1, <1>2, <1>15 DEF First, Leads, Made
  <2>2. O = {} /\ e \in B /\ B2 = B \ {e} /\ (known2 <=> known /\ ~IsTerminal(e))
    BY <1>3, <1>12, <1>13, <1>14, <1>15
  <2>3. SkipsPublish(e) <=> ~known \/ (~IsTerminal(e) /\ fl \in {"cancelled", "cancelling"})
    BY <1>2, <1>15 DEF SkipsPublish
  <2>4. IF SkipsPublish(e) THEN s2 = s /\ fl2 = fl ELSE Sends(e, s, fl, room, s2, fl2)
    BY <1>11, <1>15
  <2> QED BY <2>1, <2>2, <2>3, <2>4 DEF PublishOne
<1>20. /\ Consistent(s2, fl2, known2, runs, n, O, B2, c)
       /\ Allowed(e, s, s2, known2) /\ (s2 # s => known)
       /\ known /\ runs => known2
  BY <1>16, <1>17, <1>18, <1>19, PublishOneConsistent
<1>21. Staged(r)' = Staged(r)
  BY <1>3, <1>12
<1>22. /\ Consistent(stream'[r], flag'[r], r \in requests', r \in work, produced[r],
                     Staged(r)', Made(r)', Closing)
       /\ r \in work /\ r \in requests => r \in requests'
  BY <1>15, <1>20, <1>21
<1>23. IInv'
  <2>1. /\ worker'.batch \subseteq worker.batch /\ outbox' \subseteq outbox
        /\ UNCHANGED <<client, queue, waiting, lifecycle, receiver, caller, work, produced, faults>>
        /\ worker.pc \in {"publish", "flush"} /\ Made(r) # {}
    BY <1>1, <1>6, <1>8, <1>13 DEF clientVars
  <2>2. \A q \in Requests \ {r} :
              /\ stream'[q] = stream[q] /\ flag'[q] = flag[q] /\ (q \in requests' <=> q \in requests)
              /\ Staged(q)' = Staged(q) /\ Made(q)' = Made(q)
    BY <1>11, <1>12, <1>13, <1>14
  <2> QED BY <1>3, <1>8, <1>11, <1>14, <1>22, <2>1, <2>2, OneInv
<1> QED BY <1>1, <1>2, <1>11, <1>15, <1>20, <1>23

\* One event of deliver_staged_events, likewise.
LEMMA DeliverInv ==
    ASSUME IInv, NEW e \in outbox, Deliver(e)
    PROVE  /\ IInv'
           /\ e \in Events /\ \A q \in Requests \ {e.id} : stream'[q] = stream[q]
           /\ Allowed(e, stream[e.id], stream'[e.id], e.id \in requests \/ Staged(e.id)' # {})
<1>1. /\ worker.pc = "flush" /\ First(e, outbox) /\ worker \in Workers
      /\ outbox' = outbox \ {e}
      /\ UNCHANGED <<clientVars, lifecycle, queue, receiver, waiting, requests, work, produced, faults>>
      /\ outbox \subseteq Events /\ worker.batch \subseteq Events /\ e \in Events
  BY WorkerIs DEF Deliver, WorkerAt, IInv, EngineTypes
<1>2. PICK r : r = e.id
  OBVIOUS
<1>3. r \in Requests
  BY <1>1, <1>2 DEF Events
<1>4. PICK slow : slow = IF SkipsDelivery(e) THEN worker.slow ELSE SlowAfter(e)
  OBVIOUS
<1>5. slow \subseteq Requests
  <2>1. worker.slow \subseteq Requests
    BY <1>1 DEF Workers
  <2> QED BY <1>2, <1>3, <1>4, <2>1 DEF SlowAfter
<1>6. worker' = [worker EXCEPT !.slow = slow]
  BY <1>4 DEF Deliver
<1>7. /\ worker' \in Workers /\ worker'.pc = worker.pc /\ worker'.then = worker.then
      /\ worker'.failed = worker.failed /\ worker'.staging = worker.staging
      /\ worker'.batch = worker.batch
  BY <1>1, <1>5, <1>6 DEF Workers
<1>8. /\ stream \in [Requests -> Seq(Payloads)] /\ flag \in [Requests -> Flags]
      /\ requests \subseteq Requests /\ produced \in [Requests -> 0 .. MaxTokens]
  BY DEF IInv, EngineTypes
<1>9. /\ stream' \in [Requests -> Seq(Payloads)] /\ flag' \in [Requests -> Flags]
      /\ \A q \in Requests \ {r} : stream'[q] = stream[q] /\ flag'[q] = flag[q]
      /\ IF SkipsDelivery(e) THEN stream'[r] = stream[r] /\ flag'[r] = flag[r]
         ELSE Sends(e, stream[r], flag[r], Room(r), stream'[r], flag'[r])
  <2>1. CASE SkipsDelivery(e)
    <3>1. stream' = stream /\ flag' = flag
      BY <2>1 DEF Deliver
    <3> QED BY <1>8, <2>1, <3>1
  <2>2. CASE ~SkipsDelivery(e)
    <3>1. TrySend(e)
      BY <2>2 DEF Deliver
    <3> QED BY <1>1, <1>2, <2>2, <3>1, TrySendIs
  <2> QED BY <2>1, <2>2
<1>10. \A q \in Requests : Made(q)' = Made(q)
  BY <1>7 DEF Made
<1>11. /\ \A q \in Requests \ {r} : Staged(q)' = Staged(q)
       /\ Staged(r)' = Staged(r) \ {e} /\ e \in Staged(r)
  BY <1>1, <1>2 DEF Staged
<1>12. PICK s, fl, known, runs, n, O, B, c, room, s2, fl2, O2 :
          /\ s = stream[r] /\ fl = flag[r] /\ known = (r \in requests) /\ runs = (r \in work)
          /\ n = produced[r] /\ O = Staged(r) /\ B = Made(r) /\ c = Closing /\ room = Room(r)
          /\ s2 = stream'[r] /\ fl2 = flag'[r] /\ O2 = Staged(r)'
  OBVIOUS
<1>13. /\ known \in BOOLEAN /\ runs \in BOOLEAN /\ c \in BOOLEAN /\ room \in BOOLEAN
       /\ fl \in Flags
  <2>1. Room(r) \in BOOLEAN /\ Closing \in BOOLEAN
    BY DEF Room, Listening, Closing
  <2> QED BY <1>3, <1>8, <1>12, <2>1
<1>14. Consistent(s, fl, known, runs, n, O, B, c)
  BY <1>3, <1>12 DEF IInv, Tracked
<1>15. Typed(r, s, n, O, B)
  <2>1. B \subseteq EventsOf(r) /\ O \subseteq EventsOf(r)
    BY <1>1, <1>12 DEF Made, Staged, Events, EventsOf
  <2>2. s \in Seq(Payloads) /\ n \in 0 .. MaxTokens
    BY <1>3, <1>8, <1>12
  <2> QED BY <2>1, <2>2 DEF Typed
<1>16. DeliverOne(e, s, fl, O, room, s2, fl2, O2)
  <2>1. Leads(e, O)
    BY <1>1, <1>2, <1>12 DEF First, Leads, Staged
  <2>2. e \in O /\ O2 = O \ {e}
    BY <1>11, <1>12
  <2>3. SkipsDelivery(e) <=> ~IsTerminal(e) /\ fl # "live"
    BY <1>2, <1>12 DEF SkipsDelivery
  <2>4. IF SkipsDelivery(e) THEN s2 = s /\ fl2 = fl ELSE Sends(e, s, fl, room, s2, fl2)
    BY <1>9, <1>12
  <2> QED BY <2>1, <2>2, <2>3, <2>4 DEF DeliverOne
<1>17. /\ Consistent(s2, fl2, known, runs, n, O2, B, c)
       /\ Allowed(e, s, s2, known \/ O2 # {})
  BY <1>13, <1>14, <1>15, <1>16, DeliverOneConsistent
<1>18. (r \in requests') = known /\ Made(r)' = B
  BY <1>1, <1>3, <1>10, <1>12
<1>19. Consistent(stream'[r], flag'[r], r \in requests', r \in work, produced[r],
                  Staged(r)', Made(r)', Closing)
  BY <1>12, <1>17, <1>18
<1>20. IInv'
  <2>1. /\ worker'.batch \subseteq worker.batch /\ outbox' \subseteq outbox
        /\ UNCHANGED <<client, queue, waiting, lifecycle, receiver, caller, work, produced, faults>>
        /\ worker.pc \in {"publish", "flush"} /\ Staged(r) # {}
        /\ requests' \subseteq requests /\ (r \in work /\ r \in requests => r \in requests')
    BY <1>1, <1>7, <1>11 DEF clientVars
  <2>2. \A q \in Requests \ {r} :
              /\ stream'[q] = stream[q] /\ flag'[q] = flag[q] /\ (q \in requests' <=> q \in requests)
              /\ Staged(q)' = Staged(q) /\ Made(q)' = Made(q)
    BY <1>1, <1>9, <1>10, <1>11
  <2> QED BY <1>3, <1>7, <1>9, <1>19, <2>1, <2>2, OneInv
<1> QED BY <1>1, <1>2, <1>9, <1>12, <1>17, <1>20

-----------------------------------------------------------------------------
(* The books. *)

\* The invariant holds at first.
LEMMA InitInv ==
    ASSUME Init PROVE IInv
<1>1. PICK staging \in PublishAfterSubmit :
          worker = [pc |-> "starting", then |-> "top", batch |-> {}, slow |-> {},
                    received |-> FALSE, failed |-> FALSE, staging |-> staging]
  BY DEF Init
<1>2. staging \in BOOLEAN /\ MaxTokens \in Nat
  BY ConfigAssumption
<1>3. /\ worker \in Workers /\ worker.pc = "starting" /\ worker.then = "top" /\ worker.batch = {}
      /\ worker.failed = FALSE
  BY <1>1, <1>2 DEF Workers, Places
<1>4. <<>> \in Seq(Requests \cup {Wake}) /\ <<>> \in Seq(Payloads) /\ DOMAIN <<>> = {}
  BY EmptySeq
<1>5. EngineTypes
  BY <1>2, <1>3, <1>4 DEF Init, EngineTypes, Flags, Clients, Early
<1>6. \A r \in Requests : ~Queued(r) /\ client[r] = "idle"
  BY <1>4 DEF Init, Queued
<1>7. Counted
  <2>1. Undecided = {} /\ InQueue = {}
    BY <1>6 DEF Undecided, InQueue
  <2>2. waiting = Cardinality(Undecided) + Cardinality(InQueue)
    BY <2>1, FS_EmptySet DEF Init
  <2>3. WaitingExact
    BY <2>2 DEF WaitingExact, Undecided, InQueue
  <2> QED BY <1>4, <1>6, <2>3 DEF Init, Counted
<1>8. Placed /\ StopsClean /\ WorkKnown
  BY <1>3 DEF Init, Placed, StopsClean, WorkKnown
<1>9. \A r \in Requests : Staged(r) = {} /\ Made(r) = {}
  BY <1>3 DEF Init, Staged, Made
<1>10. Fresh
  BY <1>9 DEF Init, Fresh
<1>11. Tracked
  <2> SUFFICES ASSUME NEW r \in Requests
               PROVE  Consistent(stream[r], flag[r], r \in requests, r \in work, produced[r],
                                 Staged(r), Made(r), Closing)
    BY DEF Tracked
  <2>1. /\ stream[r] = <<>> /\ (r \in requests) = FALSE /\ (r \in work) = FALSE /\ produced[r] = 0
        /\ Staged(r) = {} /\ Made(r) = {} /\ Closing \in BOOLEAN
    BY <1>9 DEF Init, Closing
  <2>2. PICK fl, c : fl = flag[r] /\ c = Closing
    OBVIOUS
  <2>3. Consistent(<<>>, fl, FALSE, FALSE, 0, {}, {}, c)
    BY <2>1, <2>2, ConsistentAtFirst
  <2> QED BY <2>1, <2>2, <2>3
<1> QED BY <1>5, <1>7, <1>8, <1>10, <1>11 DEF IInv

\* Every step keeps the invariant.
LEMMA NextInv ==
    ASSUME IInv, [Next]_vars PROVE IInv'
<1>1. CASE OwnerNext
  BY <1>1, OwnerInv
<1>2. CASE \E r \in Requests : ClientNext(r)
  BY <1>2, WaitingInv, FlagInv, SubmitCountInv, SubmitUndoInv, SubmitSendInv DEF ClientNext
<1>3. CASE WorkerNext
  <2>1. CASE WorkerStart \/ Top \/ NoCommand \/ IdleTimeout \/ StepFails \/ CloseFails \/ Store
             \/ Exit \/ Return
    BY <2>1, WorkerStartInv, TopInv, NoCommandInv, StepFailsInv, CloseFailsInv, StoreInv, ExitReturnInv
  <2>2. CASE TakeCommand \/ IdleCommand \/ Reject
    BY <2>2, TakeCommandInv, RejectInv
  <2>3. CASE ProcessCancellations \/ CancellationFails \/ Abort \/ Drop \/ CancelSlow
    BY <2>3, CancellationsInv, CancellationFailsInv, FailRemainingInv, CancelSlowInv
  <2>4. CASE Step \/ Stage \/ Close
    BY <2>4, StepInv, StageInv, CloseInv
  <2>5. CASE \E e \in worker.batch : Publish(e)
    BY <2>5, PublishInv
  <2>6. CASE \E e \in outbox : Deliver(e)
    BY <2>6, DeliverInv
  <2> QED BY <1>3, <2>1, <2>2, <2>3, <2>4, <2>5, <2>6 DEF WorkerNext
<1>4. CASE UNCHANGED vars
  <2>1. /\ EngineTypes' /\ Placed' /\ StopsClean' /\ WorkKnown'
    BY <1>4 DEF IInv, EngineTypes, Placed, StopsClean, WorkKnown, vars, clientVars, sharedVars, workerVars
  <2>2. Counted'
    BY <1>4, CountedKept DEF vars, clientVars, sharedVars, workerVars
  <2>3. Tracked'
    <3>1. Closing => Closing'
      BY <1>4 DEF Closing, vars, workerVars
    <3> QED BY <1>4, <3>1, TrackedKept DEF vars, clientVars, sharedVars, workerVars
  <2>4. Fresh'
    BY <1>4, FreshKept DEF vars, clientVars, sharedVars, workerVars, Queued
  <2> QED BY <2>1, <2>2, <2>3, <2>4 DEF IInv
<1> QED BY <1>1, <1>2, <1>3, <1>4 DEF Next

\* The inductive invariant holds in every state the engine reaches.
THEOREM Invariant == Spec => []IInv
<1>1. Init => IInv
  BY InitInv
<1>2. IInv /\ [Next]_vars => IInv'
  BY NextInv
<1> QED BY <1>1, <1>2, PTL DEF Spec

\* Client threads, the worker and the backend keep the same books: waiting_requests is the
\* number of commands that wait, the worker's map and the backend's requests agree up to the
\* terminal events that are about to be published, and shutdown returns Ok only with the
\* books closed.
THEOREM BooksCorrect == Spec => []BooksAgree
<1>1. IInv => BooksAgree
  <2> SUFFICES ASSUME IInv PROVE BooksAgree
    OBVIOUS
  <2>1. WaitingExact
    BY DEF IInv, Counted
  <2>2. requests \subseteq work \cup {e.id : e \in {f \in worker.batch : IsTerminal(f)}}
    <3> SUFFICES ASSUME NEW r \in requests, r \notin work
                 PROVE  \E e \in worker.batch : IsTerminal(e) /\ e.id = r
      OBVIOUS
    <3>1. r \in Requests
      BY DEF IInv, EngineTypes
    <3>2. Consistent(stream[r], flag[r], r \in requests, r \in work, produced[r],
                     Staged(r), Made(r), Closing)
      BY <3>1 DEF IInv, Tracked
    <3>3. \E e \in Made(r) : IsTerminal(e)
      BY <3>2 DEF Consistent
    <3> QED BY <3>3 DEF Made
  <2>3. OwnershipAgrees
    BY <2>2 DEF OwnershipAgrees, IInv, WorkKnown
  <2>4. ShutdownIsClean
    BY DEF ShutdownIsClean, IInv, StopsClean
  <2> QED BY <2>1, <2>3, <2>4 DEF BooksAgree
<1> QED BY <1>1, Invariant, PTL

-----------------------------------------------------------------------------
(* The channel of a request. *)

\* Whoever owns a sender has submitted its command.
LEMMA SenderSubmitted ==
    ASSUME IInv, NEW r \in Requests, SenderAlive(r)
    PROVE  client[r] \notin Early /\ SenderState(r) = "alive"
<1>1. client[r] \notin Early
  BY DEF SenderAlive, IInv, Counted, Fresh, Staged
<1> QED BY <1>1 DEF SenderState, Early

\* What a step may do to the senders of r: the command is sent once, by its submitter, and
\* worker and backend pass on what they were given.
LEMMA SendersPassed ==
    ASSUME IInv, [Next]_vars, NEW r \in Requests
    PROVE  /\ client[r] \notin {"idle", "checked", "counted"} =>
                 client'[r] \notin {"idle", "checked", "counted"}
           /\ Queued(r)' => Queued(r) \/ client[r] = "counted"
           /\ r \in requests' => r \in requests \/ Queued(r)
           /\ Staged(r)' # {} => Staged(r) # {} \/ r \in requests
<1>1. client \in [Requests -> Clients]
  BY DEF IInv, EngineTypes
<1>2. CASE \E q \in Requests : ClientNext(q)
  <2>1. PICK q \in Requests : ClientNext(q)
    BY <1>2
  <2>2. UNCHANGED workerVars
    BY <2>1 DEF ClientNext, SubmitCheck, SubmitCount, SubmitSend, SubmitUndo, SubmitAnswered,
       SubmitTimeout, SubmitAbandon, Recv, RecvDisconnected, Cancel, DropHandle, CancelFlag
  <2>3. Staged(r)' = Staged(r) /\ requests' = requests
    BY <2>2 DEF workerVars, Staged
  <2>4. \/ client' = client
        \/ client[q] \in {"idle", "checked"}
        \/ \E there \in Clients \ {"idle", "checked", "counted"} : client' = [client EXCEPT ![q] = there]
    BY <2>1 DEF ClientNext, SubmitCheck, SubmitCount, SubmitSend, SubmitUndo, SubmitAnswered,
       SubmitTimeout, SubmitAbandon, Recv, RecvDisconnected, Cancel, DropHandle, CancelFlag,
       At, Goto, Clients, Early
  <2>5. client'[r] = client[r] \/ q = r
    BY <1>1, <2>1 DEF ClientNext, SubmitCheck, SubmitCount, SubmitSend, SubmitUndo, SubmitAnswered,
       SubmitTimeout, SubmitAbandon, Recv, RecvDisconnected, Cancel, DropHandle, CancelFlag,
       At, Goto
  <2>6. client[r] \notin {"idle", "checked", "counted"} =>
          client'[r] \notin {"idle", "checked", "counted"}
    BY <1>1, <2>4, <2>5
  <2>7. Queued(r)' => Queued(r) \/ client[r] = "counted"
    <3>1. \/ queue' = queue \/ SendWake
          \/ client[q] = "counted" /\ queue' = Append(queue, q)
      BY <2>1 DEF ClientNext, SubmitCheck, SubmitCount, SubmitSend, SubmitUndo, SubmitAnswered,
         SubmitTimeout, SubmitAbandon, Recv, RecvDisconnected, Cancel, DropHandle, CancelFlag,
         At, Goto, sharedVars
    <3>2. CASE queue' = queue
      BY <3>2 DEF Queued
    <3>3. CASE SendWake
      BY <3>3, WakeIs
    <3>4. CASE client[q] = "counted" /\ queue' = Append(queue, q)
      <4>1. queue \in Seq(Requests \cup {Wake}) /\ q \in Requests \cup {Wake}
        BY DEF IInv, EngineTypes
      <4>2. /\ DOMAIN queue' = 1 .. Len(queue) + 1 /\ DOMAIN queue = 1 .. Len(queue)
            /\ Len(queue) \in Nat
            /\ \A i \in 1 .. Len(queue) : queue'[i] = queue[i]
            /\ queue'[Len(queue) + 1] = q
        BY <3>4, <4>1, AppendProperties, LenProperties
      <4>3. ASSUME NEW i \in DOMAIN queue', queue'[i] = r, q # r PROVE Queued(r)
        BY <4>2, <4>3 DEF Queued
      <4> QED BY <3>4, <4>3 DEF Queued
    <3> QED BY <3>1, <3>2, <3>3, <3>4
  <2> QED BY <2>3, <2>6, <2>7
<1>3. CASE OwnerNext
  <2>1. /\ UNCHANGED <<client, workerVars>> /\ (queue' = queue \/ SendWake)
    BY <1>3 DEF OwnerNext, StartTimeout, BeginShutdown, ShutdownReturns, MetricsSnapshot, DropEngine,
       clientVars, sharedVars
  <2>2. Staged(r)' = Staged(r) /\ requests' = requests
    BY <2>1 DEF workerVars, Staged
  <2>3. Queued(r)' => Queued(r)
    BY <2>1, WakeIs DEF Queued
  <2> QED BY <2>1, <2>2, <2>3
<1>4. CASE WorkerNext
  <2>1. client' = client
    BY <1>4 DEF WorkerNext, WorkerStart, Top, ProcessCancellations, CancellationFails, TakeCommand,
       NoCommand, IdleCommand, IdleTimeout, Step, StepFails, Abort, Publish, Deliver, CancelSlow,
       Stage, Reject, Close, CloseFails, Drop, Exit, Store, Return, clientVars
  <2>2. CASE TakeCommand \/ IdleCommand
    <3>1. /\ queue # <<>> /\ queue' = Tail(queue) /\ outbox' = outbox
          /\ requests' = requests \/ requests' = requests \cup {Head(queue)}
      BY <2>2 DEF TakeCommand, IdleCommand, ProcessCommand, Admit, Refuse
    <3>2. PICK h : h = Head(queue)
      OBVIOUS
    <3>3. (Queued(r)' => Queued(r)) /\ (h \in Requests => Queued(h))
      BY <3>1, <3>2, DequeueIs
    <3>4. Staged(r)' = Staged(r)
      BY <3>1 DEF Staged
    <3> QED BY <2>1, <3>1, <3>2, <3>3, <3>4
  <2>3. CASE Reject
    <3>1. queue # <<>> /\ queue' = Tail(queue) /\ outbox' = outbox /\ requests' = requests
      BY <2>3 DEF Reject, workerVars
    <3>2. PICK h : h = Head(queue)
      OBVIOUS
    <3>3. Queued(r)' => Queued(r)
      BY <3>1, <3>2, DequeueIs
    <3>4. Staged(r)' = Staged(r)
      BY <3>1 DEF Staged
    <3> QED BY <2>1, <3>1, <3>3, <3>4
  <2>4. CASE Return
    <3>1. queue' = <<>> /\ outbox' = outbox /\ requests' = requests
      BY <2>4 DEF Return
    <3>2. ~Queued(r)' /\ Staged(r)' = Staged(r)
      BY <3>1, EmptySeq DEF Queued, Staged
    <3> QED BY <2>1, <3>1, <3>2
  <2>5. CASE Stage
    <3>1. queue' = queue /\ requests' \subseteq requests /\ outbox' = {e \in worker.batch : e.id \in requests}
      BY SMTT(30), <2>5 DEF Stage, sharedVars
    <3> QED BY <2>1, <3>1 DEF Queued, Staged
  <2>6. CASE ~(TakeCommand \/ IdleCommand \/ Reject \/ Return \/ Stage)
    <3>1. queue' = queue /\ requests' \subseteq requests /\ outbox' \subseteq outbox
      BY <1>4, <2>6 DEF WorkerNext, WorkerStart, Top, ProcessCancellations, CancellationFails,
         NoCommand, IdleTimeout, Step, StepFails, Abort, FailRemaining, Publish, Deliver, CancelSlow,
         Close, CloseFails, Drop, Exit, Store, End, sharedVars
    <3> QED BY SMTT(30), <2>1, <3>1 DEF Queued, Staged
  <2> QED BY SMTT(30), <2>2, <2>3, <2>4, <2>5, <2>6
<1>5. CASE UNCHANGED vars
  BY <1>5 DEF vars, clientVars, sharedVars, workerVars, Queued, Staged
<1> QED BY <1>2, <1>3, <1>4, <1>5 DEF Next

\* The senders of a request are created once and, once gone, stay gone.
LEMMA SenderKept ==
    ASSUME IInv, [Next]_vars, NEW r \in Requests, SenderState(r) # "none"
    PROVE  SenderState(r)' # "none" /\ (SenderState(r) = "gone" => SenderState(r)' = "gone")
<1>1. /\ client[r] \notin {"idle", "checked", "counted"}
      /\ client'[r] \notin {"idle", "checked", "counted"}
  BY SendersPassed DEF SenderState
<1>2. SenderAlive(r)' => SenderAlive(r)
  BY <1>1, SendersPassed DEF SenderAlive, Staged
<1> QED BY <1>1, <1>2 DEF SenderState

\* What a step may do to the events of r.
LEMMA StreamStep ==
    ASSUME IInv, [Next]_vars, NEW r \in Requests, stream'[r] # stream[r]
    PROVE  /\ SenderAlive(r) /\ ~Ended(stream[r])
           /\ \/ /\ SenderAlive(r)'
                 /\ stream'[r] = Append(stream[r], [kind |-> "token", n |-> Len(stream[r]) + 1])
              \/ \E k \in {"finished", "cancelled", "failed"}, n \in Counts :
                    /\ k = "finished" => Len(stream[r]) <= n
                    /\ stream'[r] = Append(stream[r], [kind |-> k, n |-> n])
<1>1. ASSUME NEW kinds, DOMAIN kinds \subseteq requests,
             \A q \in DOMAIN kinds : kinds[q] \in {"cancelled", "failed"}, End(kinds)
      PROVE  /\ SenderAlive(r) /\ ~Ended(stream[r])
             /\ \E k \in {"finished", "cancelled", "failed"}, n \in Counts :
                    /\ k = "finished" => Len(stream[r]) <= n
                    /\ stream'[r] = Append(stream[r], [kind |-> k, n |-> n])
  <2>1. /\ r \in DOMAIN kinds
        /\ stream'[r] = Append(stream[r], [kind |-> kinds[r], n |-> produced[r]])
    BY <1>1, EndIs
  <2>2. r \in requests
    BY <1>1, <2>1
  <2>3. ~Ended(stream[r])
    <3>1. Consistent(stream[r], flag[r], r \in requests, r \in work, produced[r],
                     Staged(r), Made(r), Closing)
      BY DEF IInv, Tracked
    <3> QED BY <2>2, <3>1 DEF Consistent
  <2>4. produced[r] \in Counts /\ kinds[r] \in {"cancelled", "failed"}
    BY <1>1, <2>1, ConfigAssumption DEF IInv, EngineTypes, Counts
  <2>5. SenderAlive(r)
    BY <2>2 DEF SenderAlive
  <2> QED BY <2>1, <2>3, <2>4, <2>5
<1>2. ASSUME NEW e \in Events, e.id = r, Allowed(e, stream[r], stream'[r], SenderAlive(r)'),
             SenderAlive(r)
      PROVE  /\ SenderAlive(r) /\ ~Ended(stream[r])
             /\ \/ /\ SenderAlive(r)'
                   /\ stream'[r] = Append(stream[r], [kind |-> "token", n |-> Len(stream[r]) + 1])
                \/ \E k \in {"finished", "cancelled", "failed"}, n \in Counts :
                      /\ k = "finished" => Len(stream[r]) <= n
                      /\ stream'[r] = Append(stream[r], [kind |-> k, n |-> n])
  <2>1. e.kind \in Kinds /\ e.n \in Counts /\ Payload(e) = [kind |-> e.kind, n |-> e.n]
    BY <1>2 DEF Events, Payload
  <2>2. IsTerminal(e) => e.kind \in {"finished", "cancelled", "failed"}
    BY <2>1 DEF IsTerminal, Kinds
  <2> QED BY <1>2, <2>1, <2>2 DEF Allowed
<1>3. CASE ProcessCancellations
  <2>1. PICK kinds : kinds = [q \in Cancelled |-> "cancelled"]
    OBVIOUS
  <2>2. /\ DOMAIN kinds \subseteq requests /\ End(kinds)
        /\ \A q \in DOMAIN kinds : kinds[q] \in {"cancelled", "failed"}
    BY <1>3, <2>1 DEF ProcessCancellations, Cancelled
  <2> QED BY <1>1, <2>2
<1>4. CASE CancellationFails
  <2>1. PICK done : End([q \in requests |-> IF q \in done THEN "cancelled" ELSE "failed"])
    BY <1>4 DEF CancellationFails
  <2>2. PICK kinds : kinds = [q \in requests |-> IF q \in done THEN "cancelled" ELSE "failed"]
    OBVIOUS
  <2>3. /\ DOMAIN kinds \subseteq requests /\ End(kinds)
        /\ \A q \in DOMAIN kinds : kinds[q] \in {"cancelled", "failed"}
    BY <2>1, <2>2
  <2> QED BY <1>1, <2>3
<1>5. CASE Abort \/ Drop
  <2>1. PICK kinds : kinds = [q \in requests |-> "failed"]
    OBVIOUS
  <2>2. /\ DOMAIN kinds \subseteq requests /\ End(kinds)
        /\ \A q \in DOMAIN kinds : kinds[q] \in {"cancelled", "failed"}
    BY <1>5, <2>1 DEF Abort, Drop, FailRemaining
  <2> QED BY <1>1, <2>2
<1>6. CASE CancelSlow
  <2>1. PICK slow : slow = worker.slow \cap requests \cap work
    OBVIOUS
  <2>2. PICK bad : End([q \in slow |-> IF q \in bad THEN "failed" ELSE "cancelled"])
    BY <1>6, <2>1 DEF CancelSlow
  <2>3. PICK kinds : kinds = [q \in slow |-> IF q \in bad THEN "failed" ELSE "cancelled"]
    OBVIOUS
  <2>4. /\ DOMAIN kinds \subseteq requests /\ End(kinds)
        /\ \A q \in DOMAIN kinds : kinds[q] \in {"cancelled", "failed"}
    BY <2>1, <2>2, <2>3
  <2> QED BY <1>1, <2>4
<1>7. CASE \E e \in worker.batch : Publish(e)
  <2>1. PICK e \in worker.batch : Publish(e)
    BY <1>7
  <2>2. e \in Events /\ e.id = r
    BY <2>1, PublishInv
  <2>3. /\ Allowed(e, stream[r], stream'[r], r \in requests')
        /\ r \in requests
    BY <2>1, <2>2, PublishInv
  <2>4. Allowed(e, stream[r], stream'[r], SenderAlive(r)') /\ SenderAlive(r)
    BY <2>3 DEF Allowed, SenderAlive
  <2> QED BY <1>2, <2>2, <2>4
<1>8. CASE \E e \in outbox : Deliver(e)
  <2>1. PICK e \in outbox : Deliver(e)
    BY <1>8
  <2>2. e \in Events /\ e.id = r
    BY <2>1, DeliverInv
  <2>3. Allowed(e, stream[r], stream'[r], r \in requests \/ Staged(r)' # {})
    BY <2>1, <2>2, DeliverInv
  <2>4. requests' = requests
    BY <2>1 DEF Deliver
  <2>5. (r \in requests \/ Staged(r)' # {}) => SenderAlive(r)'
    BY <2>4 DEF SenderAlive, Staged
  <2>6. SenderAlive(r)
    BY <2>2 DEF SenderAlive
  <2>7. Allowed(e, stream[r], stream'[r], SenderAlive(r)')
    BY <2>3, <2>5 DEF Allowed
  <2> QED BY <1>2, <2>2, <2>6, <2>7
<1>9. CASE OwnerNext \/ \E q \in Requests : ClientNext(q)
  <2>1. stream' = stream
    BY <1>9 DEF OwnerNext, StartTimeout, BeginShutdown, ShutdownReturns, MetricsSnapshot, DropEngine,
       ClientNext, SubmitCheck, SubmitCount, SubmitSend, SubmitUndo, SubmitAnswered,
       SubmitTimeout, SubmitAbandon, Recv, RecvDisconnected, Cancel, DropHandle, CancelFlag, sharedVars
  <2> QED BY <2>1
<1>10. CASE \/ WorkerStart \/ Top \/ TakeCommand \/ NoCommand \/ IdleCommand \/ IdleTimeout
            \/ Step \/ StepFails \/ Stage \/ Reject \/ Close \/ CloseFails \/ Exit \/ Store \/ Return
  <2>1. stream' = stream
    BY <1>10 DEF WorkerStart, Top, TakeCommand, NoCommand, IdleCommand, IdleTimeout, Step, StepFails,
       Stage, Reject, Close, CloseFails, Exit, Store, Return, sharedVars
  <2> QED BY <2>1
<1>11. CASE UNCHANGED vars
  BY <1>11 DEF vars, sharedVars
<1> QED BY <1>3, <1>4, <1>5, <1>6, <1>7, <1>8, <1>9, <1>10, <1>11 DEF Next, WorkerNext

\* A step of the engine is a step of the chosen request's channel, or none of it.
LEMMA ChannelStep ==
    ASSUME IInv, [Next]_vars
    PROVE  [Channel!Next]_(Channel!streamVars)
<1>1. Chosen \in Requests
  BY ChosenAssumption
<1>2. PICK s, s2, x, x2 : /\ s = stream[Chosen] /\ s2 = stream'[Chosen]
                          /\ x = SenderState(Chosen) /\ x2 = SenderState(Chosen)'
  OBVIOUS
<1>3. x \in {"none", "alive", "gone"} /\ x2 \in {"none", "alive", "gone"}
  BY <1>2 DEF SenderState
<1>4. x # "none" => x2 # "none" /\ (x = "gone" => x2 = "gone")
  BY <1>1, <1>2, SenderKept
<1>5. CASE s2 = s
  <2>1. x2 = x \/ (x = "none" /\ x2 = "alive") \/ (x # "gone" /\ x2 = "gone")
    BY <1>3, <1>4
  <2>2. CASE x2 = x
    BY <1>2, <1>5, <2>2 DEF Channel!streamVars
  <2>3. CASE x = "none" /\ x2 = "alive"
    <3>1. Channel!Submit
      BY <1>2, <1>5, <2>3 DEF Channel!Submit
    <3> QED BY <3>1 DEF Channel!Next
  <2>4. CASE x # "gone" /\ x2 = "gone"
    <3>1. Channel!HangUp
      BY <1>2, <1>5, <2>4 DEF Channel!HangUp
    <3> QED BY <3>1 DEF Channel!Next
  <2> QED BY <2>1, <2>2, <2>3, <2>4
<1>6. CASE s2 # s
  <2>1. /\ SenderAlive(Chosen) /\ ~Ended(s)
        /\ \/ /\ SenderAlive(Chosen)'
              /\ s2 = Append(s, [kind |-> "token", n |-> Len(s) + 1])
           \/ \E k \in {"finished", "cancelled", "failed"}, n \in Counts :
                 /\ k = "finished" => Len(s) <= n
                 /\ s2 = Append(s, [kind |-> k, n |-> n])
    BY <1>1, <1>2, <1>6, StreamStep
  <2>2. x = "alive" /\ x2 \in {"alive", "gone"}
    BY <1>1, <1>2, <1>3, <1>4, <2>1, SenderSubmitted
  <2>3. ~Channel!HasEnded
    BY <1>2, <2>1 DEF Channel!HasEnded, Channel!Terminals, Channel!Last, Ended
  <2>4. CASE SenderAlive(Chosen)' /\ s2 = Append(s, [kind |-> "token", n |-> Len(s) + 1])
    <3>1. x2 = "alive"
      BY <1>2, <2>2, <2>4 DEF SenderState
    <3>2. Channel!Emit
      BY <1>2, <2>2, <2>3, <2>4, <3>1 DEF Channel!Emit, Channel!Token
    <3> QED BY <3>2 DEF Channel!Next
  <2>5. CASE \E k \in {"finished", "cancelled", "failed"}, n \in Counts :
                 /\ k = "finished" => Len(s) <= n
                 /\ s2 = Append(s, [kind |-> k, n |-> n])
    <3>1. PICK k \in {"finished", "cancelled", "failed"}, n \in Counts :
                 /\ k = "finished" => Len(s) <= n
                 /\ s2 = Append(s, [kind |-> k, n |-> n])
      BY <2>5
    <3>2. n \in 0 .. MaxTokens + 1 /\ (k = "finished" => n >= Len(s)) /\ k \in Channel!Terminals
      <4>1. Len(s) \in Nat /\ n \in Nat
        BY <1>1, <1>2, LenProperties, ConfigAssumption DEF IInv, EngineTypes, Counts
      <4> QED BY <3>1, <4>1 DEF Counts, Channel!Terminals
    <3>3. Channel!End
      BY <1>2, <2>2, <2>3, <3>1, <3>2 DEF Channel!End
    <3> QED BY <3>3 DEF Channel!Next
  <2> QED BY <2>1, <2>4, <2>5
<1> QED BY <1>5, <1>6

\* The engine implements module RequestStream for any request: its channel carries the
\* request's first tokens in order, none left out, then at most one terminal event, and
\* nothing follows it, whatever clients, worker and backend do.
THEOREM ChannelCorrect == Spec => ChannelImplemented
<1>1. Init => Channel!Init
  <2> SUFFICES ASSUME Init PROVE Channel!Init
    OBVIOUS
  <2>1. stream[Chosen] = <<>> /\ client[Chosen] = "idle"
    BY ChosenAssumption DEF Init
  <2> QED BY <2>1 DEF Channel!Init, SenderState
<1>2. IInv /\ [Next]_vars => [Channel!Next]_(Channel!streamVars)
  BY ChannelStep
<1> QED BY <1>1, <1>2, Invariant, PTL DEF Spec, ChannelImplemented, Channel!Spec

-----------------------------------------------------------------------------
(* The delivery.  The inductive invariant. *)

ReceivedPayload == Nat \union 0..Limit
ReceivedEvent == [kind : {"token"} \union Engine!Terminals, n : ReceivedPayload]
Frame == [token : Nat] \union [mark : {"head", "finish", "error", "done"}] \union [body : Nat]

\* The channel holds the request's first tokens in order; only the last event may
\* be something else, and then it is terminal.
EventsWellFormed ==
    /\ events \in Seq(ReceivedEvent)
    /\ \A i \in 1..Len(events) :
          events[i] = Engine!Token(i) \/ (i = Len(events) /\ events[i].kind \in Engine!Terminals)

DeliveryTypes ==
    /\ mode \in [stream : BOOLEAN, ids : BOOLEAN]
    /\ taken \in 0..Len(events) /\ seen \in Nat /\ text \in Nat
    /\ response \in Seq(Frame)
    /\ pc \in {"submitted", "poll", "recv", "expired", "done"}

\* A stream that has shown n tokens.
Shown(n) == <<Mark("head")>> \o Tokens(n)

\* Until it is done, a worker has observed exactly the tokens it received, in a
\* stream it has shown them all, and it has told nobody that the request is over.
RunningExact ==
    pc # "done" =>
        /\ log = <<>> /\ cancelled = FALSE
        /\ seen = taken
        /\ \A i \in 1..taken : events[i] = Engine!Token(i)
        /\ ~mode.stream => text = taken
        /\ response = IF mode.stream /\ pc # "submitted" THEN Shown(taken) ELSE <<>>
        /\ pc = "submitted" => taken = 0

\* When it is done, everything it claims is true and stays so.
DoneExact == pc = "done" => ResponseWellFormed /\ CompletedIsComplete /\ RequestsSettled

DeliveryInvariant == EventsWellFormed /\ DeliveryTypes /\ RunningExact /\ DoneExact

-----------------------------------------------------------------------------
(* Sequences. *)

\* What a write that stops early leaves on the socket is a prefix of the whole.
LEMMA PartIsPrefix ==
    ASSUME NEW S, NEW b \in Seq(S), NEW f \in Seq(S), NEW k \in 0..Len(f)
    PROVE  /\ b \o SubSeq(f, 1, k) \in Seq(S)
           /\ Len(b \o SubSeq(f, 1, k)) = Len(b) + k
           /\ IsPrefix(b \o SubSeq(f, 1, k), b \o f)
<1>1. /\ SubSeq(f, 1, k) \in Seq(S) /\ Len(SubSeq(f, 1, k)) = k
      /\ \A i \in 1..k : SubSeq(f, 1, k)[i] = f[i]
  BY SubSeqProperties, LenProperties
<1> DEFINE p == b \o SubSeq(f, 1, k)
           w == b \o f
<1>2. /\ p \in Seq(S) /\ Len(p) = Len(b) + k
      /\ \A i \in 1..Len(p) : p[i] = IF i <= Len(b) THEN b[i] ELSE SubSeq(f, 1, k)[i - Len(b)]
  BY <1>1, ConcatProperties
<1>3. /\ w \in Seq(S) /\ Len(w) = Len(b) + Len(f)
      /\ \A i \in 1..Len(w) : w[i] = IF i <= Len(b) THEN b[i] ELSE f[i - Len(b)]
  BY ConcatProperties
<1>4. Len(b) \in Nat /\ Len(f) \in Nat
  BY LenProperties
<1> HIDE DEF p, w
<1>5. \A i \in 1..Len(p) : p[i] = w[i]
  <2> SUFFICES ASSUME NEW i \in 1..Len(p)
               PROVE  p[i] = w[i]
    OBVIOUS
  <2> i \in 1..Len(w) /\ i \in Int
    BY <1>2, <1>3, <1>4
  <2>1. CASE i <= Len(b)
    BY <2>1, <1>2, <1>3
  <2>2. CASE ~(i <= Len(b))
    <3>1. i - Len(b) \in 1..k
      BY <2>2, <1>2, <1>4
    <3>2. p[i] = SubSeq(f, 1, k)[i - Len(b)] /\ w[i] = f[i - Len(b)]
      BY <2>2, <1>2, <1>3
    <3> QED BY <3>1, <3>2, <1>1
  <2> QED BY <2>1, <2>2
<1>6. Len(p) \in Nat /\ Len(p) <= Len(w)
  BY <1>2, <1>3, <1>4
<1>7. /\ SubSeq(w, 1, Len(p)) \in Seq(S) /\ Len(SubSeq(w, 1, Len(p))) = Len(p)
      /\ \A i \in 1..Len(p) : SubSeq(w, 1, Len(p))[i] = w[i]
  BY <1>3, <1>6, SubSeqProperties
<1>8. /\ SubSeq(p, 1, Len(p)) \in Seq(S) /\ Len(SubSeq(p, 1, Len(p))) = Len(p)
      /\ \A i \in 1..Len(p) : SubSeq(p, 1, Len(p))[i] = p[i]
  BY <1>2, <1>6, SubSeqProperties
<1>9. SubSeq(p, 1, Len(p)) = SubSeq(w, 1, Len(p))
  BY <1>5, <1>7, <1>8, SeqEqual
<1>10. IsPrefix(p, w)
  BY <1>6, <1>9 DEF IsPrefix
<1> QED BY <1>2, <1>10 DEF p, w

\* A stream is a sequence of frames, and the next token extends it by one.
LEMMA ShownGrows ==
    ASSUME NEW n \in Nat
    PROVE  /\ Shown(n) \in Seq(Frame) /\ Len(Shown(n)) = n + 1
           /\ Shown(n) \o <<Token(n + 1)>> = Shown(n + 1)
<1>1. <<Mark("head")>> \in Seq(Frame) /\ <<Token(n + 1)>> \in Seq(Frame)
  BY DEF Frame, Mark, Token
<1> DEFINE h == <<Mark("head")>>
           t == <<Token(n + 1)>>
<1>2. \A m \in Nat : /\ Tokens(m) \in Seq(Frame) /\ Len(Tokens(m)) = m
                     /\ \A i \in 1..m : Tokens(m)[i] = Token(i)
  BY DEF Tokens, Token, Frame
<1>3. Tokens(n) \in Seq(Frame) /\ Len(Tokens(n)) = n /\ \A i \in 1..n : Tokens(n)[i] = Token(i)
  BY <1>2
<1>4. /\ Tokens(n + 1) \in Seq(Frame) /\ Len(Tokens(n + 1)) = n + 1
      /\ \A i \in 1..(n + 1) : Tokens(n + 1)[i] = Token(i)
  BY <1>2
<1>5. h \in Seq(Frame) /\ Len(h) = 1 /\ t \in Seq(Frame) /\ Len(t) = 1 /\ t[1] = Token(n + 1)
  BY <1>1
<1> HIDE DEF h, t
<1>6. Shown(n) \in Seq(Frame) /\ Len(Shown(n)) = n + 1
  BY <1>3, <1>5, ConcatProperties DEF Shown, h
<1>7. /\ Tokens(n) \o t \in Seq(Frame) /\ Len(Tokens(n) \o t) = n + 1
      /\ \A i \in 1..(n + 1) : (Tokens(n) \o t)[i] = IF i <= n THEN Tokens(n)[i] ELSE t[i - n]
  <2>1. /\ Tokens(n) \o t \in Seq(Frame) /\ Len(Tokens(n) \o t) = Len(Tokens(n)) + Len(t)
        /\ \A i \in 1..(Len(Tokens(n)) + Len(t)) :
              (Tokens(n) \o t)[i] = IF i <= Len(Tokens(n)) THEN Tokens(n)[i] ELSE t[i - Len(Tokens(n))]
    <3> Tokens(n) \in Seq(Frame) /\ t \in Seq(Frame)
      BY <1>3, <1>5
    <3> QED BY ConcatProperties
  <2> QED BY <2>1, <1>3, <1>5
<1>8. \A i \in 1..(n + 1) : (Tokens(n) \o t)[i] = Tokens(n + 1)[i]
  BY <1>3, <1>4, <1>5, <1>7
<1>9. Tokens(n) \o t = Tokens(n + 1)
  BY <1>4, <1>7, <1>8, SeqEqual
<1>10. (h \o Tokens(n)) \o t = h \o (Tokens(n) \o t)
  BY SMTT(30), <1>3, <1>5, ConcatAssociative
<1> QED BY <1>6, <1>9, <1>10 DEF Shown, h, t

\* The end of a stream is two frames, the last one [DONE].
LEMMA DoneFrames ==
    ASSUME NEW kind \in {"finish", "error"}
    PROVE  /\ WithDone(kind) \in Seq(Frame) /\ Len(WithDone(kind)) = 2
           /\ WithDone(kind)[1] = Mark(kind) /\ WithDone(kind)[2] = Mark("done")
BY DEF WithDone, Mark, Frame

\* Any part of the end of a stream leaves a prefix of a well-formed response, and
\* all of it leaves that response, whose last frame is [DONE].
LEMMA EndsStream ==
    ASSUME NEW n \in Nat, NEW kind \in {"finish", "error"}, NEW k \in 0..2
    PROVE  LET r == Shown(n) \o SubSeq(WithDone(kind), 1, k) IN
           /\ r \in Seq(Frame)
           /\ IsPrefix(r, Shown(n) \o WithDone(kind))
           /\ k = 2 => /\ r = Shown(n) \o WithDone(kind)
                       /\ r # <<>> /\ Last(r) = Mark("done")
<1> DEFINE b == Shown(n)
           f == WithDone(kind)
<1>1. b \in Seq(Frame) /\ Len(b) = n + 1
  BY ShownGrows
<1>2. f \in Seq(Frame) /\ Len(f) = 2 /\ f[2] = Mark("done")
  BY DoneFrames
<1> HIDE DEF b, f
<1>3. b \o SubSeq(f, 1, k) \in Seq(Frame) /\ IsPrefix(b \o SubSeq(f, 1, k), b \o f)
  BY <1>1, <1>2, PartIsPrefix
<1>4. SubSeq(f, 1, 2) = f
  BY <1>2, SubSeqFull
<1>5. Len(b \o f) = n + 3 /\ (b \o f)[n + 3] = f[2]
  <2>1. /\ Len(b \o f) = (n + 1) + 2
        /\ \A i \in 1..((n + 1) + 2) : (b \o f)[i] = IF i <= n + 1 THEN b[i] ELSE f[i - (n + 1)]
    <3>1. /\ Len(b \o f) = Len(b) + Len(f)
          /\ \A i \in 1..(Len(b) + Len(f)) :
                (b \o f)[i] = IF i <= Len(b) THEN b[i] ELSE f[i - Len(b)]
      <4> b \in Seq(Frame) /\ f \in Seq(Frame)
        BY <1>1, <1>2
      <4> QED BY ConcatProperties
    <3> QED BY <3>1, <1>1, <1>2
  <2>2. n + 3 \in 1..((n + 1) + 2) /\ ~(n + 3 <= n + 1) /\ (n + 3) - (n + 1) = 2
    OBVIOUS
  <2>3. (b \o f)[n + 3] = f[(n + 3) - (n + 1)]
    BY <2>1, <2>2
  <2> QED BY <2>1, <2>2, <2>3
<1>6. b \o f # <<>> /\ Last(b \o f) = Mark("done")
  BY <1>2, <1>5 DEF Last
<1> QED BY <1>3, <1>4, <1>6 DEF b, f

\* A stream alone is a prefix of any response that continues it, and so is nothing.
LEMMA ShownIsPrefix ==
    ASSUME NEW n \in Nat
    PROVE  /\ IsPrefix(Shown(n), Shown(n) \o WithDone("error"))
           /\ IsPrefix(<<>>, Shown(n) \o WithDone("error"))
<1> DEFINE b == Shown(n)
           f == WithDone("error")
<1>1. b \in Seq(Frame)
  BY ShownGrows
<1>2. f \in Seq(Frame) /\ Len(f) = 2
  BY DoneFrames
<1> HIDE DEF b, f
<1>3. SubSeq(f, 1, 0) = <<>>
  BY <1>2, SubSeqEmpty
<1>4. b \o SubSeq(f, 1, 0) = b
  BY <1>1, <1>3, ConcatEmptySeq
<1>5. IsPrefix(b, b \o f)
  <2>1. 0 \in 0..Len(f)
    BY <1>2
  <2>2. IsPrefix(b \o SubSeq(f, 1, 0), b \o f)
    BY <1>1, <1>2, <2>1, PartIsPrefix
  <2> QED BY <2>2, <1>4
<1>6. b \o f \in Seq(Frame) /\ <<>> \in Seq(Frame) /\ Len(<<>>) = 0
  BY <1>1, <1>2, ConcatProperties
<1>7. SubSeq(b \o f, 1, 0) = <<>> /\ SubSeq(<<>>, 1, 0) = <<>>
  BY <1>6, SubSeqEmpty
<1>8. IsPrefix(<<>>, b \o f)
  BY <1>6, <1>7, LenProperties DEF IsPrefix
<1> QED BY <1>5, <1>8 DEF b, f

-----------------------------------------------------------------------------
(* What the worker relies on. *)

\* A worker still running sees no ended channel behind it: it has taken tokens only.
LEMMA ReceivesEvent ==
    ASSUME DeliveryInvariant, pc # "done", NEW e \in ToSet(events), Receives(e)
    PROVE  /\ taken + 1 \in 1..Len(events) /\ e = events[taken + 1] /\ e \in ReceivedEvent
           /\ e.kind = "token" => e = Engine!Token(taken + 1)
           /\ e.kind # "token" =>
                 Engine!HasEnded /\ taken + 1 = Len(events) /\ Last(events) = e
<1>1. /\ events \in Seq(ReceivedEvent) /\ taken \in 0..Len(events) /\ taken < Len(events)
      /\ e = events[taken + 1]
      /\ \A i \in 1..Len(events) :
            events[i] = Engine!Token(i) \/ (i = Len(events) /\ events[i].kind \in Engine!Terminals)
  BY DEF DeliveryInvariant, EventsWellFormed, DeliveryTypes, Receives
<1>2. Len(events) \in Nat
  BY <1>1, LenProperties
<1>3. taken + 1 \in 1..Len(events)
  BY <1>1, <1>2
<1>4. e \in ReceivedEvent
  BY <1>1, <1>3, ElementOfSeq
<1>5. e = Engine!Token(taken + 1) \/ (taken + 1 = Len(events) /\ e.kind \in Engine!Terminals)
  BY <1>1, <1>3
<1>6. e = Engine!Token(taken + 1) => e.kind = "token"
  BY DEF Engine!Token
<1>7. "token" \notin Engine!Terminals
  BY DEF Engine!Terminals
<1>8. ASSUME e.kind # "token"
      PROVE  Engine!HasEnded /\ taken + 1 = Len(events) /\ Last(events) = e
  <2>1. taken + 1 = Len(events) /\ e.kind \in Engine!Terminals
    BY <1>5, <1>6, <1>8
  <2>2. events # <<>>
    BY <1>2, <1>3
  <2>3. Last(events) = e
    BY <1>1, <2>1 DEF Last
  <2> QED BY <2>1, <2>2, <2>3, Zenon DEF Engine!HasEnded, Engine!Last, Last
<1> QED BY <1>1, <1>3, <1>4, <1>5, <1>7, <1>8

\* A worker that is done claims nothing false, if it ended in one of these ways.
LEMMA Ends ==
    ASSUME DeliveryInvariant, pc # "done", NEW status, NEW disarmed \in BOOLEAN,
           Settle(status, disarmed), UNCHANGED <<channelVars, mode>>,
           taken' \in 0..Len(events), seen' \in Nat, text' \in Nat, response' \in Seq(Frame),
           ResponseWellFormed',
           status = "completed" => CompletedIsComplete',
           disarmed => /\ Engine!HasEnded /\ taken' = Len(events)
                       /\ response' # <<>> /\ Last(response') # Mark("head")
    PROVE  DeliveryInvariant'
<1>1. log = <<>>
  BY DEF DeliveryInvariant, RunningExact
<1>2. log' = <<status>> /\ pc' = "done" /\ cancelled' = ~disarmed /\ events' = events /\ mode' = mode
  BY <1>1 DEF Settle, channelVars
<1>3. EventsWellFormed'
  BY <1>2 DEF DeliveryInvariant, EventsWellFormed
<1>4. DeliveryTypes'
  BY <1>2 DEF DeliveryInvariant, DeliveryTypes
<1>5. RunningExact'
  BY <1>2 DEF RunningExact
<1>6. CompletedIsComplete'
  <2>1. CASE status = "completed"
    BY <2>1
  <2>2. CASE status # "completed"
    <3>1. log'[1] = status
      BY <1>2
    <3>2. log' # <<"completed">>
      BY <2>2, <3>1
    <3> QED BY <3>2 DEF CompletedIsComplete
  <2> QED BY <2>1, <2>2
<1>7. RequestsSettled'
  <2>1. Len(log') = 1
    BY <1>2
  <2>2. Engine!HasEnded' <=> Engine!HasEnded
    BY <1>2 DEF Engine!HasEnded
  <2> QED BY <1>2, <2>1, <2>2 DEF RequestsSettled
<1> QED BY <1>3, <1>4, <1>5, <1>6, <1>7 DEF DeliveryInvariant, DoneExact

\* Whatever part of an error reaches the socket of a worker that polled, the
\* response is well formed.
LEMMA ErrorWellFormed ==
    ASSUME DeliveryInvariant, pc # "done", pc # "submitted", mode' = mode,
           seen' \in Nat, seen' >= seen, NEW k \in 0..Len(ErrorFrames), Written(ErrorFrames, k)
    PROVE  response' \in Seq(Frame) /\ ResponseWellFormed'
<1>1. /\ mode \in [stream : BOOLEAN, ids : BOOLEAN] /\ taken \in Nat /\ seen = taken
      /\ response = IF mode.stream THEN Shown(taken) ELSE <<>>
  <2>1. Len(events) \in Nat
    BY LenProperties DEF DeliveryInvariant, EventsWellFormed
  <2> QED BY <2>1 DEF DeliveryInvariant, DeliveryTypes, RunningExact
<1>2. CASE mode.stream
  <2>1. ErrorFrames = WithDone("error") /\ Len(WithDone("error")) = 2
    BY <1>2, DoneFrames DEF ErrorFrames
  <2>2. response' = Shown(taken) \o SubSeq(WithDone("error"), 1, k) /\ k \in 0..2
    BY <1>1, <1>2, <2>1 DEF Written
  <2>3. response' \in Seq(Frame) /\ IsPrefix(response', Shown(taken) \o WithDone("error"))
    BY <1>1, <2>2, EndsStream
  <2>4. taken \in 0..seen'
    BY <1>1
  <2> QED BY <1>2, <2>3, <2>4 DEF ResponseWellFormed, Shown
<1>3. CASE ~mode.stream
  <2> DEFINE f == <<Mark("error")>>
  <2>1. ErrorFrames = f /\ f \in Seq(Frame) /\ Len(f) = 1
    BY <1>3 DEF ErrorFrames, Mark, Frame
  <2>2. response = <<>> /\ <<>> \in Seq(Frame) /\ Len(<<>>) = 0
    BY <1>1, <1>3
  <2> HIDE DEF f
  <2>3. k \in 0..Len(f) /\ k \in 0..1
    BY <2>1
  <2>4. /\ <<>> \o SubSeq(f, 1, k) \in Seq(Frame)
        /\ Len(<<>> \o SubSeq(f, 1, k)) = Len(<<>>) + k
    BY <2>1, <2>2, <2>3, PartIsPrefix
  <2>5. response' = <<>> \o SubSeq(f, 1, k)
    BY <2>1, <2>2 DEF Written
  <2> QED BY <1>3, <2>2, <2>3, <2>4, <2>5 DEF ResponseWellFormed
<1> QED BY <1>1, <1>2, <1>3

\* A response nothing was added to is well formed.
LEMMA SilentWellFormed ==
    ASSUME DeliveryInvariant, pc # "done", mode' = mode, seen' \in Nat, seen' >= seen, response' = response
    PROVE  response' \in Seq(Frame) /\ ResponseWellFormed'
<1>1. /\ mode \in [stream : BOOLEAN, ids : BOOLEAN] /\ taken \in Nat /\ seen = taken
      /\ response \in Seq(Frame)
      /\ response = IF mode.stream /\ pc # "submitted" THEN Shown(taken) ELSE <<>>
  <2>1. Len(events) \in Nat
    BY LenProperties DEF DeliveryInvariant, EventsWellFormed
  <2> QED BY <2>1 DEF DeliveryInvariant, DeliveryTypes, RunningExact
<1>2. CASE mode.stream
  <2>1. IsPrefix(response', Shown(taken) \o WithDone("error"))
    BY <1>1, <1>2, ShownIsPrefix
  <2>2. taken \in 0..seen'
    BY <1>1
  <2> QED BY <1>1, <1>2, <2>1, <2>2 DEF ResponseWellFormed, Shown
<1>3. CASE ~mode.stream
  BY <1>1, <1>3 DEF ResponseWellFormed
<1> QED BY <1>1, <1>2, <1>3

\* A request that fails, with any part of its error written or none, is settled.
LEMMA Fails ==
    ASSUME DeliveryInvariant, pc # "done", NEW status, status # "completed", Finish(status),
           UNCHANGED <<channelVars, mode>>, taken' \in 0..Len(events),
           seen' \in Nat, seen' >= seen, text' \in Nat,
           \/ UNCHANGED response
           \/ pc # "submitted" /\ WriteError
    PROVE  DeliveryInvariant'
<1>1. mode' = mode
  OBVIOUS
<1>2. response' \in Seq(Frame) /\ ResponseWellFormed'
  <2>1. CASE UNCHANGED response
    BY <1>1, <2>1, SilentWellFormed
  <2>2. CASE pc # "submitted" /\ WriteError
    <3>1. PICK k \in 0..Len(ErrorFrames) : Written(ErrorFrames, k)
      BY <2>2 DEF WriteError
    <3> QED BY <1>1, <2>2, <3>1, ErrorWellFormed
  <2> QED BY <2>1, <2>2
<1>3. Settle(status, FALSE)
  BY DEF Finish
<1> QED BY <1>2, <1>3, Ends

\* What a worker that is still running knows.
LEMMA RunningFacts ==
    ASSUME DeliveryInvariant, pc # "done"
    PROVE  /\ mode \in [stream : BOOLEAN, ids : BOOLEAN]
           /\ Len(events) \in Nat /\ taken \in 0..Len(events) /\ taken \in Nat
           /\ seen = taken /\ seen \in Nat /\ text \in Nat
           /\ pc # "submitted" => response = IF mode.stream THEN Shown(taken) ELSE <<>>
           /\ log = <<>> /\ cancelled = FALSE
<1>1. Len(events) \in Nat
  BY LenProperties DEF DeliveryInvariant, EventsWellFormed
<1> QED BY <1>1 DEF DeliveryInvariant, DeliveryTypes, RunningExact

\* A worker that goes on keeps the account of what it received and showed.
LEMMA GoesOn ==
    ASSUME DeliveryInvariant, pc # "done", pc' \in {"poll", "recv", "expired"},
           UNCHANGED <<channelVars, mode, log, cancelled>>,
           taken' \in 0..Len(events), \A i \in 1..taken' : events[i] = Engine!Token(i),
           seen' = taken', text' \in Nat, ~mode.stream => text' = taken',
           response' = IF mode.stream THEN Shown(taken') ELSE <<>>
    PROVE  DeliveryInvariant'
<1>1. events' = events /\ mode' = mode /\ pc' # "done" /\ pc' # "submitted" /\ log' = log
      /\ cancelled' = cancelled
  BY DEF channelVars
<1>2. Len(events) \in Nat /\ taken' \in Nat
  BY RunningFacts
<1>3. EventsWellFormed'
  BY <1>1 DEF DeliveryInvariant, EventsWellFormed
<1>4. response' \in Seq(Frame)
  <2>1. PICK n \in Nat : n = taken'
    BY <1>2
  <2>2. Shown(n) \in Seq(Frame)
    BY ONLY n \in Nat, ShownGrows
  <2>4. <<>> \in Seq(Frame)
    OBVIOUS
  <2>3. Shown(taken') = Shown(n)
    BY <2>1
  <2> QED BY <2>2, <2>3, <2>4
<1>5. DeliveryTypes'
  BY <1>1, <1>2, <1>4 DEF DeliveryInvariant, DeliveryTypes
<1>6. RunningExact'
  BY <1>1 DEF DeliveryInvariant, RunningExact
<1> QED BY <1>1, <1>3, <1>5, <1>6 DEF DeliveryInvariant, DoneExact

-----------------------------------------------------------------------------
(* The steps of the worker. *)

\* The head of a response is written or the request ends.
LEMMA StartKeeps ==
    ASSUME DeliveryInvariant, Start
    PROVE  DeliveryInvariant'
<1> USE RunningFacts
<1>1. /\ pc = "submitted" /\ UNCHANGED <<channelVars, mode, taken, seen, text>>
      /\ taken = 0 /\ response = <<>>
      /\ ~mode.stream => text = taken
  BY DEF Start, DeliveryInvariant, RunningExact
<1>2. \/ /\ mode.stream /\ Written(<<Mark("head")>>, 1) /\ pc' = "poll" /\ UNCHANGED <<cancelled, log>>
      \/ Finish("disconnected") /\ UNCHANGED response
      \/ ~mode.stream /\ pc' = "poll" /\ UNCHANGED <<response, cancelled, log>>
  BY DEF Start
<1>3. CASE Finish("disconnected") /\ UNCHANGED response
  BY <1>1, <1>3, Fails
<1>4. CASE mode.stream /\ Written(<<Mark("head")>>, 1) /\ pc' = "poll" /\ UNCHANGED <<cancelled, log>>
  <2> DEFINE h == <<Mark("head")>>
  <2>1. h \in Seq(Frame) /\ Len(h) = 1
    BY DEF Mark, Frame
  <2>2. response' = <<>> \o SubSeq(h, 1, 1)
    BY <1>1, <1>4 DEF Written
  <2>3. Shown(0) = h \o <<>>
    BY DEF Shown, Tokens
  <2> HIDE DEF h
  <2>4. SubSeq(h, 1, 1) = h
    BY <2>1, SubSeqFull
  <2>5. <<>> \o h = h /\ h \o <<>> = h
    BY <2>1, ConcatEmptySeq
  <2>6. response' = Shown(taken')
    BY <1>1, <2>2, <2>3, <2>4, <2>5
  <2> QED BY <1>1, <1>4, <2>6, GoesOn
<1>5. CASE ~mode.stream /\ pc' = "poll" /\ UNCHANGED <<response, cancelled, log>>
  BY <1>1, <1>5, GoesOn
<1> QED BY <1>2, <1>3, <1>4, <1>5

\* Polling changes nothing.
LEMMA EventWaitKeeps ==
    ASSUME DeliveryInvariant, EventWait
    PROVE  DeliveryInvariant'
<1>1. /\ pc = "poll" /\ pc' \in {"recv", "expired"}
      /\ UNCHANGED <<channelVars, mode, taken, seen, text, response, cancelled, log>>
  BY DEF EventWait
<1>2. /\ \A i \in 1..taken : events[i] = Engine!Token(i)
      /\ ~mode.stream => text = taken
  BY <1>1 DEF DeliveryInvariant, RunningExact
<1> QED BY <1>1, <1>2, RunningFacts, GoesOn

\* A request that expires is settled.
LEMMA ExpireKeeps ==
    ASSUME DeliveryInvariant, Expire
    PROVE  DeliveryInvariant'
<1>1. /\ pc = "expired" /\ UNCHANGED <<channelVars, mode, taken, seen, text>>
      /\ \/ Finish("disconnected") /\ UNCHANGED response
         \/ Finish("failed") /\ WriteError
  BY DEF Expire
<1>2. taken' \in 0..Len(events) /\ seen' \in Nat /\ seen' >= seen /\ text' \in Nat
  BY <1>1, RunningFacts
<1>3. CASE Finish("disconnected") /\ UNCHANGED response
  BY <1>1, <1>2, <1>3, Fails
<1>4. CASE Finish("failed") /\ WriteError
  BY <1>1, <1>2, <1>4, Fails
<1> QED BY <1>1, <1>3, <1>4

\* The event of a server that stops is not shown.
LEMMA RefuseEventKeeps ==
    ASSUME DeliveryInvariant, RefuseEvent
    PROVE  DeliveryInvariant'
<1>1. PICK e \in ToSet(events) : Receives(e)
  BY DEF RefuseEvent
<1>2. /\ pc = "recv" /\ UNCHANGED <<channelVars, mode, seen, text>>
      /\ \/ Finish("disconnected") /\ UNCHANGED response
         \/ \E k \in 0..Len(ErrorFrames) :
               /\ Written(ErrorFrames, k)
               /\ Finish(IF k = Len(ErrorFrames) THEN "failed" ELSE "disconnected")
  BY <1>1 DEF RefuseEvent, Receives
<1>3. taken' = taken + 1 /\ taken' \in 0..Len(events)
  BY <1>1, <1>2, ReceivesEvent, RunningFacts DEF Receives
<1>4. seen' \in Nat /\ seen' >= seen /\ text' \in Nat
  BY <1>2, RunningFacts
<1>5. CASE Finish("disconnected") /\ UNCHANGED response
  BY <1>2, <1>3, <1>4, <1>5, Fails
<1>6. CASE \E k \in 0..Len(ErrorFrames) :
               /\ Written(ErrorFrames, k)
               /\ Finish(IF k = Len(ErrorFrames) THEN "failed" ELSE "disconnected")
  <2>1. WriteError
    BY <1>6 DEF WriteError
  <2>2. Finish("failed") \/ Finish("disconnected")
    BY <1>6
  <2>3. CASE Finish("failed")
    BY <1>2, <1>3, <1>4, <2>1, <2>3, Fails
  <2>4. CASE Finish("disconnected")
    BY <1>2, <1>3, <1>4, <2>1, <2>4, Fails
  <2> QED BY <2>2, <2>3, <2>4
<1> QED BY <1>2, <1>5, <1>6

\* A token that does not continue those observed ends the request.
LEMMA TokenInvalidKeeps ==
    ASSUME DeliveryInvariant, TokenInvalid
    PROVE  DeliveryInvariant'
<1>1. PICK e \in ToSet(events) : Receives(e)
  BY DEF TokenInvalid
<1>2. /\ pc = "recv" /\ UNCHANGED <<channelVars, mode, seen, text>>
      /\ WriteError /\ Finish("failed")
  BY <1>1 DEF TokenInvalid, Receives
<1>3. taken' = taken + 1 /\ taken' \in 0..Len(events)
  BY <1>1, <1>2, ReceivesEvent, RunningFacts DEF Receives
<1>4. seen' \in Nat /\ seen' >= seen /\ text' \in Nat
  BY <1>2, RunningFacts
<1> QED BY <1>2, <1>3, <1>4, Fails

\* The tokens received so far, after one more.
LEMMA TakesToken ==
    ASSUME DeliveryInvariant, pc # "done", NEW e \in ToSet(events), Receives(e), e.kind = "token"
    PROVE  /\ taken' = taken + 1 /\ taken' \in 0..Len(events) /\ taken' \in Nat
           /\ e.n = taken + 1
           /\ \A i \in 1..taken' : events[i] = Engine!Token(i)
<1>1. taken' = taken + 1 /\ taken \in Nat
  BY RunningFacts DEF Receives
<1>2. taken + 1 \in 1..Len(events) /\ e = events[taken + 1] /\ e = Engine!Token(taken + 1)
  BY ReceivesEvent
<1>3. \A i \in 1..taken : events[i] = Engine!Token(i)
  BY DEF DeliveryInvariant, RunningExact
<1>4. \A i \in 1..(taken + 1) : i \in 1..taken \/ i = taken + 1
  BY <1>1
<1>5. e.n = taken + 1
  BY <1>2 DEF Engine!Token
<1>6. \A i \in 1..taken' : events[i] = Engine!Token(i)
  BY <1>1, <1>2, <1>3, <1>4
<1> QED BY <1>1, <1>2, <1>5, <1>6, RunningFacts

\* A token shown is the next token of the stream.
LEMMA StreamTokenKeeps ==
    ASSUME DeliveryInvariant, StreamToken
    PROVE  DeliveryInvariant'
<1>1. PICK e \in ToSet(events), ok \in BOOLEAN :
         /\ Receives(e) /\ e.kind = "token" /\ Observes(e)
         /\ IF ok THEN Written(<<Token(e.n)>>, 1) /\ pc' = "poll" /\ UNCHANGED <<cancelled, log>>
            ELSE Finish("disconnected") /\ UNCHANGED response
  BY DEF StreamToken
<1>2. /\ pc = "recv" /\ mode.stream /\ seen' = seen + 1 /\ UNCHANGED <<channelVars, mode, text>>
  BY <1>1 DEF StreamToken, Receives
<1>3. /\ taken' = taken + 1 /\ taken' \in 0..Len(events) /\ taken' \in Nat /\ e.n = taken + 1
      /\ \A i \in 1..taken' : events[i] = Engine!Token(i)
  BY <1>1, <1>2, TakesToken
<1>4. seen' \in Nat /\ seen' >= seen /\ seen' = taken' /\ text' \in Nat
  BY <1>2, <1>3, RunningFacts
<1>5. CASE ok
  <2> DEFINE t == <<Token(taken + 1)>>
  <2>1. taken \in Nat /\ response = Shown(taken)
    BY <1>2, RunningFacts
  <2>2. t \in Seq(Frame) /\ Len(t) = 1
    BY <2>1 DEF Token, Frame
  <2>3. Shown(taken) \o t = Shown(taken + 1)
    BY <2>1, ShownGrows
  <2>4. response' = Shown(taken) \o SubSeq(t, 1, 1)
    BY <1>1, <1>3, <1>5, <2>1 DEF Written
  <2> HIDE DEF t
  <2>5. SubSeq(t, 1, 1) = t
    BY <2>2, SubSeqFull
  <2>6. response' = Shown(taken')
    BY <1>3, <2>3, <2>4, <2>5
  <2> QED BY <1>1, <1>2, <1>3, <1>4, <1>5, <2>6, GoesOn
<1>6. CASE ~ok
  BY <1>1, <1>2, <1>3, <1>4, <1>6, Fails
<1> QED BY <1>5, <1>6

\* A token collected is one byte more of the text.
LEMMA CollectTokenKeeps ==
    ASSUME DeliveryInvariant, CollectToken
    PROVE  DeliveryInvariant'
<1>1. PICK e \in ToSet(events) : Receives(e) /\ e.kind = "token"
  BY DEF CollectToken
<1>2. /\ pc = "recv" /\ ~mode.stream /\ seen' = seen + 1 /\ UNCHANGED <<channelVars, mode>>
      /\ \/ Finish("disconnected") /\ UNCHANGED <<text, response>>
         \/ WriteError /\ Finish("failed") /\ UNCHANGED text
         \/ text' = text + 1 /\ pc' = "poll" /\ UNCHANGED <<response, cancelled, log>>
  BY <1>1 DEF CollectToken, Receives
<1>3. /\ taken' = taken + 1 /\ taken' \in 0..Len(events) /\ taken' \in Nat
      /\ \A i \in 1..taken' : events[i] = Engine!Token(i)
  BY <1>1, <1>2, TakesToken
<1>4. seen' \in Nat /\ seen' >= seen /\ seen' = taken' /\ text \in Nat
  BY <1>2, <1>3, RunningFacts
<1>5. text = taken /\ response = <<>>
  BY <1>2 DEF DeliveryInvariant, RunningExact
<1>6. CASE Finish("disconnected") /\ UNCHANGED <<text, response>>
  BY <1>2, <1>3, <1>4, <1>6, Fails
<1>7. CASE WriteError /\ Finish("failed") /\ UNCHANGED text
  BY <1>2, <1>3, <1>4, <1>7, Fails
<1>8. CASE text' = text + 1 /\ pc' = "poll" /\ UNCHANGED <<response, cancelled, log>>
  BY <1>2, <1>3, <1>4, <1>5, <1>8, GoesOn
<1> QED BY <1>2, <1>6, <1>7, <1>8

\* A request counted as completed has delivered everything.
LEMMA Completes ==
    ASSUME DeliveryInvariant, pc # "done", NEW e \in ToSet(events), Receives(e), e.kind = "finished",
           UNCHANGED <<channelVars, mode>>, UsageValid(e),
           response' = IF mode.stream THEN Shown(taken) \o WithDone("finish") ELSE <<[body |-> taken]>>
    PROVE  CompletedIsComplete'
<1>1. events' = events /\ mode' = mode
  BY DEF channelVars
<1>2. Engine!HasEnded /\ taken + 1 = Len(events) /\ Last(events) = e
  BY ReceivesEvent
<1>3. taken \in Nat /\ Len(events) \in Nat /\ seen = taken
  BY RunningFacts
<1>4. Len(events) - 1 = taken
  BY <1>2, <1>3
<1>5. Engine!HasEnded'
  BY <1>1, <1>2 DEF Engine!HasEnded
<1>6. mode.ids => e.n = taken
  BY <1>3 DEF UsageValid
<1> QED BY <1>1, <1>2, <1>4, <1>5, <1>6 DEF CompletedIsComplete, Shown

\* The end of a stream is shown in part or in full.
LEMMA StreamTerminalKeeps ==
    ASSUME DeliveryInvariant, StreamTerminal
    PROVE  DeliveryInvariant'
<1>1. PICK e \in ToSet(events), k \in 0..3 :
         /\ Receives(e) /\ e.kind # "token"
         /\ LET frames == TerminalFrames(e)
                rejected == e.kind = "finished" /\ ~UsageValid(e)
            IN  /\ k <= Len(frames)
                /\ Written(frames, k)
                /\ Settle(IF rejected THEN "failed"
                          ELSE IF k < Len(frames) THEN "disconnected"
                          ELSE IF e.kind = "finished" THEN "completed" ELSE "failed",
                          ~rejected /\ k = Len(frames))
  BY DEF StreamTerminal
<1>2. pc = "recv" /\ mode.stream /\ mode' = mode /\ UNCHANGED <<channelVars, mode, seen, text>>
  BY <1>1 DEF StreamTerminal, Receives
<1> DEFINE rejected == e.kind = "finished" /\ ~UsageValid(e)
           status == IF rejected THEN "failed"
                     ELSE IF k < 2 THEN "disconnected"
                     ELSE IF e.kind = "finished" THEN "completed" ELSE "failed"
           disarmed == ~rejected /\ k = 2
<1>3. PICK kind \in {"finish", "error"} :
         /\ TerminalFrames(e) = WithDone(kind)
         /\ kind = "finish" <=> e.kind = "finished" /\ UsageValid(e)
  BY DEF TerminalFrames
<1>4. Len(TerminalFrames(e)) = 2
  BY <1>3, DoneFrames
<1>5. k \in 0..2 /\ Written(WithDone(kind), k) /\ Settle(status, disarmed)
  BY <1>1, <1>3, <1>4
<1>6. /\ taken \in Nat /\ seen = taken /\ response = Shown(taken)
      /\ taken' = taken + 1 /\ seen' \in Nat /\ text' \in Nat /\ taken \in 0..seen'
  BY <1>1, <1>2, RunningFacts DEF Receives
<1>7. Engine!HasEnded /\ taken' = Len(events) /\ taken' \in 0..Len(events)
  BY <1>1, <1>2, <1>6, ReceivesEvent
<1>8. response' = Shown(taken) \o SubSeq(WithDone(kind), 1, k)
  BY <1>5, <1>6 DEF Written
<1>9. /\ response' \in Seq(Frame)
      /\ IsPrefix(response', Shown(taken) \o WithDone(kind))
      /\ k = 2 => /\ response' = Shown(taken) \o WithDone(kind)
                  /\ response' # <<>> /\ Last(response') = Mark("done")
  BY <1>5, <1>6, <1>8, EndsStream
<1>10. ResponseWellFormed'
  BY <1>2, <1>6, <1>9 DEF ResponseWellFormed, Shown
<1>11. Mark("done") # Mark("head")
  BY DEF Mark
<1>12. disarmed => response' # <<>> /\ Last(response') # Mark("head")
  BY <1>9, <1>11
<1>13. ASSUME status = "completed" PROVE CompletedIsComplete'
  <2>1. e.kind = "finished" /\ UsageValid(e) /\ k = 2
    BY <1>13, <1>5
  <2>2. response' = Shown(taken) \o WithDone("finish")
    BY <1>3, <1>9, <2>1
  <2> QED BY <1>1, <1>2, <2>1, <2>2, Completes
<1>14. disarmed \in BOOLEAN
  OBVIOUS
<1> HIDE DEF status, disarmed
<1>15. pc # "done"
  BY <1>2
<1> QED BY <1>2, <1>5, <1>6, <1>7, <1>9, <1>10, <1>12, <1>13, <1>14, <1>15, Ends

\* A JSON body is written or not.
LEMMA CollectTerminalKeeps ==
    ASSUME DeliveryInvariant, CollectTerminal
    PROVE  DeliveryInvariant'
<1>1. PICK e \in ToSet(events), ok \in BOOLEAN, oversized \in BOOLEAN :
         /\ Receives(e) /\ e.kind # "token"
         /\ LET good == e.kind = "finished"
                rejected == good /\ (~UsageValid(e) \/ oversized)
                body == IF good /\ ~rejected THEN [body |-> text] ELSE Mark("error")
            IN  /\ Written(<<body>>, IF ok THEN 1 ELSE 0)
                /\ Settle(IF rejected THEN "failed" ELSE IF ~ok THEN "disconnected"
                          ELSE IF good THEN "completed" ELSE "failed",
                          ~rejected /\ ok)
  BY DEF CollectTerminal
<1>2. pc = "recv" /\ ~mode.stream /\ mode' = mode /\ UNCHANGED <<channelVars, mode, seen, text>>
  BY <1>1 DEF CollectTerminal, Receives
<1> DEFINE good == e.kind = "finished"
           rejected == good /\ (~UsageValid(e) \/ oversized)
           body == IF good /\ ~rejected THEN [body |-> text] ELSE Mark("error")
           status == IF rejected THEN "failed" ELSE IF ~ok THEN "disconnected"
                     ELSE IF good THEN "completed" ELSE "failed"
           disarmed == ~rejected /\ ok
           k == IF ok THEN 1 ELSE 0
<1>3. Written(<<body>>, k) /\ Settle(status, disarmed)
  BY <1>1
<1>4. text = taken /\ response = <<>>
  BY <1>2 DEF DeliveryInvariant, RunningExact
<1>5. /\ taken \in Nat /\ taken' = taken + 1 /\ seen' \in Nat /\ text' \in Nat
  BY <1>1, <1>2, RunningFacts DEF Receives
<1>6. Engine!HasEnded /\ taken' = Len(events) /\ taken' \in 0..Len(events)
  BY <1>1, <1>2, <1>5, RunningFacts, ReceivesEvent
<1>7. body \in Frame /\ body # Mark("head")
  BY <1>4, <1>5 DEF Frame, Mark
<1>8. good /\ ~rejected => body = [body |-> taken]
  BY <1>4
<1>9. status = "completed" => good /\ ~rejected /\ UsageValid(e) /\ ok
  OBVIOUS
<1>10. disarmed => ok
  OBVIOUS
<1>11. disarmed \in BOOLEAN /\ k \in 0..1 /\ (ok => k = 1)
  OBVIOUS
<1> HIDE DEF body, status, disarmed, k, rejected
<1> DEFINE b == <<body>>
<1>12. b \in Seq(Frame) /\ Len(b) = 1 /\ b[1] = body
  BY <1>7
<1>13. response' = <<>> \o SubSeq(b, 1, k)
  BY <1>3, <1>4 DEF Written
<1> HIDE DEF b
<1>14. <<>> \in Seq(Frame) /\ Len(<<>>) = 0 /\ k \in 0..Len(b)
  BY <1>11, <1>12
<1>15. response' \in Seq(Frame) /\ Len(response') = Len(<<>>) + k
  BY <1>12, <1>13, <1>14, PartIsPrefix
<1>16. ResponseWellFormed'
  BY <1>2, <1>11, <1>14, <1>15 DEF ResponseWellFormed
<1>17. ok => response' = b
  <2>1. SubSeq(b, 1, 1) = b
    BY <1>12, SubSeqFull
  <2>2. <<>> \o b = b
    BY <1>12, ConcatEmptySeq
  <2> QED BY <1>11, <1>13, <2>1, <2>2
<1>18. disarmed => response' # <<>> /\ Last(response') # Mark("head")
  <2>1. b # <<>> /\ Last(b) # Mark("head")
    <3>1. b # <<>>
      BY DEF b
    <3>2. Last(b) = b[1]
      BY <1>12 DEF Last
    <3> QED BY <3>1, <3>2, <1>7, <1>12
  <2> QED BY <1>10, <1>17, <2>1
<1>19. ASSUME status = "completed" PROVE CompletedIsComplete'
  <2>1. response' = <<[body |-> taken]>>
    BY <1>8, <1>9, <1>17, <1>19 DEF b
  <2> QED BY <1>1, <1>2, <1>9, <1>19, <2>1, Completes
<1>20. pc # "done"
  BY <1>2
<1> QED BY <1>2, <1>3, <1>5, <1>6, <1>11, <1>15, <1>16, <1>18, <1>19, <1>20, Ends

\* A timeout of recv changes nothing unless the client is gone.
LEMMA RecvTimeoutKeeps ==
    ASSUME DeliveryInvariant, RecvTimeout
    PROVE  DeliveryInvariant'
<1>1. /\ pc = "recv" /\ UNCHANGED <<channelVars, mode, taken, seen, text, response>>
      /\ \/ Finish("disconnected")
         \/ pc' = "poll" /\ UNCHANGED <<cancelled, log>>
  BY DEF RecvTimeout
<1>2. /\ \A i \in 1..taken : events[i] = Engine!Token(i)
      /\ ~mode.stream => text = taken
  BY <1>1 DEF DeliveryInvariant, RunningExact
<1>3. CASE Finish("disconnected")
  BY <1>1, <1>3, RunningFacts, Fails
<1>4. CASE pc' = "poll" /\ UNCHANGED <<cancelled, log>>
  BY <1>1, <1>2, <1>4, RunningFacts, GoesOn
<1> QED BY <1>1, <1>3, <1>4

\* A channel hung up without a terminal event fails the request.
LEMMA RecvDisconnectedKeeps ==
    ASSUME DeliveryInvariant, ChannelDisconnected
    PROVE  DeliveryInvariant'
<1>1. /\ pc = "recv" /\ UNCHANGED <<channelVars, mode, taken, seen, text>>
      /\ WriteError /\ Finish("failed")
  BY DEF ChannelDisconnected
<1> QED BY <1>1, RunningFacts, Fails

-----------------------------------------------------------------------------
(* The rest of the world. *)

\* A channel that grows stays well formed, and what a worker took or claimed is not
\* disturbed: a channel that ended does not grow.
LEMMA GrowsKeeps ==
    ASSUME DeliveryInvariant, NEW e \in ReceivedEvent, ~Engine!HasEnded,
           events' = Append(events, e),
           e = Engine!Token(Len(events) + 1) \/ e.kind \in Engine!Terminals,
           UNCHANGED <<mode, deliveringVars>>
    PROVE  DeliveryInvariant'
<1>1. /\ events \in Seq(ReceivedEvent) /\ Len(events) \in Nat /\ taken \in 0..Len(events)
      /\ \A i \in 1..Len(events) :
            events[i] = Engine!Token(i) \/ (i = Len(events) /\ events[i].kind \in Engine!Terminals)
  BY LenProperties DEF DeliveryInvariant, EventsWellFormed, DeliveryTypes
<1>2. /\ events' \in Seq(ReceivedEvent) /\ Len(events') = Len(events) + 1
      /\ \A i \in 1..Len(events) : events'[i] = events[i]
      /\ events'[Len(events) + 1] = e
  BY <1>1, AppendProperties
<1>3. \A i \in 1..Len(events) : events[i] = Engine!Token(i)
  <2> SUFFICES ASSUME NEW i \in 1..Len(events), i = Len(events), events[i].kind \in Engine!Terminals
               PROVE  FALSE
    BY <1>1
  <2>1. events # <<>> /\ Last(events).kind \in Engine!Terminals
    BY <1>1 DEF Last
  <2> QED BY <2>1, Zenon DEF Engine!HasEnded, Engine!Last, Last
<1>4. EventsWellFormed'
  <2> SUFFICES ASSUME NEW i \in 1..Len(events')
               PROVE  \/ events'[i] = Engine!Token(i)
                      \/ i = Len(events') /\ events'[i].kind \in Engine!Terminals
    BY <1>2 DEF EventsWellFormed
  <2>1. i \in 1..Len(events) \/ i = Len(events) + 1
    BY <1>1, <1>2
  <2> QED BY <1>2, <1>3, <2>1
<1>5. UNCHANGED <<mode, taken, seen, text, response, cancelled, log, pc>>
  BY DEF deliveringVars
<1>6. DeliveryTypes'
  <2>1. taken \in 0..Len(events')
    BY <1>1, <1>2
  <2> QED BY <1>5, <2>1 DEF DeliveryInvariant, DeliveryTypes
<1>7. RunningExact'
  <2>1. \A i \in 1..taken : i \in 1..Len(events)
    BY <1>1
  <2> QED BY <1>2, <1>5, <2>1 DEF DeliveryInvariant, RunningExact
<1>8. DoneExact'
  <2>1. CASE pc # "done"
    BY <1>5, <2>1 DEF DoneExact
  <2>2. CASE pc = "done"
    <3>1. ResponseWellFormed'
      BY <1>5, <2>2 DEF DeliveryInvariant, DoneExact, ResponseWellFormed
    <3>2. CompletedIsComplete'
      BY <1>5, <2>2 DEF DeliveryInvariant, DoneExact, CompletedIsComplete
    <3>3. RequestsSettled'
      BY <1>5, <2>2 DEF DeliveryInvariant, DoneExact, RequestsSettled
    <3> QED BY <3>1, <3>2, <3>3 DEF DoneExact
  <2> QED BY <2>1, <2>2
<1> QED BY <1>4, <1>6, <1>7, <1>8 DEF DeliveryInvariant

\* Steps that leave channel and worker alone disturb nothing.
LEMMA Untouched ==
    ASSUME DeliveryInvariant, UNCHANGED <<events, mode, deliveringVars>>
    PROVE  DeliveryInvariant'
<1>1. UNCHANGED <<events, mode, taken, seen, text, response, cancelled, log, pc>>
  BY DEF deliveringVars
<1>2. EventsWellFormed' /\ DeliveryTypes' /\ RunningExact'
  BY <1>1 DEF DeliveryInvariant, EventsWellFormed, DeliveryTypes, RunningExact
<1>3. ResponseWellFormed' <=> ResponseWellFormed
  BY <1>1 DEF ResponseWellFormed
<1>4. CompletedIsComplete' <=> CompletedIsComplete
  BY <1>1 DEF CompletedIsComplete, Engine!HasEnded
<1>5. RequestsSettled' <=> RequestsSettled
  BY <1>1 DEF RequestsSettled, Engine!HasEnded
<1> QED BY <1>1, <1>2, <1>3, <1>4, <1>5 DEF DeliveryInvariant, DoneExact

\* What the engine sends.
LEMMA ProduceKeeps ==
    ASSUME DeliveryInvariant, Produce
    PROVE  DeliveryInvariant'
<1>1. UNCHANGED <<mode, deliveringVars>>
  BY DEF Produce
<1>2. Len(events) \in Nat
  BY LenProperties DEF DeliveryInvariant, EventsWellFormed
<1>3. CASE Engine!Emit
  <2>1. Engine!Token(Len(events) + 1) \in ReceivedEvent
    BY <1>2 DEF Engine!Token, ReceivedEvent, ReceivedPayload
  <2> QED BY <1>1, <1>3, <2>1, GrowsKeeps DEF Engine!Emit
<1>4. CASE Engine!End
  <2>1. PICK kind \in Engine!Terminals, n \in 0..Limit :
           events' = Append(events, [kind |-> kind, n |-> n])
    BY <1>4 DEF Engine!End
  <2>2. [kind |-> kind, n |-> n] \in ReceivedEvent /\ [kind |-> kind, n |-> n].kind \in Engine!Terminals
    BY DEF ReceivedEvent, ReceivedPayload
  <2>3. ~Engine!HasEnded
    BY <1>4 DEF Engine!End
  <2> QED BY <1>1, <2>1, <2>2, <2>3, GrowsKeeps
<1>5. CASE Engine!HangUp
  BY <1>1, <1>5, Untouched DEF Engine!HangUp
<1> QED BY <1>3, <1>4, <1>5 DEF Produce

\* The invariant holds when a request is submitted.
LEMMA Starts ==
    ASSUME DeliveryInit
    PROVE  DeliveryInvariant
<1>1. events = <<>> /\ events \in Seq(ReceivedEvent) /\ Len(events) = 0
  BY DEF DeliveryInit
<1>2. EventsWellFormed
  BY <1>1 DEF EventsWellFormed
<1>3. response \in Seq(Frame) /\ response = <<>>
  BY DEF DeliveryInit
<1>4. DeliveryTypes
  BY <1>1, <1>3 DEF DeliveryInit, DeliveryTypes
<1>5. RunningExact
  BY <1>1 DEF DeliveryInit, RunningExact
<1>6. DoneExact
  BY DEF DeliveryInit, DoneExact
<1> QED BY <1>2, <1>4, <1>5, <1>6 DEF DeliveryInvariant

\* Every step of the worker, the engine, the server and the client preserves it.
LEMMA Preserved ==
    ASSUME DeliveryInvariant, [DeliveryNext]_deliveryVars
    PROVE  DeliveryInvariant'
<1>1. CASE Worker
  BY <1>1, StartKeeps, EventWaitKeeps, ExpireKeeps, RefuseEventKeeps, TokenInvalidKeeps,
     StreamTokenKeeps, CollectTokenKeeps, StreamTerminalKeeps, CollectTerminalKeeps,
     RecvTimeoutKeeps, RecvDisconnectedKeeps DEF Worker
<1>2. CASE Produce
  BY <1>2, ProduceKeeps
<1>3. CASE Stop
  BY <1>3, Untouched DEF Stop, channelVars
<1>4. CASE PassDeadline
  BY <1>4, Untouched DEF PassDeadline, channelVars
<1>5. CASE Leave
  BY <1>5, Untouched DEF Leave, channelVars
<1>6. CASE UNCHANGED deliveryVars
  BY <1>6, Untouched DEF deliveryVars, channelVars
<1> QED BY <1>1, <1>2, <1>3, <1>4, <1>5, <1>6 DEF DeliveryNext

\* While a worker runs, what it has written so far is well formed and nothing is
\* claimed of it.
LEMMA RunningFaithful ==
    ASSUME DeliveryInvariant
    PROVE  ResponseFaithful /\ RequestsSettled
<1>1. CASE pc = "done"
  BY <1>1 DEF DeliveryInvariant, DoneExact, ResponseFaithful
<1>2. CASE pc # "done"
  <2>1. /\ mode \in [stream : BOOLEAN, ids : BOOLEAN] /\ taken \in Nat /\ seen = taken /\ log = <<>>
        /\ response = IF mode.stream /\ pc # "submitted" THEN Shown(taken) ELSE <<>>
    BY <1>2, RunningFacts DEF DeliveryInvariant, RunningExact
  <2>2. ResponseWellFormed
    <3>1. CASE mode.stream
      <4>1. IsPrefix(response, Shown(taken) \o WithDone("error")) /\ taken \in 0..seen
        BY <2>1, <3>1, ShownIsPrefix
      <4> QED BY <3>1, <4>1 DEF ResponseWellFormed, Shown
    <3>2. CASE ~mode.stream
      BY <2>1, <3>2 DEF ResponseWellFormed
    <3> QED BY <3>1, <3>2
  <2>3. CompletedIsComplete
    BY <2>1 DEF CompletedIsComplete
  <2> QED BY <1>2, <2>2, <2>3 DEF ResponseFaithful, RequestsSettled
<1> QED BY <1>1, <1>2

\* DeliveryInvariant is an invariant of the delivery of a completion.
THEOREM DeliveryInvariantHolds == DeliverySpec => []DeliveryInvariant
<1>1. DeliveryInit => DeliveryInvariant
  BY Starts
<1>2. DeliveryInvariant /\ [DeliveryNext]_deliveryVars => DeliveryInvariant'
  BY Preserved
<1> QED BY <1>1, <1>2, PTL DEF DeliverySpec

\* Whatever the engine sends, the client does and the server decides, between any
\* two accesses of stream_completion and collect_completion: what the client reads
\* is a prefix of one well-formed response, and what is counted as completed is all
\* of one.
THEOREM ResponseCorrect == DeliverySpec => []ResponseFaithful
<1>1. DeliveryInvariant => ResponseFaithful
  BY RunningFaithful
<1> QED BY <1>1, DeliveryInvariantHolds, PTL

\* No early return of stream_completion or collect_completion leaves a request
\* running or observed other than once.
THEOREM SettledCorrect == DeliverySpec => []RequestsSettled
<1>1. DeliveryInvariant => RequestsSettled
  BY RunningFaithful
<1> QED BY <1>1, DeliveryInvariantHolds, PTL
=============================================================================
