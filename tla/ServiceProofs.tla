---------------------------- MODULE ServiceProofs ----------------------------
(***************************************************************************)
(* Proofs about the HTTP service, for every number of connections, workers *)
(* and queue places and any number of failures.                            *)
(***************************************************************************)
EXTENDS Service, FiniteSetTheorems, SequenceTheorems, WellFoundedInduction, TLAPS

-----------------------------------------------------------------------------
(* The inductive invariant. *)

ListenerPcs == {"loop", "wait", "accepted", "register", "send", "full", "closed", "exit", "gone"}
WorkerPcs == {"lock", "recv", "got", "framing", "framed", "route", "submit", "serve", "close",
              "unregister", "gone", "panicked"}
OwnerPcs == {"idle", "wake", "begin", "framing", "spawn", "listener", "grace", "force", "workers",
             "backend", "returned"}
Results == {"none", "unavailable", "deadline", "backend", "panicked", "ok"}

ServiceTypes ==
    /\ backlog \in SUBSET Connections
    /\ socket \in [Connections -> {"none", "open", "shut"}]
    /\ slots \in [Slots -> [conn : Connections \union {None}, phase : {"framing", "serving"}]]
    /\ queue \in Seq([conn : Connections, slot : Slots]) /\ Len(queue) <= QueueCapacity
    /\ listener \in [pc : ListenerPcs, conn : Connections \union {None}, slot : Slots \union {0}]
    /\ worker \in [Workers -> [pc : WorkerPcs, conn : Connections \union {None},
                               slot : Slots \union {0}]]
    /\ stopping \in BOOLEAN /\ woken \in BOOLEAN
    /\ backend \in {"accepting", "draining", "stopped", "failed"}
    /\ request \in [Connections -> {"none", "live", "settled"}]
    /\ owner \in [pc : OwnerPcs, result : Results]
    /\ expired \in BOOLEAN /\ faults \in Nat

\* The listener has registered the connection it holds.
Registering == listener.pc \in {"send", "full", "closed"}
\* The listener has a connection that has no slot yet.
Accepted == listener.pc \in {"accepted", "register"}
\* Worker w has a connection.
Busy(w) == worker[w].pc \notin {"lock", "recv", "gone"}

\* A thread has a connection exactly between taking it and giving it up.
HoldersTyped ==
    /\ listener.conn # None <=> Accepted \/ Registering
    /\ Registering => listener.slot \in Slots
    /\ \A w \in Workers : /\ worker[w].conn # None <=> Busy(w)
                          /\ Busy(w) => worker[w].slot \in Slots

\* Whoever holds a registered connection knows its slot.
HoldersRegistered ==
    /\ Registering =>
          slots[listener.slot].conn = listener.conn /\ slots[listener.slot].phase = "framing"
    /\ \A i \in DOMAIN queue :
          slots[queue[i].slot].conn = queue[i].conn /\ slots[queue[i].slot].phase = "framing"
    /\ \A w \in Workers : Busy(w) =>
          /\ slots[worker[w].slot].conn = worker[w].conn
          /\ worker[w].pc \in {"got", "framing", "framed"} =>
                slots[worker[w].slot].phase = "framing"

\* No slot has two holders.
HoldersDistinct ==
    /\ Registering => /\ \A i \in DOMAIN queue : queue[i].slot # listener.slot
                      /\ \A w \in Workers : Busy(w) => worker[w].slot # listener.slot
    /\ \A i, j \in DOMAIN queue : queue[i].slot = queue[j].slot => i = j
    /\ \A i \in DOMAIN queue, w \in Workers : Busy(w) => queue[i].slot # worker[w].slot
    /\ \A v, w \in Workers : Busy(v) /\ Busy(w) /\ worker[v].slot = worker[w].slot => v = w

\* A slot in use has a holder.
SlotsHeld ==
    \A s \in Slots : slots[s].conn # None =>
        \/ Registering /\ listener.slot = s
        \/ \E i \in DOMAIN queue : queue[i].slot = s
        \/ \E w \in Workers : Busy(w) /\ worker[w].slot = s

\* No connection has two slots.
SlotsDistinct ==
    \A s, t \in Slots : slots[s].conn = slots[t].conn /\ slots[s].conn # None => s = t

\* A connection in the backlog is open, and nobody has it.
BacklogFresh ==
    \A c \in backlog :
        socket[c] = "open" /\ c # listener.conn /\ \A s \in Slots : slots[s].conn # c

\* A connection that was accepted is open, and has no slot before it is registered.
AcceptedFresh ==
    Accepted =>
        socket[listener.conn] = "open" /\ \A s \in Slots : slots[s].conn # listener.conn

\* Only established connections are registered.
SlotsEstablished == \A s \in Slots : slots[s].conn # None => socket[slots[s].conn] # "none"

\* An open connection is in the backlog, with the listener or registered.
OpenPlaced ==
    \A c \in Connections : socket[c] = "open" =>
        c \in backlog \/ c = listener.conn \/ \E s \in Slots : slots[s].conn = c

\* A worker gives its slot back after it has closed the stream.
StreamsClosed ==
    \A w \in Workers : worker[w].pc = "unregister" => socket[worker[w].conn] = "shut"

\* A request runs only while a worker serves it.
RequestsServed ==
    \A c \in Connections : request[c] = "live" =>
        \E w \in Workers : worker[w].pc = "serve" /\ worker[w].conn = c

\* What has ended stays ended.
EndsFinal ==
    /\ listener.pc = "gone" => backlog = {}
    /\ \A w \in Workers : worker[w].pc = "gone" => listener.pc = "gone" /\ queue = <<>>
    /\ owner.pc # "idle" => stopping
    /\ owner.pc \in {"grace", "force", "workers", "backend"} => listener.pc = "gone"
    /\ owner.pc = "backend" => WorkersGone
    /\ owner.result = "ok" => /\ owner.pc = "returned" /\ backend = "stopped"
                              /\ \A w \in Workers : worker[w].pc = "gone"

IInv ==
    /\ ServiceTypes
    /\ HoldersTyped
    /\ HoldersRegistered
    /\ HoldersDistinct
    /\ SlotsHeld
    /\ SlotsDistinct
    /\ BacklogFresh /\ AcceptedFresh /\ SlotsEstablished /\ OpenPlaced
    /\ StreamsClosed /\ RequestsServed
    /\ EndsFinal
    /\ NoFramingAfterStop

-----------------------------------------------------------------------------
(* What the assignments of the model do, field by field. *)

\* A worker that moves on keeps its connection, and the others are as they were.
LEMMA WorkerGotoIs ==
    ASSUME ServiceTypes, NEW w \in Workers, NEW pc \in WorkerPcs, WorkerGoto(w, pc)
    PROVE  /\ worker' \in [Workers -> [pc : WorkerPcs, conn : Connections \union {None},
                                       slot : Slots \union {0}]]
           /\ \A v \in Workers : /\ worker'[v].conn = worker[v].conn
                                 /\ worker'[v].slot = worker[v].slot
                                 /\ worker'[v].pc = IF v = w THEN pc ELSE worker[v].pc
  BY DEF ServiceTypes, WorkerGoto

\* The listener moves on.
LEMMA ListenerGotoIs ==
    ASSUME ServiceTypes, NEW pc \in ListenerPcs, ListenerGoto(pc)
    PROVE  /\ listener' \in [pc : ListenerPcs, conn : Connections \union {None},
                             slot : Slots \union {0}]
           /\ listener'.pc = pc /\ listener'.conn = listener.conn
           /\ listener'.slot = listener.slot
  BY DEF ServiceTypes, ListenerGoto

\* Shutting sockets down closes those and no others.
LEMMA ShutIs ==
    ASSUME ServiceTypes, NEW S
    PROVE  /\ Shut(S) \in [Connections -> {"none", "open", "shut"}]
           /\ \A c \in Connections : Shut(S)[c] = IF c \in S THEN "shut" ELSE socket[c]
  BY DEF ServiceTypes, Shut

\* The fields of the holders, the queue and the registry.
LEMMA FieldTypes ==
    ASSUME IInv
    PROVE  /\ listener.conn \in Connections \union {None}
           /\ Registering \/ Accepted => listener.conn \in Connections
           /\ Registering => listener.slot \in Slots
           /\ \A w \in Workers : Busy(w) => worker[w].conn \in Connections /\ worker[w].slot \in Slots
           /\ \A i \in DOMAIN queue : queue[i].conn \in Connections /\ queue[i].slot \in Slots
           /\ \A s \in Slots : slots[s].conn \in Connections \union {None}
           /\ \A c \in backlog : c \in Connections /\ c # None
<1>1. queue \in Seq([conn : Connections, slot : Slots])
  BY DEF IInv, ServiceTypes
<1>2. \A i \in DOMAIN queue : queue[i] \in [conn : Connections, slot : Slots]
  BY <1>1, LenProperties, ElementOfSeq
<1>3. \A c \in backlog : c \in Connections /\ c # None
  BY ServiceAssumption DEF IInv, ServiceTypes
<1> QED BY <1>2, <1>3 DEF IInv, ServiceTypes, HoldersTyped

\* Closing sockets takes nothing from the workers, which expect theirs to be closed.
LEMMA ShutKeepsWorkers ==
    ASSUME IInv, NEW S, socket' = Shut(S), UNCHANGED <<worker, owner, request>>
    PROVE  StreamsClosed' /\ RequestsServed' /\ NoFramingAfterStop'
<1>1. \A w \in Workers : Busy(w) /\ socket[worker[w].conn] = "shut" =>
          socket'[worker[w].conn] = "shut"
  BY FieldTypes, ShutIs DEF IInv
<1>2. StreamsClosed' /\ NoFramingAfterStop'
  BY <1>1 DEF IInv, StreamsClosed, NoFramingAfterStop, Busy
<1>3. RequestsServed'
  BY DEF IInv, RequestsServed
<1> QED BY <1>2, <1>3

-----------------------------------------------------------------------------
(* Steps of the listener. *)

\* The listener goes from one idle point of its loop to another, or ends the loop.
LEMMA ListenerIdles ==
    ASSUME IInv, listener.pc \in {"loop", "wait"},
           NEW pc \in {"loop", "wait", "exit"}, ListenerGoto(pc), faults' \in Nat,
           UNCHANGED <<backlog, socket, slots, queue, worker, stopping, woken, backend, request,
                       owner, expired>>
    PROVE  IInv'
<1> USE DEF IInv
<1>1. /\ listener' \in [pc : ListenerPcs, conn : Connections \union {None},
                        slot : Slots \union {0}]
      /\ listener'.pc = pc /\ listener'.conn = listener.conn
  BY ListenerGotoIs DEF ListenerPcs
<1>2. ~Registering /\ ~Accepted /\ ~Registering' /\ ~Accepted' /\ listener.pc # "gone"
  BY <1>1 DEF Registering, Accepted
<1>3. ServiceTypes'
  BY <1>1 DEF ServiceTypes
<1>4. HoldersTyped'
  BY <1>1, <1>2 DEF HoldersTyped, Busy
<1>5. HoldersRegistered' /\ HoldersDistinct' /\ SlotsHeld' /\ SlotsDistinct'
  BY <1>2 DEF HoldersRegistered, HoldersDistinct, SlotsHeld, SlotsDistinct, Busy
<1>6. BacklogFresh' /\ AcceptedFresh' /\ SlotsEstablished' /\ OpenPlaced'
  BY <1>1, <1>2 DEF BacklogFresh, AcceptedFresh, SlotsEstablished, OpenPlaced
<1>7. StreamsClosed' /\ RequestsServed' /\ NoFramingAfterStop'
  BY DEF StreamsClosed, RequestsServed, NoFramingAfterStop
<1>8. EndsFinal'
  BY <1>1, <1>2 DEF EndsFinal, WorkersGone
<1> QED BY <1>3, <1>4, <1>5, <1>6, <1>7, <1>8

\* The listener takes a connection from the backlog, or finds nothing to take.
LEMMA AcceptInv == ASSUME IInv, Accept PROVE IInv'
<1>1. CASE stopping \/ backlog = {}
  <2>1. \E pc \in {"loop", "wait", "exit"} : ListenerGoto(pc)
    BY <1>1 DEF Accept
  <2>2. /\ listener.pc = "loop" /\ faults' \in Nat
        /\ UNCHANGED <<backlog, socket, slots, queue, worker, stopping, woken, backend, request,
                       owner, expired>>
    BY <1>1 DEF Accept, IInv, ServiceTypes
  <2> QED BY <2>1, <2>2, ListenerIdles
<1>2. CASE ~stopping /\ backlog # {}
  <2> USE DEF IInv
  <2>1. PICK c \in backlog : /\ backlog' = backlog \ {c}
                             /\ listener' = [pc |-> "accepted", conn |-> c, slot |-> 0]
    BY <1>2 DEF Accept
  <2>2. /\ listener.pc = "loop" /\ c \in Connections /\ c # None
        /\ UNCHANGED <<socket, slots, queue, worker, stopping, woken, backend, request, owner,
                       expired, faults>>
    BY ServiceAssumption DEF Accept, ServiceTypes
  <2>3. listener'.pc = "accepted" /\ listener'.conn = c
    BY <2>1
  <2>4. ~Registering /\ ~Accepted /\ ~Registering' /\ Accepted' /\ listener.conn = None
    BY <2>2, <2>3 DEF Registering, Accepted, HoldersTyped
  <2>5. ServiceTypes'
    BY <2>1, <2>2 DEF ServiceTypes, ListenerPcs
  <2>6. HoldersTyped'
    BY <2>2, <2>3, <2>4 DEF HoldersTyped, Busy
  <2>7. HoldersRegistered' /\ HoldersDistinct' /\ SlotsHeld' /\ SlotsDistinct'
    BY <2>2, <2>4 DEF HoldersRegistered, HoldersDistinct, SlotsHeld, SlotsDistinct, Busy
  <2>8. BacklogFresh' /\ AcceptedFresh' /\ SlotsEstablished' /\ OpenPlaced'
    <3>1. BacklogFresh' /\ AcceptedFresh'
      BY <2>1, <2>2, <2>3 DEF BacklogFresh, AcceptedFresh
    <3>2. SlotsEstablished'
      BY <2>2 DEF SlotsEstablished
    <3>3. OpenPlaced'
      BY <2>1, <2>2, <2>3, <2>4, ServiceAssumption DEF OpenPlaced
    <3> QED BY <3>1, <3>2, <3>3
  <2>9. StreamsClosed' /\ RequestsServed' /\ NoFramingAfterStop'
    BY <2>2 DEF StreamsClosed, RequestsServed, NoFramingAfterStop
  <2>10. EndsFinal'
    BY <2>2, <2>3 DEF EndsFinal, WorkersGone
  <2> QED BY <2>5, <2>6, <2>7, <2>8, <2>9, <2>10
<1> QED BY <1>1, <1>2

\* accept or poll fails.
LEMMA AcceptFailsInv == ASSUME IInv, AcceptFails PROVE IInv'
<1>1. faults' \in Nat
  BY DEF AcceptFails, IInv, ServiceTypes
<1> QED BY <1>1, ListenerIdles DEF AcceptFails

\* poll returns.
LEMMA WaitInv == ASSUME IInv, Wait PROVE IInv'
<1>1. faults' \in Nat
  BY DEF Wait, IInv, ServiceTypes
<1>2. \E pc \in {"loop", "wait", "exit"} : ListenerGoto(pc)
  BY DEF Wait
<1> QED BY <1>1, <1>2, ListenerIdles DEF Wait

\* The listener closes a connection it has not registered.
LEMMA ListenerRefuses ==
    ASSUME IInv, Accepted, socket' = Shut({listener.conn}),
           NEW pc \in {"loop", "exit"}, listener' = [listener EXCEPT !.pc = pc, !.conn = None],
           UNCHANGED <<backlog, slots, queue, worker, stopping, woken, backend, request, owner,
                       expired, faults>>
    PROVE  IInv'
<1> USE DEF IInv
<1>1. /\ listener'.pc = pc /\ listener'.conn = None
      /\ listener' \in [pc : ListenerPcs, conn : Connections \union {None},
                        slot : Slots \union {0}]
  BY DEF ServiceTypes, ListenerPcs
<1>2. /\ ~Registering /\ ~Registering' /\ ~Accepted' /\ listener.pc # "gone"
      /\ listener.conn \in Connections
  BY <1>1 DEF Registering, Accepted, HoldersTyped, ServiceTypes
<1>3. /\ socket' \in [Connections -> {"none", "open", "shut"}]
      /\ \A c \in Connections :
            socket'[c] = IF c = listener.conn THEN "shut" ELSE socket[c]
  BY ShutIs
<1>4. ServiceTypes'
  BY <1>1, <1>3 DEF ServiceTypes
<1>5. HoldersTyped'
  BY <1>1, <1>2 DEF HoldersTyped, Busy
<1>6. HoldersRegistered' /\ HoldersDistinct' /\ SlotsHeld' /\ SlotsDistinct'
  BY <1>2 DEF HoldersRegistered, HoldersDistinct, SlotsHeld, SlotsDistinct, Busy
<1>7. BacklogFresh' /\ AcceptedFresh' /\ SlotsEstablished' /\ OpenPlaced'
  <2>1. BacklogFresh'
    <3>1. \A c \in backlog : c \in Connections /\ c # None
      BY ServiceAssumption DEF ServiceTypes
    <3> QED BY <3>1, <1>1, <1>3 DEF BacklogFresh
  <2>2. SlotsEstablished'
    BY <1>3, FieldTypes DEF SlotsEstablished
  <2>3. AcceptedFresh'
    BY <1>2 DEF AcceptedFresh
  <2>4. OpenPlaced'
    BY <1>1, <1>2, <1>3 DEF OpenPlaced
  <2> QED BY <2>1, <2>2, <2>3, <2>4
<1>8. StreamsClosed' /\ RequestsServed' /\ NoFramingAfterStop'
  BY ShutKeepsWorkers
<1>9. EndsFinal'
  BY <1>1, <1>2 DEF EndsFinal, WorkersGone
<1> QED BY <1>4, <1>5, <1>6, <1>7, <1>8, <1>9

\* The accepted socket is configured and the stop flag read again.
LEMMA AfterAcceptInv == ASSUME IInv, AfterAccept PROVE IInv'
<1>1. /\ Accepted /\ listener.pc = "accepted"
      /\ UNCHANGED <<backlog, slots, queue, worker, stopping, woken, backend, request, owner,
                     expired, faults>>
  BY DEF AfterAccept, Accepted
<1>2. ASSUME NEW pc \in {"loop", "exit"}, socket' = Shut({listener.conn}),
             listener' = [listener EXCEPT !.pc = pc, !.conn = None]
      PROVE  IInv'
  BY <1>1, <1>2, ListenerRefuses
<1>3. ASSUME UNCHANGED socket, ListenerGoto("register")
      PROVE  IInv'
  <2> USE DEF IInv
  <2>1. /\ listener' \in [pc : ListenerPcs, conn : Connections \union {None},
                          slot : Slots \union {0}]
        /\ listener'.pc = "register" /\ listener'.conn = listener.conn
    BY <1>3, ListenerGotoIs DEF ListenerPcs
  <2>2. ~Registering /\ ~Registering' /\ Accepted'
    BY <1>1, <2>1 DEF Registering, Accepted
  <2>3. ServiceTypes'
    BY <1>1, <1>3, <2>1 DEF ServiceTypes
  <2>4. HoldersTyped'
    BY <1>1, <2>1, <2>2 DEF HoldersTyped, Busy
  <2>5. HoldersRegistered' /\ HoldersDistinct' /\ SlotsHeld' /\ SlotsDistinct'
    BY <1>1, <2>2 DEF HoldersRegistered, HoldersDistinct, SlotsHeld, SlotsDistinct, Busy
  <2>6. BacklogFresh' /\ AcceptedFresh' /\ SlotsEstablished' /\ OpenPlaced'
    BY <1>1, <1>3, <2>1, <2>2 DEF BacklogFresh, AcceptedFresh, SlotsEstablished, OpenPlaced
  <2>7. StreamsClosed' /\ RequestsServed' /\ NoFramingAfterStop'
    BY <1>1, <1>3 DEF StreamsClosed, RequestsServed, NoFramingAfterStop
  <2>8. EndsFinal'
    BY <1>1, <2>1 DEF EndsFinal, WorkersGone
  <2> QED BY <2>3, <2>4, <2>5, <2>6, <2>7, <2>8
<1> QED BY <1>2, <1>3 DEF AfterAccept

\* The registry is searched for a free slot.
LEMMA FreeSlot ==
    ASSUME Free # {} PROVE Min(Free) \in Slots /\ slots[Min(Free)].conn = None
<1>1. Capacity \in Nat
  <2>1. Cardinality(Workers) \in Nat
    BY ServiceAssumption, FS_CardinalityType
  <2> QED BY <2>1, ServiceAssumption DEF Capacity
<1>2. Slots \subseteq Nat /\ Free \subseteq Slots
  BY <1>1 DEF Slots, Free
<1>3. \E x \in Free : \A y \in Free : x <= y
  <2>1. Free \subseteq Nat
    BY <1>2
  <2> DEFINE R == OpToRel(<, Nat)
  <2>2. IsWellFoundedOn(R, Nat)
    BY NatLessThanWellFounded
  <2>3. \A x, y \in Nat : y < x => <<y, x>> \in R
    BY Zenon DEF OpToRel
  <2> HIDE DEF R
  <2>4. PICK x \in Free : \A y \in Free : ~(<<y, x>> \in R)
    BY <2>1, <2>2, WFMin
  <2>5. ASSUME NEW y \in Free PROVE x <= y
    <3>1. x \in Nat /\ y \in Nat
      BY <2>1
    <3>2. ~(y < x)
      BY <2>3, <2>4, <3>1, Zenon
    <3> QED BY <3>1, <3>2
  <2> QED BY <2>5
<1>4. Min(Free) \in Free
  BY <1>3 DEF Min
<1> QED BY <1>4 DEF Free

\* A connection gets a slot, which nobody else has.
LEMMA ListenerRegistersInv == ASSUME IInv, ListenerRegisters PROVE IInv'
<1>1. /\ Accepted /\ listener.pc = "register"
      /\ UNCHANGED <<backlog, queue, worker, stopping, woken, backend, request, owner, expired,
                     faults>>
  BY DEF ListenerRegisters, Accepted
<1>2. CASE Free = {}
  BY <1>1, <1>2, ListenerRefuses DEF ListenerRegisters
<1>3. CASE Free # {}
  <2> USE DEF IInv
  <2> DEFINE s == Min(Free)
             c == listener.conn
  <2>1. /\ s \in Slots /\ slots[s].conn = None
        /\ slots' = [slots EXCEPT ![s] = [conn |-> c, phase |-> "framing"]]
        /\ listener' = [listener EXCEPT !.pc = "send", !.slot = s]
        /\ UNCHANGED socket
    BY <1>3, FreeSlot DEF ListenerRegisters, Register
  <2> HIDE DEF s
  <2>2. /\ listener' \in [pc : ListenerPcs, conn : Connections \union {None},
                          slot : Slots \union {0}]
        /\ listener'.pc = "send" /\ listener'.conn = c /\ listener'.slot = s
    BY <2>1 DEF ServiceTypes, ListenerPcs
  <2>3. ~Registering /\ Registering' /\ ~Accepted'
    BY <1>1, <2>2 DEF Registering, Accepted
  <2>4. c \in Connections /\ c # None
    BY <1>1, FieldTypes, ServiceAssumption
  <2>5. /\ slots' \in [Slots -> [conn : Connections \union {None}, phase : {"framing", "serving"}]]
        /\ slots'[s] = [conn |-> c, phase |-> "framing"]
        /\ \A t \in Slots \ {s} : slots'[t] = slots[t]
    BY <2>1, <2>4 DEF ServiceTypes
  <2>6. \A t \in Slots : slots[t].conn # None => t # s
    BY <2>1
  <2>7. /\ \A i \in DOMAIN queue : queue[i].slot \in Slots /\ queue[i].slot # s
        /\ \A w \in Workers : Busy(w) => worker[w].slot \in Slots /\ worker[w].slot # s
    <3>1. \A i \in DOMAIN queue : slots[queue[i].slot].conn = queue[i].conn
      BY DEF HoldersRegistered
    <3>2. \A w \in Workers : Busy(w) => slots[worker[w].slot].conn = worker[w].conn
      BY DEF HoldersRegistered
    <3> QED BY <2>1, <3>1, <3>2, FieldTypes, ServiceAssumption
  <2>8. ServiceTypes'
    BY <1>1, <2>1, <2>2, <2>5 DEF ServiceTypes
  <2>9. HoldersTyped'
    BY <1>1, <2>1, <2>2, <2>3, <2>4 DEF HoldersTyped, Busy
  <2>10. HoldersRegistered'
    BY <1>1, <2>2, <2>5, <2>7 DEF HoldersRegistered, Busy
  <2>11. HoldersDistinct'
    BY <1>1, <2>2, <2>7 DEF HoldersDistinct, Busy
  <2>12. SlotsHeld'
    BY <1>1, <2>2, <2>3, <2>5 DEF SlotsHeld, Busy
  <2>13. SlotsDistinct'
    BY <1>1, <2>5 DEF SlotsDistinct, AcceptedFresh
  <2>14. BacklogFresh' /\ AcceptedFresh' /\ SlotsEstablished'
    BY <1>1, <2>1, <2>2, <2>3, <2>4, <2>5
    DEF BacklogFresh, AcceptedFresh, SlotsEstablished
  <2>15. OpenPlaced'
    BY <1>1, <2>1, <2>2, <2>5, <2>6, ServiceAssumption DEF OpenPlaced
  <2>16. StreamsClosed' /\ RequestsServed' /\ NoFramingAfterStop'
    BY <1>1, <2>1 DEF StreamsClosed, RequestsServed, NoFramingAfterStop
  <2>17. EndsFinal'
    BY <1>1, <2>2 DEF EndsFinal, WorkersGone
  <2> QED BY <2>8, <2>9, <2>10, <2>11, <2>12, <2>13, <2>14, <2>15, <2>16, <2>17
<1> QED BY <1>2, <1>3

\* The connection goes into the queue, or does not fit.
LEMMA SendInv == ASSUME IInv, Send PROVE IInv'
<1> USE DEF IInv
<1>1. /\ Registering /\ ~Accepted /\ listener.pc = "send"
      /\ listener.conn \in Connections /\ listener.slot \in Slots
      /\ UNCHANGED <<backlog, socket, slots, worker, stopping, woken, backend, request, owner,
                     expired, faults>>
  BY FieldTypes DEF Send, Registering, Accepted
<1>2. CASE ~(~WorkersGone /\ Len(queue) < QueueCapacity)
  <2> DEFINE pc == IF WorkersGone THEN "closed" ELSE "full"
  <2>1. ListenerGoto(pc) /\ UNCHANGED queue
    BY <1>2 DEF Send, ListenerGoto
  <2>2. pc \in {"closed", "full"} /\ pc \in ListenerPcs
    BY DEF ListenerPcs
  <2> HIDE DEF pc
  <2>3. /\ listener' \in [pc : ListenerPcs, conn : Connections \union {None},
                          slot : Slots \union {0}]
        /\ listener'.pc = pc /\ listener'.conn = listener.conn /\ listener'.slot = listener.slot
    BY <2>1, <2>2, ListenerGotoIs
  <2>4. Registering' /\ ~Accepted'
    BY <2>2, <2>3 DEF Registering, Accepted
  <2>5. ServiceTypes'
    BY <1>1, <2>1, <2>3 DEF ServiceTypes
  <2>6. HoldersTyped'
    BY <1>1, <2>3, <2>4 DEF HoldersTyped, Busy
  <2>7. HoldersRegistered' /\ HoldersDistinct' /\ SlotsHeld' /\ SlotsDistinct'
    BY <1>1, <2>1, <2>3, <2>4 DEF HoldersRegistered, HoldersDistinct, SlotsHeld, SlotsDistinct, Busy
  <2>8. BacklogFresh' /\ AcceptedFresh' /\ SlotsEstablished' /\ OpenPlaced'
    BY <1>1, <2>3, <2>4 DEF BacklogFresh, AcceptedFresh, SlotsEstablished, OpenPlaced
  <2>9. StreamsClosed' /\ RequestsServed' /\ NoFramingAfterStop'
    BY <1>1 DEF StreamsClosed, RequestsServed, NoFramingAfterStop
  <2>10. EndsFinal'
    BY <1>1, <2>1, <2>2, <2>3 DEF EndsFinal, WorkersGone
  <2> QED BY <2>5, <2>6, <2>7, <2>8, <2>9, <2>10
<1>3. CASE ~WorkersGone /\ Len(queue) < QueueCapacity
  <2> DEFINE job == [conn |-> listener.conn, slot |-> listener.slot]
             n == Len(queue)
             J == [conn : Connections, slot : Slots]
  <2>1. /\ queue' = Append(queue, job)
        /\ listener' = [listener EXCEPT !.pc = "loop", !.conn = None, !.slot = 0]
    BY <1>3 DEF Send
  <2>2. job \in J /\ queue \in Seq(J) /\ n \in Nat /\ DOMAIN queue = 1 .. n
    BY <1>1, LenProperties DEF ServiceTypes
  <2>3. queue' \in Seq(J) /\ Len(queue') = n + 1
    BY <2>1, <2>2, AppendProperties
  <2>4. /\ DOMAIN queue' = 1 .. n + 1
        /\ \A i \in 1 .. n : queue'[i] = queue[i]
        /\ queue'[n + 1] = job
    BY <2>1, <2>2, <2>3, AppendProperties, LenProperties
  <2>5. queue'[n + 1].conn = listener.conn /\ queue'[n + 1].slot = listener.slot
    BY <2>4
  <2>6. /\ listener' \in [pc : ListenerPcs, conn : Connections \union {None},
                          slot : Slots \union {0}]
        /\ listener'.pc = "loop" /\ listener'.conn = None
    BY <2>1 DEF ServiceTypes, ListenerPcs
  <2>7. ~Registering' /\ ~Accepted'
    BY <2>6 DEF Registering, Accepted
  <2> HIDE DEF job, n
  <2>8. ServiceTypes'
    <3>1. Len(queue') <= QueueCapacity
      BY <1>3, <2>2, <2>3, ServiceAssumption DEF n
    <3> QED BY <1>1, <2>3, <2>6, <3>1 DEF ServiceTypes
  <2>9. HoldersTyped'
    BY <1>1, <2>6, <2>7 DEF HoldersTyped, Busy
  <2>10. HoldersRegistered'
    BY <1>1, <2>2, <2>4, <2>5, <2>7 DEF HoldersRegistered, Busy
  <2>11. HoldersDistinct'
    BY <1>1, <2>2, <2>4, <2>5, <2>7 DEF HoldersDistinct, Busy
  <2>12. SlotsHeld'
    BY <1>1, <2>2, <2>4, <2>5, <2>7 DEF SlotsHeld, Busy
  <2>13. SlotsDistinct'
    BY <1>1 DEF SlotsDistinct
  <2>14. BacklogFresh'
    BY <1>1, <2>6, ServiceAssumption DEF BacklogFresh, ServiceTypes
  <2>15. AcceptedFresh' /\ SlotsEstablished'
    BY <1>1, <2>7 DEF AcceptedFresh, SlotsEstablished
  <2>16. OpenPlaced'
    BY <1>1 DEF OpenPlaced, HoldersRegistered
  <2>17. StreamsClosed' /\ RequestsServed' /\ NoFramingAfterStop'
    BY <1>1 DEF StreamsClosed, RequestsServed, NoFramingAfterStop
  <2>18. EndsFinal'
    BY <1>1, <2>6 DEF EndsFinal, WorkersGone
  <2> QED BY <2>8, <2>9, <2>10, <2>11, <2>12, <2>13, <2>14, <2>15, <2>16, <2>17, <2>18
<1> QED BY <1>2, <1>3

\* The slot of a connection that is given up becomes free, and no other changes.
LEMMA UnregisterIs ==
    ASSUME ServiceTypes, NEW s \in Slots, Unregister(s)
    PROVE  /\ slots' \in [Slots -> [conn : Connections \union {None}, phase : {"framing", "serving"}]]
           /\ slots'[s].conn = None
           /\ \A t \in Slots : t # s => slots'[t] = slots[t]
  BY DEF ServiceTypes, Unregister, Empty

\* A connection that did not fit is unregistered and closed.
LEMMA SendFailedInv == ASSUME IInv, SendFailed PROVE IInv'
<1> USE DEF IInv
<1> DEFINE s == listener.slot
           c == listener.conn
<1>1. /\ Registering /\ ~Accepted /\ listener.pc \in {"full", "closed"}
      /\ c \in Connections /\ s \in Slots
      /\ Unregister(s) /\ socket' = Shut({c})
      /\ UNCHANGED <<backlog, queue, worker, stopping, woken, backend, request, owner, expired,
                     faults>>
  BY FieldTypes DEF SendFailed, Registering, Accepted
<1>2. /\ listener' \in [pc : ListenerPcs, conn : Connections \union {None},
                        slot : Slots \union {0}]
      /\ listener'.pc \in {"loop", "exit"} /\ listener'.conn = None
  BY DEF SendFailed, ListenerPcs
<1>3. ~Registering' /\ ~Accepted'
  BY <1>2 DEF Registering, Accepted
<1>4. /\ slots' \in [Slots -> [conn : Connections \union {None}, phase : {"framing", "serving"}]]
      /\ slots'[s].conn = None
      /\ \A t \in Slots : t # s => slots'[t] = slots[t]
  BY <1>1, UnregisterIs
<1>5. /\ socket' \in [Connections -> {"none", "open", "shut"}]
      /\ \A d \in Connections : socket'[d] = IF d = c THEN "shut" ELSE socket[d]
  BY <1>1, ShutIs
<1>6. /\ \A i \in DOMAIN queue : queue[i].slot \in Slots /\ queue[i].slot # s
      /\ \A w \in Workers : Busy(w) => worker[w].slot \in Slots /\ worker[w].slot # s
  BY <1>1, FieldTypes DEF HoldersDistinct
<1>7. slots[s].conn = c
  BY <1>1 DEF HoldersRegistered
<1> HIDE DEF s, c
<1>8. ServiceTypes'
  BY <1>1, <1>2, <1>4, <1>5 DEF ServiceTypes
<1>9. HoldersTyped'
  BY <1>1, <1>2, <1>3 DEF HoldersTyped, Busy
<1>10. HoldersRegistered'
  BY <1>1, <1>3, <1>4, <1>6 DEF HoldersRegistered, Busy
<1>11. HoldersDistinct'
  BY <1>1, <1>3 DEF HoldersDistinct, Busy
<1>12. SlotsHeld'
  BY <1>1, <1>3, <1>4 DEF SlotsHeld, Busy, s
<1>13. SlotsDistinct'
  BY <1>4 DEF SlotsDistinct
<1>14. BacklogFresh'
  <2>1. \A d \in backlog : d \in Connections /\ d # None /\ d # c
    BY ServiceAssumption DEF ServiceTypes, BacklogFresh, c
  <2> QED BY <1>1, <1>2, <1>4, <1>5, <2>1 DEF BacklogFresh
<1>15. AcceptedFresh'
  BY <1>3 DEF AcceptedFresh
<1>16. SlotsEstablished'
  BY <1>4, <1>5, FieldTypes DEF SlotsEstablished
<1>17. OpenPlaced'
  <2>1. SUFFICES ASSUME NEW d \in Connections, socket'[d] = "open"
                 PROVE  d \in backlog' \/ d = listener'.conn \/ \E t \in Slots : slots'[t].conn = d
    BY DEF OpenPlaced
  <2>2. d # c /\ socket[d] = "open"
    BY <1>1, <1>5, <2>1
  <2>3. d \in backlog \/ \E t \in Slots : slots[t].conn = d
    BY <2>2 DEF OpenPlaced, c
  <2> QED BY <1>1, <1>4, <1>7, <2>2, <2>3
<1>18. StreamsClosed' /\ RequestsServed' /\ NoFramingAfterStop'
  BY <1>1, ShutKeepsWorkers
<1>19. EndsFinal'
  BY <1>1, <1>2 DEF EndsFinal, WorkersGone
<1> QED BY <1>8, <1>9, <1>10, <1>11, <1>12, <1>13, <1>14, <1>15, <1>16, <1>17, <1>18, <1>19

\* The listening socket closes with its backlog.
LEMMA ListenerExitsInv == ASSUME IInv, ListenerExits PROVE IInv'
<1> USE DEF IInv
<1>1. /\ ~Registering /\ ~Accepted /\ listener.pc = "exit" /\ listener.conn = None
      /\ ListenerGoto("gone") /\ socket' = Shut(backlog) /\ backlog' = {}
      /\ UNCHANGED <<slots, queue, worker, stopping, woken, backend, request, owner, expired,
                     faults>>
  BY DEF ListenerExits, Registering, Accepted, HoldersTyped
<1>2. /\ listener' \in [pc : ListenerPcs, conn : Connections \union {None},
                        slot : Slots \union {0}]
      /\ listener'.pc = "gone" /\ listener'.conn = None
  BY <1>1, ListenerGotoIs DEF ListenerPcs
<1>3. ~Registering' /\ ~Accepted'
  BY <1>2 DEF Registering, Accepted
<1>4. /\ socket' \in [Connections -> {"none", "open", "shut"}]
      /\ \A c \in Connections : socket'[c] = IF c \in backlog THEN "shut" ELSE socket[c]
  BY <1>1, ShutIs
<1>5. ServiceTypes'
  BY <1>1, <1>2, <1>4 DEF ServiceTypes
<1>6. HoldersTyped'
  BY <1>1, <1>2, <1>3 DEF HoldersTyped, Busy
<1>7. HoldersRegistered' /\ HoldersDistinct' /\ SlotsHeld' /\ SlotsDistinct'
  BY <1>1, <1>3 DEF HoldersRegistered, HoldersDistinct, SlotsHeld, SlotsDistinct, Busy
<1>8. BacklogFresh' /\ AcceptedFresh'
  BY <1>1, <1>3 DEF BacklogFresh, AcceptedFresh
<1>9. SlotsEstablished'
  BY <1>1, <1>4, FieldTypes DEF SlotsEstablished
<1>10. OpenPlaced'
  BY <1>1, <1>2, <1>4 DEF OpenPlaced
<1>11. StreamsClosed' /\ RequestsServed' /\ NoFramingAfterStop'
  BY <1>1, ShutKeepsWorkers
<1>12. EndsFinal'
  BY <1>1, <1>2 DEF EndsFinal, WorkersGone
<1> QED BY <1>5, <1>6, <1>7, <1>8, <1>9, <1>10, <1>11, <1>12

-----------------------------------------------------------------------------
(* Clients. *)

\* A client connects.
LEMMA ConnectInv == ASSUME IInv, NEW c \in Connections, Connect(c) PROVE IInv'
<1> USE DEF IInv
<1>1. /\ socket[c] = "none" /\ listener.pc # "gone"
      /\ backlog' = backlog \union {c}
      /\ UNCHANGED <<slots, queue, listener, worker, stopping, woken, backend, request, owner,
                     expired, faults>>
  BY DEF Connect
<1>2. /\ socket' \in [Connections -> {"none", "open", "shut"}]
      /\ \A d \in Connections : socket'[d] = IF d = c THEN "open" ELSE socket[d]
  BY DEF Connect, ServiceTypes
<1>3. /\ \A s \in Slots : slots[s].conn # c
      /\ listener.conn # c
  <2>1. \A s \in Slots : slots[s].conn # c
    BY <1>1, ServiceAssumption DEF SlotsEstablished
  <2>2. Registering => listener.conn # c
    BY <2>1, FieldTypes DEF HoldersRegistered
  <2>3. Accepted => listener.conn # c
    BY <1>1 DEF AcceptedFresh
  <2> QED BY <2>1, <2>2, <2>3, ServiceAssumption DEF HoldersTyped
<1>4. \A w \in Workers : Busy(w) => worker[w].conn # c
  BY <1>3, FieldTypes DEF HoldersRegistered
<1>5. ServiceTypes'
  BY <1>1, <1>2 DEF ServiceTypes
<1>6. HoldersTyped'
  BY <1>1 DEF HoldersTyped, Accepted, Registering, Busy
<1>7. HoldersRegistered' /\ HoldersDistinct' /\ SlotsHeld' /\ SlotsDistinct'
  BY <1>1 DEF HoldersRegistered, HoldersDistinct, SlotsHeld, SlotsDistinct, Busy, Registering
<1>8. BacklogFresh'
  BY <1>1, <1>2, <1>3 DEF BacklogFresh, ServiceTypes
<1>9. AcceptedFresh'
  BY <1>1, <1>2, FieldTypes DEF AcceptedFresh, Accepted
<1>10. SlotsEstablished'
  BY <1>1, <1>2, FieldTypes DEF SlotsEstablished
<1>11. OpenPlaced'
  BY <1>1, <1>2 DEF OpenPlaced
<1>12. StreamsClosed' /\ RequestsServed' /\ NoFramingAfterStop'
  BY <1>1, <1>2, <1>4, FieldTypes DEF StreamsClosed, RequestsServed, NoFramingAfterStop, Busy
<1>13. EndsFinal'
  BY <1>1 DEF EndsFinal, WorkersGone
<1> QED BY <1>5, <1>6, <1>7, <1>8, <1>9, <1>10, <1>11, <1>12, <1>13

-----------------------------------------------------------------------------
(* Steps of a worker. *)

\* A worker that has a connection, or one that has none, goes on without touching
\* the registry or a socket.  What is left to show is about requests and framing.
LEMMA WorkerMoves ==
    ASSUME IInv, NEW w \in Workers, NEW pc \in WorkerPcs, WorkerGoto(w, pc),
           worker[w].pc \notin {"gone", "panicked"}, pc \notin {"gone", "unregister"},
           pc \in {"lock", "recv"} <=> ~Busy(w),
           pc \in {"framing", "framed"} => worker[w].pc \in {"got", "framing"},
           pc # "got",
           request' \in [Connections -> {"none", "live", "settled"}], faults' \in Nat,
           UNCHANGED <<backlog, socket, slots, queue, listener, stopping, woken, backend, owner,
                       expired>>,
           RequestsServed', NoFramingAfterStop'
    PROVE  IInv'
<1> USE DEF IInv
<1>1. /\ worker' \in [Workers -> [pc : WorkerPcs, conn : Connections \union {None},
                                  slot : Slots \union {0}]]
      /\ \A v \in Workers : /\ worker'[v].conn = worker[v].conn
                            /\ worker'[v].slot = worker[v].slot
                            /\ worker'[v].pc = IF v = w THEN pc ELSE worker[v].pc
  BY WorkerGotoIs
<1>2. \A v \in Workers : Busy(v)' <=> Busy(v)
  BY <1>1 DEF Busy
<1>3. (Registering' <=> Registering) /\ (Accepted' <=> Accepted)
  BY DEF Registering, Accepted
<1>4. ServiceTypes'
  BY <1>1 DEF ServiceTypes
<1>5. HoldersTyped'
  BY <1>1, <1>2, <1>3 DEF HoldersTyped
<1>6. HoldersRegistered'
  BY <1>1, <1>2, <1>3 DEF HoldersRegistered
<1>7. HoldersDistinct'
  BY <1>1, <1>2, <1>3 DEF HoldersDistinct
<1>8. SlotsHeld' /\ SlotsDistinct'
  BY <1>1, <1>2, <1>3 DEF SlotsHeld, SlotsDistinct
<1>9. BacklogFresh' /\ AcceptedFresh' /\ SlotsEstablished' /\ OpenPlaced'
  BY <1>3 DEF BacklogFresh, AcceptedFresh, SlotsEstablished, OpenPlaced
<1>10. StreamsClosed'
  BY <1>1 DEF StreamsClosed
<1>11. EndsFinal'
  <2>1. ~WorkersGone /\ worker[w].pc # "gone"
    BY DEF WorkersGone
  <2>2. owner.pc # "backend" /\ owner.result # "ok"
    BY <2>1 DEF EndsFinal
  <2> QED BY <1>1, <2>2 DEF EndsFinal, WorkersGone
<1> QED BY <1>4, <1>5, <1>6, <1>7, <1>8, <1>9, <1>10, <1>11

\* A step of a worker that leaves the requests alone and does not start to frame.
LEMMA WorkerMovesQuietly ==
    ASSUME IInv, NEW w \in Workers, NEW pc \in WorkerPcs, WorkerGoto(w, pc),
           worker[w].pc \notin {"gone", "panicked", "serve"}, pc \notin {"gone", "unregister"},
           pc \in {"lock", "recv"} <=> ~Busy(w),
           pc = "framing" => worker[w].pc = "got" /\ ~stopping,
           pc = "framed" => worker[w].pc = "framing",
           pc # "got",
           UNCHANGED <<backlog, socket, slots, queue, listener, stopping, woken, backend, request,
                       owner, expired, faults>>
    PROVE  IInv'
<1>1. \A v \in Workers : /\ worker'[v].conn = worker[v].conn
                         /\ worker'[v].pc = IF v = w THEN pc ELSE worker[v].pc
  BY WorkerGotoIs DEF IInv
<1>2. RequestsServed'
  BY <1>1 DEF IInv, RequestsServed
<1>3. NoFramingAfterStop'
  BY <1>1 DEF IInv, NoFramingAfterStop, EndsFinal
<1>4. request' \in [Connections -> {"none", "live", "settled"}] /\ faults' \in Nat
  BY DEF IInv, ServiceTypes
<1> QED BY <1>2, <1>3, <1>4, WorkerMoves

\* A worker takes the mutex of the queue.
LEMMA LockInv == ASSUME IInv, NEW w \in Workers, Lock(w) PROVE IInv'
  BY WorkerMovesQuietly DEF Lock, WorkerPcs, Busy

\* A worker looks at the stop flag before it handles a connection.
LEMMA TakeJobInv == ASSUME IInv, NEW w \in Workers, TakeJob(w) PROVE IInv'
<1>1. CASE stopping
  BY <1>1, WorkerMovesQuietly DEF TakeJob, WorkerPcs, Busy
<1>2. CASE ~stopping
  BY <1>2, WorkerMovesQuietly DEF TakeJob, WorkerPcs, Busy
<1> QED BY <1>1, <1>2

\* A worker has read a request, or will not.
LEMMA ReadRequestInv == ASSUME IInv, NEW w \in Workers, ReadRequest(w) PROVE IInv'
<1>1. CASE WorkerGoto(w, "close")
  BY <1>1, WorkerMovesQuietly DEF ReadRequest, WorkerPcs, Busy
<1>2. CASE WorkerGoto(w, "framed")
  BY <1>2, WorkerMovesQuietly DEF ReadRequest, WorkerPcs, Busy
<1> QED BY <1>1, <1>2 DEF ReadRequest

\* A request is answered, or goes to the backend.
LEMMA RouteInv == ASSUME IInv, NEW w \in Workers, Route(w) PROVE IInv'
<1>1. CASE WorkerGoto(w, "close")
  BY <1>1, WorkerMovesQuietly DEF Route, WorkerPcs, Busy
<1>2. CASE WorkerGoto(w, "submit")
  BY <1>2, WorkerMovesQuietly DEF Route, WorkerPcs, Busy
<1> QED BY <1>1, <1>2 DEF Route

\* The backend takes the request, or refuses it.
LEMMA SubmitRequestInv == ASSUME IInv, NEW w \in Workers, SubmitRequest(w) PROVE IInv'
<1>1. CASE WorkerGoto(w, "close") /\ UNCHANGED request
  BY <1>1, WorkerMovesQuietly DEF SubmitRequest, WorkerPcs, Busy
<1>2. CASE /\ WorkerGoto(w, "serve")
           /\ request' = [request EXCEPT ![worker[w].conn] = "live"]
  <2>1. /\ worker[w].pc = "submit" /\ Busy(w)
        /\ UNCHANGED <<backlog, socket, slots, queue, listener, stopping, woken, backend, owner,
                       expired, faults>>
    BY DEF SubmitRequest, Busy
  <2>2. \A v \in Workers : /\ worker'[v].conn = worker[v].conn
                           /\ worker'[v].pc = IF v = w THEN "serve" ELSE worker[v].pc
    BY <1>2, WorkerGotoIs DEF IInv, WorkerPcs
  <2>3. /\ request' \in [Connections -> {"none", "live", "settled"}]
        /\ \A c \in Connections : c # worker[w].conn => request'[c] = request[c]
    BY <1>2 DEF IInv, ServiceTypes
  <2>4. RequestsServed'
    BY <2>1, <2>2, <2>3 DEF IInv, RequestsServed
  <2>5. NoFramingAfterStop'
    BY <2>1, <2>2 DEF IInv, NoFramingAfterStop
  <2>6. faults' \in Nat
    BY <2>1 DEF IInv, ServiceTypes
  <2> QED BY <1>2, <2>1, <2>3, <2>4, <2>5, <2>6, WorkerMoves DEF WorkerPcs
<1> QED BY <1>1, <1>2 DEF SubmitRequest

\* A worker gives up its request.
LEMMA RequestEnds ==
    ASSUME IInv, NEW w \in Workers, NEW pc \in {"close", "panicked"}, WorkerGoto(w, pc),
           Busy(w), worker[w].pc # "panicked",
           request' = [request EXCEPT ![worker[w].conn] =
               IF pc = "close" \/ @ = "live" THEN "settled" ELSE @],
           faults' \in Nat,
           UNCHANGED <<backlog, socket, slots, queue, listener, stopping, woken, backend, owner,
                       expired>>
    PROVE  IInv'
<1>1. \A v \in Workers : /\ worker'[v].conn = worker[v].conn
                         /\ worker'[v].pc = IF v = w THEN pc ELSE worker[v].pc
  BY WorkerGotoIs DEF IInv, WorkerPcs
<1>2. worker[w].conn \in Connections
  BY FieldTypes
<1>3. /\ request' \in [Connections -> {"none", "live", "settled"}]
      /\ request'[worker[w].conn] # "live"
      /\ \A c \in Connections : c # worker[w].conn => request'[c] = request[c]
  BY <1>2 DEF IInv, ServiceTypes
<1>4. RequestsServed'
  BY <1>1, <1>3 DEF IInv, RequestsServed
<1>5. NoFramingAfterStop'
  BY <1>1 DEF IInv, NoFramingAfterStop
<1> QED BY <1>3, <1>4, <1>5, WorkerMoves DEF WorkerPcs, Busy

\* The response is complete.
LEMMA ServeEndsInv == ASSUME IInv, NEW w \in Workers, ServeEnds(w) PROVE IInv'
<1>1. request' = [request EXCEPT ![worker[w].conn] =
          IF "close" = "close" \/ @ = "live" THEN "settled" ELSE @]
  BY DEF ServeEnds
<1>2. faults' \in Nat
  BY DEF ServeEnds, IInv, ServiceTypes
<1> QED BY <1>1, <1>2, RequestEnds DEF ServeEnds, Busy

\* A worker panics.
LEMMA PanicInv == ASSUME IInv, NEW w \in Workers, Panic(w) PROVE IInv'
<1>1. request' = [request EXCEPT ![worker[w].conn] =
          IF "panicked" = "close" \/ @ = "live" THEN "settled" ELSE @]
  BY DEF Panic
<1>2. faults' \in Nat
  BY DEF Panic, IInv, ServiceTypes
<1> QED BY <1>1, <1>2, RequestEnds DEF Panic, Busy

\* A worker takes a connection from the queue, or sees that the queue is closed.
LEMMA RecvInv == ASSUME IInv, NEW w \in Workers, Recv(w) PROVE IInv'
<1> USE DEF IInv
<1>1. /\ worker[w].pc = "recv" /\ ~Busy(w)
      /\ UNCHANGED <<backlog, socket, slots, listener, stopping, woken, backend, request, owner,
                     expired, faults>>
  BY DEF Recv, Busy
<1>2. (Registering' <=> Registering) /\ (Accepted' <=> Accepted)
  BY <1>1 DEF Registering, Accepted
<1>3. owner.pc # "backend" /\ owner.result # "ok"
  BY <1>1 DEF EndsFinal, WorkersGone
<1>4. SlotsDistinct' /\ BacklogFresh' /\ AcceptedFresh' /\ SlotsEstablished' /\ OpenPlaced'
  BY <1>1, <1>2 DEF SlotsDistinct, BacklogFresh, AcceptedFresh, SlotsEstablished, OpenPlaced
<1>5. CASE queue = <<>> /\ listener.pc = "gone" /\ WorkerGoto(w, "gone") /\ UNCHANGED queue
  <2>1. /\ worker' \in [Workers -> [pc : WorkerPcs, conn : Connections \union {None},
                                    slot : Slots \union {0}]]
        /\ \A v \in Workers : /\ worker'[v].conn = worker[v].conn
                              /\ worker'[v].slot = worker[v].slot
                              /\ worker'[v].pc = IF v = w THEN "gone" ELSE worker[v].pc
    BY <1>5, WorkerGotoIs DEF WorkerPcs
  <2>2. \A v \in Workers : Busy(v)' <=> Busy(v)
    BY <1>1, <2>1 DEF Busy
  <2>3. ServiceTypes'
    BY <1>1, <1>5, <2>1 DEF ServiceTypes
  <2>4. HoldersTyped'
    BY <1>1, <1>2, <2>1, <2>2 DEF HoldersTyped
  <2>5. HoldersRegistered'
    BY <1>1, <1>2, <1>5, <2>1, <2>2 DEF HoldersRegistered
  <2>6. HoldersDistinct' /\ SlotsHeld'
    BY <1>1, <1>2, <1>5, <2>1, <2>2 DEF HoldersDistinct, SlotsHeld
  <2>7. StreamsClosed' /\ RequestsServed' /\ NoFramingAfterStop'
    BY <1>1, <2>1 DEF StreamsClosed, RequestsServed, NoFramingAfterStop
  <2>8. EndsFinal'
    BY <1>1, <1>3, <1>5, <2>1 DEF EndsFinal
  <2> QED BY <1>4, <2>3, <2>4, <2>5, <2>6, <2>7, <2>8
<1>6. CASE /\ queue # <<>> /\ queue' = Tail(queue)
           /\ worker' = [worker EXCEPT ![w] = [pc |-> "got", conn |-> Head(queue).conn,
                                               slot |-> Head(queue).slot]]
  <2> DEFINE J == [conn : Connections, slot : Slots]
             n == Len(queue)
             c == queue[1].conn
             s == queue[1].slot
  <2>1. queue \in Seq(J) /\ n \in Nat /\ DOMAIN queue = 1 .. n /\ n <= QueueCapacity
    BY LenProperties DEF ServiceTypes
  <2>2. n >= 1 /\ 1 \in DOMAIN queue
    BY <1>6, <2>1, EmptySeq
  <2>3. queue' \in Seq(J) /\ Len(queue') = n - 1
    BY <1>6, <2>1, HeadTailProperties
  <2>4. /\ DOMAIN queue' = 1 .. n - 1
        /\ \A i \in 1 .. n - 1 : queue'[i] = queue[i + 1]
    BY <1>6, <2>1, <2>3, HeadTailProperties, LenProperties
  <2>5. c \in Connections /\ s \in Slots /\ c # None
    BY <2>2, FieldTypes, ServiceAssumption
  <2>6. /\ worker' = [worker EXCEPT ![w] = [pc |-> "got", conn |-> c, slot |-> s]]
        /\ slots[s].conn = c /\ slots[s].phase = "framing"
    BY <1>6, <2>2 DEF HoldersRegistered
  <2>7. /\ Registering => listener.slot # s
        /\ \A i \in 2 .. n : queue[i].slot # s
        /\ \A v \in Workers : Busy(v) => worker[v].slot # s
    BY <2>1, <2>2 DEF HoldersDistinct
  <2> HIDE DEF c, s, n
  <2>8. /\ worker' \in [Workers -> [pc : WorkerPcs, conn : Connections \union {None},
                                    slot : Slots \union {0}]]
        /\ worker'[w].pc = "got" /\ worker'[w].conn = c /\ worker'[w].slot = s
        /\ \A v \in Workers : v # w => worker'[v] = worker[v]
    BY <2>5, <2>6 DEF ServiceTypes, WorkerPcs
  <2>9. Busy(w)' /\ \A v \in Workers : v # w => (Busy(v)' <=> Busy(v))
    BY <2>8 DEF Busy
  <2>10. \A i \in DOMAIN queue' : i + 1 \in DOMAIN queue /\ i + 1 # 1 /\ queue'[i] = queue[i + 1]
    BY <2>1, <2>4
  <2>11. ServiceTypes'
    <3>1. Len(queue') <= QueueCapacity
      BY <2>1, <2>3, ServiceAssumption
    <3> QED BY <1>1, <2>3, <2>8, <3>1 DEF ServiceTypes
  <2>12. HoldersTyped'
    BY <1>1, <1>2, <2>5, <2>8, <2>9 DEF HoldersTyped
  <2>13. HoldersRegistered'
    <3>1. \A i \in DOMAIN queue' : slots[queue'[i].slot].conn = queue'[i].conn
                                   /\ slots[queue'[i].slot].phase = "framing"
      BY <2>10 DEF HoldersRegistered
    <3>2. \A v \in Workers : Busy(v)' =>
            /\ slots[worker'[v].slot].conn = worker'[v].conn
            /\ worker'[v].pc \in {"got", "framing", "framed"} =>
                  slots[worker'[v].slot].phase = "framing"
      BY <2>6, <2>8, <2>9 DEF HoldersRegistered
    <3> QED BY <1>1, <1>2, <3>1, <3>2 DEF HoldersRegistered
  <2>14. HoldersDistinct'
    <3>1. \A i \in DOMAIN queue' : queue'[i].slot # s
      BY <2>1, <2>7, <2>10
    <3>2. \A i, j \in DOMAIN queue' : queue'[i].slot = queue'[j].slot => i = j
      BY <2>4, <2>10 DEF HoldersDistinct
    <3>3. Registering' => /\ \A i \in DOMAIN queue' : queue'[i].slot # listener'.slot
                          /\ \A v \in Workers : Busy(v)' => worker'[v].slot # listener'.slot
      BY <1>1, <1>2, <2>7, <2>8, <2>9, <2>10 DEF HoldersDistinct
    <3>4. \A i \in DOMAIN queue', v \in Workers : Busy(v)' => queue'[i].slot # worker'[v].slot
      BY <2>8, <2>9, <2>10, <3>1 DEF HoldersDistinct
    <3>5. \A u, v \in Workers : Busy(u)' /\ Busy(v)' /\ worker'[u].slot = worker'[v].slot => u = v
      BY <2>7, <2>8, <2>9 DEF HoldersDistinct
    <3> QED BY <3>2, <3>3, <3>4, <3>5 DEF HoldersDistinct
  <2>15. SlotsHeld'
    <3>1. SUFFICES ASSUME NEW t \in Slots, slots[t].conn # None
                   PROVE  \/ Registering' /\ listener'.slot = t
                          \/ \E i \in DOMAIN queue' : queue'[i].slot = t
                          \/ \E v \in Workers : Busy(v)' /\ worker'[v].slot = t
      BY <1>1 DEF SlotsHeld
    <3>2. CASE Registering /\ listener.slot = t
      BY <1>1, <1>2, <3>2
    <3>3. ASSUME NEW i \in DOMAIN queue, queue[i].slot = t
          PROVE  \/ \E j \in DOMAIN queue' : queue'[j].slot = t
                 \/ \E v \in Workers : Busy(v)' /\ worker'[v].slot = t
      <4>1. CASE i = 1
        BY <2>8, <2>9, <3>3, <4>1 DEF s
      <4>2. CASE i # 1
        <5>1. i - 1 \in DOMAIN queue' /\ queue'[i - 1] = queue[i]
          BY <2>1, <2>4, <4>2
        <5> QED BY <3>3, <5>1
      <4> QED BY <4>1, <4>2
    <3>4. ASSUME NEW v \in Workers, Busy(v), worker[v].slot = t
          PROVE  \E u \in Workers : Busy(u)' /\ worker'[u].slot = t
      BY <1>1, <2>8, <2>9, <3>4
    <3> QED BY <3>1, <3>2, <3>3, <3>4 DEF SlotsHeld
  <2>16. StreamsClosed' /\ NoFramingAfterStop'
    BY <1>1, <2>8 DEF StreamsClosed, NoFramingAfterStop
  <2>17. RequestsServed'
    BY <1>1, <2>8 DEF RequestsServed
  <2>18. EndsFinal'
    <3>1. \A v \in Workers : worker[v].pc # "gone"
      BY <1>6 DEF EndsFinal
    <3> QED BY <1>1, <1>3, <2>8, <3>1 DEF EndsFinal
  <2> QED BY <1>4, <2>11, <2>12, <2>13, <2>14, <2>15, <2>16, <2>17, <2>18
<1> QED BY <1>5, <1>6 DEF Recv

\* A worker has its whole request.
LEMMA MarkServingInv == ASSUME IInv, NEW w \in Workers, MarkServing(w) PROVE IInv'
<1> USE DEF IInv
<1> DEFINE s == worker[w].slot
<1>1. /\ worker[w].pc = "framed" /\ Busy(w) /\ s \in Slots
      /\ slots' = [slots EXCEPT ![s].phase = "serving"] /\ WorkerGoto(w, "route")
      /\ UNCHANGED <<backlog, socket, queue, listener, stopping, woken, backend, request, owner,
                     expired, faults>>
  BY FieldTypes DEF MarkServing, Busy
<1>2. /\ worker' \in [Workers -> [pc : WorkerPcs, conn : Connections \union {None},
                                  slot : Slots \union {0}]]
      /\ \A v \in Workers : /\ worker'[v].conn = worker[v].conn
                            /\ worker'[v].slot = worker[v].slot
                            /\ worker'[v].pc = IF v = w THEN "route" ELSE worker[v].pc
  BY <1>1, WorkerGotoIs DEF WorkerPcs
<1>3. \A v \in Workers : Busy(v)' <=> Busy(v)
  BY <1>1, <1>2 DEF Busy
<1>4. (Registering' <=> Registering) /\ (Accepted' <=> Accepted)
  BY <1>1 DEF Registering, Accepted
<1>5. /\ slots' \in [Slots -> [conn : Connections \union {None}, phase : {"framing", "serving"}]]
      /\ \A t \in Slots : slots'[t].conn = slots[t].conn
      /\ \A t \in Slots : t # s => slots'[t].phase = slots[t].phase
  BY <1>1 DEF ServiceTypes
<1>6. /\ Registering => listener.slot \in Slots /\ listener.slot # s
      /\ \A i \in DOMAIN queue : queue[i].slot \in Slots /\ queue[i].slot # s
      /\ \A v \in Workers : Busy(v) => worker[v].slot \in Slots /\ (v # w => worker[v].slot # s)
  BY <1>1, FieldTypes DEF HoldersDistinct
<1> HIDE DEF s
<1>7. ServiceTypes'
  BY <1>1, <1>2, <1>5 DEF ServiceTypes
<1>8. HoldersTyped'
  BY <1>1, <1>2, <1>3, <1>4 DEF HoldersTyped
<1>9. HoldersRegistered'
  BY <1>1, <1>2, <1>3, <1>4, <1>5, <1>6 DEF HoldersRegistered
<1>10. HoldersDistinct' /\ SlotsHeld' /\ SlotsDistinct'
  BY <1>1, <1>2, <1>3, <1>4, <1>5 DEF HoldersDistinct, SlotsHeld, SlotsDistinct
<1>11. BacklogFresh' /\ AcceptedFresh' /\ SlotsEstablished' /\ OpenPlaced'
  BY <1>1, <1>4, <1>5 DEF BacklogFresh, AcceptedFresh, SlotsEstablished, OpenPlaced
<1>12. StreamsClosed' /\ RequestsServed' /\ NoFramingAfterStop'
  BY <1>1, <1>2 DEF StreamsClosed, RequestsServed, NoFramingAfterStop
<1>13. EndsFinal'
  BY <1>1, <1>2 DEF EndsFinal, WorkersGone
<1> QED BY <1>7, <1>8, <1>9, <1>10, <1>11, <1>12, <1>13

\* A worker closes its stream.
LEMMA CloseStreamInv == ASSUME IInv, NEW w \in Workers, CloseStream(w) PROVE IInv'
<1> USE DEF IInv
<1> DEFINE c == worker[w].conn
<1>1. /\ worker[w].pc = "close" /\ Busy(w) /\ c \in Connections
      /\ socket' = Shut({c}) /\ WorkerGoto(w, "unregister")
      /\ UNCHANGED <<backlog, slots, queue, listener, stopping, woken, backend, request, owner,
                     expired, faults>>
  BY FieldTypes DEF CloseStream, Busy
<1>2. /\ worker' \in [Workers -> [pc : WorkerPcs, conn : Connections \union {None},
                                  slot : Slots \union {0}]]
      /\ \A v \in Workers : /\ worker'[v].conn = worker[v].conn
                            /\ worker'[v].slot = worker[v].slot
                            /\ worker'[v].pc = IF v = w THEN "unregister" ELSE worker[v].pc
  BY <1>1, WorkerGotoIs DEF WorkerPcs
<1>3. \A v \in Workers : Busy(v)' <=> Busy(v)
  BY <1>1, <1>2 DEF Busy
<1>4. (Registering' <=> Registering) /\ (Accepted' <=> Accepted)
  BY <1>1 DEF Registering, Accepted
<1>5. /\ socket' \in [Connections -> {"none", "open", "shut"}]
      /\ \A d \in Connections : socket'[d] = IF d = c THEN "shut" ELSE socket[d]
  BY <1>1, ShutIs
<1>6. c \notin backlog /\ (Accepted => c # listener.conn)
  <2>1. slots[worker[w].slot].conn = c /\ worker[w].slot \in Slots
    BY <1>1, FieldTypes DEF HoldersRegistered
  <2> QED BY <2>1 DEF BacklogFresh, AcceptedFresh
<1> HIDE DEF c
<1>7. ServiceTypes'
  BY <1>1, <1>2, <1>5 DEF ServiceTypes
<1>8. HoldersTyped'
  BY <1>1, <1>2, <1>3, <1>4 DEF HoldersTyped
<1>9. HoldersRegistered'
  BY <1>1, <1>2, <1>3, <1>4 DEF HoldersRegistered
<1>10. HoldersDistinct' /\ SlotsHeld' /\ SlotsDistinct'
  BY <1>1, <1>2, <1>3, <1>4 DEF HoldersDistinct, SlotsHeld, SlotsDistinct
<1>11. BacklogFresh'
  BY <1>1, <1>5, <1>6, FieldTypes DEF BacklogFresh
<1>12. AcceptedFresh'
  BY <1>1, <1>4, <1>5, <1>6, FieldTypes DEF AcceptedFresh
<1>13. SlotsEstablished'
  BY <1>1, <1>5, FieldTypes DEF SlotsEstablished
<1>14. OpenPlaced'
  BY <1>1, <1>5 DEF OpenPlaced
<1>15. StreamsClosed' /\ NoFramingAfterStop'
  <2>1. \A v \in Workers : Busy(v) /\ socket[worker[v].conn] = "shut" =>
            socket'[worker[v].conn] = "shut"
    BY <1>5, FieldTypes
  <2>2. socket'[worker[w].conn] = "shut"
    BY <1>1, <1>5 DEF c
  <2>3. StreamsClosed'
    <3>1. ASSUME NEW v \in Workers, worker'[v].pc = "unregister"
          PROVE  socket'[worker'[v].conn] = "shut"
      <4>1. CASE v = w
        BY <1>2, <2>2, <4>1
      <4>2. CASE v # w
        BY <1>2, <2>1, <3>1, <4>2 DEF StreamsClosed, Busy
      <4> QED BY <4>1, <4>2
    <3> QED BY <3>1 DEF StreamsClosed
  <2>4. NoFramingAfterStop'
    BY <1>1, <1>2, <2>1 DEF NoFramingAfterStop, Busy
  <2> QED BY <2>3, <2>4
<1>16. RequestsServed'
  BY <1>1, <1>2 DEF RequestsServed
<1>17. EndsFinal'
  BY <1>1, <1>2 DEF EndsFinal, WorkersGone
<1> QED BY <1>7, <1>8, <1>9, <1>10, <1>11, <1>12, <1>13, <1>14, <1>15, <1>16, <1>17

\* A worker gives its slot back and is idle again.
LEMMA WorkerUnregistersInv == ASSUME IInv, NEW w \in Workers, WorkerUnregisters(w) PROVE IInv'
<1> USE DEF IInv
<1> DEFINE s == worker[w].slot
           c == worker[w].conn
<1>1. /\ worker[w].pc = "unregister" /\ Busy(w) /\ c \in Connections /\ s \in Slots
      /\ Unregister(s) /\ worker' = [worker EXCEPT ![w] = Idle]
      /\ UNCHANGED <<backlog, socket, queue, listener, stopping, woken, backend, request, owner,
                     expired, faults>>
  BY FieldTypes DEF WorkerUnregisters, Busy
<1>2. /\ worker' \in [Workers -> [pc : WorkerPcs, conn : Connections \union {None},
                                  slot : Slots \union {0}]]
      /\ worker'[w].pc = "lock" /\ worker'[w].conn = None
      /\ \A v \in Workers : v # w => worker'[v] = worker[v]
  BY <1>1 DEF ServiceTypes, WorkerPcs, Idle
<1>3. ~Busy(w)' /\ \A v \in Workers : v # w => (Busy(v)' <=> Busy(v))
  BY <1>2 DEF Busy
<1>4. (Registering' <=> Registering) /\ (Accepted' <=> Accepted)
  BY <1>1 DEF Registering, Accepted
<1>5. /\ slots' \in [Slots -> [conn : Connections \union {None}, phase : {"framing", "serving"}]]
      /\ slots'[s].conn = None
      /\ \A t \in Slots : t # s => slots'[t] = slots[t]
  BY <1>1, UnregisterIs
<1>6. /\ Registering => listener.slot \in Slots /\ listener.slot # s
      /\ \A i \in DOMAIN queue : queue[i].slot \in Slots /\ queue[i].slot # s
      /\ \A v \in Workers : Busy(v) => worker[v].slot \in Slots /\ (v # w => worker[v].slot # s)
  BY <1>1, FieldTypes DEF HoldersDistinct
<1>7. slots[s].conn = c /\ socket[c] = "shut"
  BY <1>1 DEF HoldersRegistered, StreamsClosed
<1> HIDE DEF s, c
<1>8. ServiceTypes'
  BY <1>1, <1>2, <1>5 DEF ServiceTypes
<1>9. HoldersTyped'
  BY <1>1, <1>2, <1>3, <1>4 DEF HoldersTyped
<1>10. HoldersRegistered'
  BY <1>1, <1>2, <1>3, <1>4, <1>5, <1>6 DEF HoldersRegistered
<1>11. HoldersDistinct'
  BY <1>1, <1>2, <1>3, <1>4 DEF HoldersDistinct
<1>12. SlotsHeld'
  BY <1>1, <1>2, <1>3, <1>4, <1>5 DEF SlotsHeld, s
<1>13. SlotsDistinct'
  BY <1>5 DEF SlotsDistinct
<1>14. BacklogFresh'
  BY <1>1, <1>5, FieldTypes DEF BacklogFresh
<1>15. AcceptedFresh'
  BY <1>1, <1>4, <1>5, FieldTypes, ServiceAssumption DEF AcceptedFresh
<1>16. SlotsEstablished'
  BY <1>1, <1>5 DEF SlotsEstablished
<1>17. OpenPlaced'
  BY <1>1, <1>5, <1>7 DEF OpenPlaced
<1>18. StreamsClosed' /\ NoFramingAfterStop'
  BY <1>1, <1>2 DEF StreamsClosed, NoFramingAfterStop
<1>19. RequestsServed'
  BY <1>1, <1>2 DEF RequestsServed
<1>20. EndsFinal'
  BY <1>1, <1>2 DEF EndsFinal, WorkersGone
<1> QED BY <1>8, <1>9, <1>10, <1>11, <1>12, <1>13, <1>14, <1>15, <1>16, <1>17, <1>18, <1>19, <1>20

-----------------------------------------------------------------------------
(* Steps of the thread that shuts the service down, and of the clock. *)

\* What shutdown_inner and the backend do to everything else: they may close
\* registered sockets.
LEMMA OwnerSteps ==
    ASSUME IInv, NEW S \in SUBSET Registered({"framing", "serving"}), socket' = Shut(S),
           UNCHANGED <<backlog, slots, queue, listener, worker, request>>,
           stopping' \in BOOLEAN, woken' \in BOOLEAN,
           backend' \in {"accepting", "draining", "stopped", "failed"},
           owner' \in [pc : OwnerPcs, result : Results], expired' \in BOOLEAN, faults' \in Nat,
           EndsFinal', NoFramingAfterStop'
    PROVE  IInv'
<1> USE DEF IInv
<1>1. /\ socket' \in [Connections -> {"none", "open", "shut"}]
      /\ \A c \in Connections : socket'[c] = IF c \in S THEN "shut" ELSE socket[c]
  BY ShutIs
<1>2. (Registering' <=> Registering) /\ (Accepted' <=> Accepted)
  BY DEF Registering, Accepted
<1>3. /\ \A c \in backlog : c \notin S
      /\ Accepted => listener.conn \notin S
  BY DEF BacklogFresh, AcceptedFresh, Registered
<1>4. ServiceTypes'
  BY <1>1 DEF ServiceTypes
<1>5. HoldersTyped' /\ HoldersRegistered' /\ HoldersDistinct' /\ SlotsHeld' /\ SlotsDistinct'
  BY <1>2 DEF HoldersTyped, HoldersRegistered, HoldersDistinct, SlotsHeld, SlotsDistinct, Busy
<1>6. BacklogFresh'
  BY <1>1, <1>3, FieldTypes DEF BacklogFresh
<1>7. AcceptedFresh'
  BY <1>1, <1>2, <1>3, FieldTypes DEF AcceptedFresh
<1>8. SlotsEstablished'
  BY <1>1, FieldTypes DEF SlotsEstablished
<1>9. OpenPlaced'
  BY <1>1 DEF OpenPlaced
<1>10. StreamsClosed'
  <2>1. \A w \in Workers : Busy(w) /\ socket[worker[w].conn] = "shut" =>
            socket'[worker[w].conn] = "shut"
    BY <1>1, FieldTypes
  <2> QED BY <2>1 DEF StreamsClosed, Busy
<1>11. RequestsServed'
  BY DEF RequestsServed
<1> QED BY <1>4, <1>5, <1>6, <1>7, <1>8, <1>9, <1>10, <1>11

\* A step that closes no socket.
LEMMA OwnerStepsQuietly ==
    ASSUME IInv, UNCHANGED <<backlog, socket, slots, queue, listener, worker, request>>,
           stopping' \in BOOLEAN, woken' \in BOOLEAN,
           backend' \in {"accepting", "draining", "stopped", "failed"},
           owner' \in [pc : OwnerPcs, result : Results], expired' \in BOOLEAN, faults' \in Nat,
           EndsFinal', NoFramingAfterStop'
    PROVE  IInv'
<1>1. socket' = Shut({})
  BY DEF IInv, ServiceTypes, Shut
<1>2. {} \in SUBSET Registered({"framing", "serving"})
  OBVIOUS
<1> QED BY <1>1, <1>2, OwnerSteps

\* The deadline of the shutdown passes.
LEMMA PassDeadlineInv == ASSUME IInv, PassDeadline PROVE IInv'
<1>1. EndsFinal' /\ NoFramingAfterStop'
  BY DEF IInv, PassDeadline, EndsFinal, NoFramingAfterStop, WorkersGone
<1>2. /\ stopping' \in BOOLEAN /\ woken' \in BOOLEAN
      /\ backend' \in {"accepting", "draining", "stopped", "failed"}
      /\ owner' \in [pc : OwnerPcs, result : Results] /\ expired' \in BOOLEAN /\ faults' \in Nat
  BY DEF IInv, PassDeadline, ServiceTypes
<1> QED BY <1>1, <1>2, OwnerStepsQuietly DEF PassDeadline

\* The steps before shutdown_framing.
LEMMA StopBegins ==
    ASSUME IInv, BeginShutdown \/ Wake \/ BackendBeginShutdown
    PROVE  IInv'
<1>1. /\ owner' \in [pc : OwnerPcs, result : Results]
      /\ owner'.pc \in {"wake", "begin", "framing"} /\ owner'.result = owner.result
  BY DEF IInv, BeginShutdown, Wake, BackendBeginShutdown, ServiceTypes, OwnerPcs, OwnerGoto
<1>2. /\ UNCHANGED <<backlog, socket, slots, queue, listener, worker, request, expired, faults>>
      /\ stopping' = TRUE /\ woken' \in BOOLEAN /\ expired' \in BOOLEAN /\ faults' \in Nat
      /\ backend' \in {"accepting", "draining", "stopped", "failed"}
  BY DEF IInv, BeginShutdown, Wake, BackendBeginShutdown, ServiceTypes, EndsFinal, OwnerAt
<1>3. owner.result # "ok"
  BY DEF IInv, EndsFinal, BeginShutdown, Wake, BackendBeginShutdown, OwnerAt
<1>4. EndsFinal' /\ NoFramingAfterStop'
  BY <1>1, <1>2, <1>3 DEF IInv, EndsFinal, NoFramingAfterStop
<1> QED BY <1>1, <1>2, <1>4, OwnerStepsQuietly

\* A worker that waits for its request has a slot that says so.
LEMMA FramingRegistered ==
    ASSUME IInv, NEW w \in Workers, worker[w].pc = "framing"
    PROVE  worker[w].conn \in Registered({"framing"}) /\ worker[w].conn \in Connections
<1>1. Busy(w)
  BY DEF Busy
<1>2. /\ worker[w].slot \in Slots /\ worker[w].conn \in Connections
      /\ slots[worker[w].slot].conn = worker[w].conn /\ slots[worker[w].slot].phase = "framing"
  BY <1>1, FieldTypes DEF IInv, HoldersRegistered
<1> QED BY <1>2, ServiceAssumption DEF Registered

\* shutdown_framing closes every connection that waits for its request.
LEMMA ShutdownFramingInv == ASSUME IInv, ShutdownFraming PROVE IInv'
<1>1. /\ owner.pc = "framing" /\ socket' = Shut(Registered({"framing"}))
      /\ UNCHANGED <<backlog, slots, queue, listener, worker, stopping, woken, backend, request,
                     expired, faults>>
      /\ owner'.pc = "spawn" /\ owner'.result = owner.result
      /\ owner' \in [pc : OwnerPcs, result : Results]
  BY DEF IInv, ShutdownFraming, ServiceTypes, OwnerAt, OwnerGoto, OwnerPcs
<1>2. EndsFinal'
  BY <1>1 DEF IInv, EndsFinal
<1>3. NoFramingAfterStop'
  <2>1. \A w \in Workers : worker[w].pc = "framing" => socket'[worker[w].conn] = "shut"
    BY <1>1, FramingRegistered, ShutIs DEF IInv
  <2> QED BY <1>1, <2>1 DEF NoFramingAfterStop
<1>4. Registered({"framing"}) \in SUBSET Registered({"framing", "serving"})
  BY DEF Registered
<1>5. /\ stopping' \in BOOLEAN /\ woken' \in BOOLEAN
      /\ backend' \in {"accepting", "draining", "stopped", "failed"}
      /\ expired' \in BOOLEAN /\ faults' \in Nat
  BY <1>1 DEF IInv, ServiceTypes
<1> QED BY <1>1, <1>2, <1>3, <1>4, <1>5, OwnerSteps

\* shutdown_all closes every registered connection.
LEMMA ShutdownAllInv == ASSUME IInv, ShutdownAll PROVE IInv'
<1>1. /\ owner.pc = "force" /\ socket' = Shut(Registered({"framing", "serving"}))
      /\ UNCHANGED <<backlog, slots, queue, listener, worker, stopping, woken, backend, request,
                     expired, faults>>
      /\ owner'.pc = "workers" /\ owner'.result = owner.result
      /\ owner' \in [pc : OwnerPcs, result : Results]
  BY DEF IInv, ShutdownAll, ServiceTypes, OwnerAt, OwnerGoto, OwnerPcs
<1>2. EndsFinal'
  BY <1>1 DEF IInv, EndsFinal
<1>3. NoFramingAfterStop'
  <2>1. Registered({"framing"}) \subseteq Registered({"framing", "serving"})
    BY DEF Registered
  <2>2. \A w \in Workers : worker[w].pc = "framing" => socket'[worker[w].conn] = "shut"
    BY <1>1, <2>1, FramingRegistered, ShutIs DEF IInv
  <2> QED BY <1>1, <2>2 DEF NoFramingAfterStop
<1>4. /\ stopping' \in BOOLEAN /\ woken' \in BOOLEAN
      /\ backend' \in {"accepting", "draining", "stopped", "failed"}
      /\ expired' \in BOOLEAN /\ faults' \in Nat
  BY <1>1 DEF IInv, ServiceTypes
<1> QED BY <1>1, <1>2, <1>3, <1>4, OwnerSteps

\* The other steps of the owner, all after shutdown_framing, change nothing but the
\* owner, the backend and the count of faults.
LEMMA StopProceeds ==
    ASSUME IInv, UNCHANGED <<backlog, socket, slots, queue, listener, worker, stopping, woken,
                             request, expired>>,
           backend' \in {"accepting", "draining", "stopped", "failed"}, faults' \in Nat,
           owner' \in [pc : OwnerPcs, result : Results],
           owner.pc \notin {"idle", "wake", "begin", "framing"}, EndsFinal'
    PROVE  IInv'
<1>1. NoFramingAfterStop'
  BY DEF IInv, NoFramingAfterStop
<1>2. /\ stopping' \in BOOLEAN /\ woken' \in BOOLEAN /\ expired' \in BOOLEAN
  BY DEF IInv, ServiceTypes
<1> QED BY <1>1, <1>2, OwnerStepsQuietly

\* The thread of the backend starts, or the shutdown ends.
LEMMA SpawnBackendShutdownInv == ASSUME IInv, SpawnBackendShutdown PROVE IInv'
<1>1. /\ owner' \in [pc : OwnerPcs, result : Results] /\ owner.pc = "spawn"
      /\ owner'.pc \in {"listener", "returned"} /\ owner'.result \in {owner.result, "unavailable"}
      /\ faults' \in Nat /\ backend' \in {"accepting", "draining", "stopped", "failed"}
      /\ UNCHANGED <<backlog, socket, slots, queue, listener, worker, stopping, woken, backend,
                     request, expired>>
  BY DEF IInv, SpawnBackendShutdown, ServiceTypes, OwnerAt, OwnerGoto, OwnerPcs, Return, Results
<1>2. EndsFinal'
  BY <1>1 DEF IInv, EndsFinal
<1> QED BY <1>1, <1>2, StopProceeds

\* The backend stops, or fails to.
LEMMA BackendStopsInv == ASSUME IInv, BackendStops PROVE IInv'
<1>1. /\ owner.pc \in {"listener", "grace", "force", "workers", "backend"} /\ backend = "draining"
      /\ owner' \in [pc : OwnerPcs, result : Results] /\ owner' = owner
      /\ faults' \in Nat /\ backend' \in {"accepting", "draining", "stopped", "failed"}
      /\ UNCHANGED <<backlog, socket, slots, queue, listener, worker, stopping, woken,
                     request, expired>>
  BY DEF IInv, BackendStops, ServiceTypes
<1>2. EndsFinal'
  BY <1>1 DEF IInv, EndsFinal, WorkersGone
<1> QED BY <1>1, <1>2, StopProceeds

\* The listener is joined, the grace period ends, the workers are joined.
LEMMA JoinsInv == ASSUME IInv, JoinListener \/ EndGrace \/ JoinWorkers PROVE IInv'
<1>1. /\ owner' \in [pc : OwnerPcs, result : Results]
      /\ owner.pc \in {"listener", "grace", "workers"}
      /\ \/ owner.pc = "listener" /\ owner'.pc = "grace" /\ listener.pc = "gone"
         \/ owner.pc = "grace" /\ owner'.pc = "force"
         \/ owner.pc = "workers" /\ owner'.pc = "backend" /\ WorkersGone
         \/ owner'.pc = "returned"
      /\ owner'.result \in {owner.result, "deadline"}
      /\ UNCHANGED <<backlog, socket, slots, queue, listener, worker, stopping, woken, backend,
                     request, expired, faults>>
  BY DEF IInv, JoinListener, EndGrace, JoinWorkers, ServiceTypes, OwnerAt, OwnerGoto, OwnerPcs,
         Return, Results
<1>2. EndsFinal'
  BY <1>1 DEF IInv, EndsFinal, WorkersGone
<1>3. faults' \in Nat /\ backend' \in {"accepting", "draining", "stopped", "failed"}
  BY <1>1 DEF IInv, ServiceTypes
<1> QED BY <1>1, <1>2, <1>3, StopProceeds

\* shutdown_inner returns.
LEMMA BackendResultInv == ASSUME IInv, BackendResult PROVE IInv'
<1>1. /\ owner' \in [pc : OwnerPcs, result : Results] /\ owner.pc = "backend"
      /\ owner'.pc = "returned"
      /\ owner'.result = "ok" =>
            backend = "stopped" /\ ~\E w \in Workers : worker[w].pc = "panicked"
      /\ UNCHANGED <<backlog, socket, slots, queue, listener, worker, stopping, woken, backend,
                     request, expired, faults>>
  BY DEF IInv, BackendResult, ServiceTypes, OwnerAt, OwnerPcs, Return, Results
<1>2. EndsFinal'
  <2>1. WorkersGone
    BY <1>1 DEF IInv, EndsFinal
  <2> QED BY <1>1, <2>1 DEF IInv, EndsFinal, WorkersGone
<1>3. faults' \in Nat /\ backend' \in {"accepting", "draining", "stopped", "failed"}
  BY <1>1 DEF IInv, ServiceTypes
<1> QED BY <1>1, <1>2, <1>3, StopProceeds

-----------------------------------------------------------------------------
(* The invariant holds in every state. *)

\* The service starts with nothing open, registered or queued.
LEMMA InitInv == ASSUME Init PROVE IInv
<1> USE DEF Init
<1>1. ServiceTypes
  <2>1. <<>> \in Seq([conn : Connections, slot : Slots]) /\ Len(<<>>) = 0
    BY EmptySeq
  <2>2. queue \in Seq([conn : Connections, slot : Slots]) /\ Len(queue) <= QueueCapacity
    BY <2>1, ServiceAssumption
  <2>3. /\ slots \in [Slots -> [conn : Connections \union {None}, phase : {"framing", "serving"}]]
        /\ listener \in [pc : ListenerPcs, conn : Connections \union {None},
                          slot : Slots \union {0}]
        /\ worker \in [Workers -> [pc : WorkerPcs, conn : Connections \union {None},
                                    slot : Slots \union {0}]]
        /\ owner \in [pc : OwnerPcs, result : Results]
    BY DEF Empty, Idle, ListenerPcs, WorkerPcs, OwnerPcs, Results
  <2> QED BY <2>2, <2>3 DEF ServiceTypes
<1>2. HoldersTyped /\ HoldersRegistered /\ HoldersDistinct
  BY DEF HoldersTyped, HoldersRegistered, HoldersDistinct, Registering, Accepted, Busy, Idle
<1>3. SlotsHeld /\ SlotsDistinct
  BY DEF SlotsHeld, SlotsDistinct, Empty
<1>4. BacklogFresh /\ AcceptedFresh /\ SlotsEstablished /\ OpenPlaced
  BY DEF BacklogFresh, AcceptedFresh, SlotsEstablished, OpenPlaced, Accepted, Empty
<1>5. StreamsClosed /\ RequestsServed /\ EndsFinal /\ NoFramingAfterStop
  BY DEF StreamsClosed, RequestsServed, EndsFinal, NoFramingAfterStop, Idle
<1> QED BY <1>1, <1>2, <1>3, <1>4, <1>5 DEF IInv

\* Every step of every thread keeps the invariant.
LEMMA NextInv == ASSUME IInv, [Next]_vars PROVE IInv'
<1>1. CASE Listener
  BY <1>1, AcceptInv, AcceptFailsInv, WaitInv, AfterAcceptInv, ListenerRegistersInv, SendInv,
     SendFailedInv, ListenerExitsInv DEF Listener
<1>2. CASE BeginShutdown
  BY <1>2, StopBegins
<1>3. CASE Owner
  BY <1>3, StopBegins, ShutdownFramingInv, SpawnBackendShutdownInv, BackendStopsInv, JoinsInv,
     ShutdownAllInv, BackendResultInv DEF Owner
<1>4. CASE PassDeadline
  BY <1>4, PassDeadlineInv
<1>5. ASSUME NEW w \in Workers, Work(w) \/ Panic(w) PROVE IInv'
  BY <1>5, LockInv, RecvInv, TakeJobInv, ReadRequestInv, MarkServingInv, RouteInv,
     SubmitRequestInv, ServeEndsInv, CloseStreamInv, WorkerUnregistersInv, PanicInv DEF Work
<1>6. ASSUME NEW c \in Connections, Connect(c) PROVE IInv'
  BY <1>6, ConnectInv
<1>7. CASE UNCHANGED vars
  BY <1>7 DEF vars, IInv, ServiceTypes, HoldersTyped, HoldersRegistered, HoldersDistinct, SlotsHeld,
     SlotsDistinct, BacklogFresh, AcceptedFresh, SlotsEstablished, OpenPlaced, StreamsClosed,
     RequestsServed, EndsFinal, NoFramingAfterStop, Registering, Accepted, Busy, WorkersGone
<1> QED BY <1>1, <1>2, <1>3, <1>4, <1>5, <1>6, <1>7 DEF Next, Terminated

\* Every reachable state satisfies the invariant.
LEMMA Invariant == Spec => []IInv
  BY InitInv, NextInv, PTL DEF Spec

-----------------------------------------------------------------------------
(* What the invariant says about the registry. *)

\* The registry and the holders agree on every slot.
LEMMA HeldIs ==
    ASSUME IInv, NEW c, NEW s
    PROVE  <<c, s>> \in Held <=> s \in Slots /\ c # None /\ slots[s].conn = c
<1>1. ASSUME <<c, s>> \in Held PROVE s \in Slots /\ c # None /\ slots[s].conn = c
  <2>1. \/ Registering /\ c = listener.conn /\ s = listener.slot
        \/ \E i \in DOMAIN queue : c = queue[i].conn /\ s = queue[i].slot
        \/ \E w \in Workers : worker[w].conn # None /\ c = worker[w].conn /\ s = worker[w].slot
    BY <1>1 DEF Held, Registering
  <2>2. CASE Registering /\ c = listener.conn /\ s = listener.slot
    BY <2>2, FieldTypes, ServiceAssumption DEF IInv, HoldersRegistered
  <2>3. CASE \E i \in DOMAIN queue : c = queue[i].conn /\ s = queue[i].slot
    BY <2>3, FieldTypes, ServiceAssumption DEF IInv, HoldersRegistered
  <2>4. CASE \E w \in Workers : worker[w].conn # None /\ c = worker[w].conn /\ s = worker[w].slot
    BY <2>4, FieldTypes, ServiceAssumption DEF IInv, HoldersRegistered, HoldersTyped
  <2> QED BY <2>1, <2>2, <2>3, <2>4
<1>2. ASSUME s \in Slots, c # None, slots[s].conn = c PROVE <<c, s>> \in Held
  <2>1. \/ Registering /\ listener.slot = s
        \/ \E i \in DOMAIN queue : queue[i].slot = s
        \/ \E w \in Workers : Busy(w) /\ worker[w].slot = s
    BY <1>2 DEF IInv, SlotsHeld
  <2>2. CASE Registering /\ listener.slot = s
    BY <1>2, <2>2 DEF IInv, HoldersRegistered, Held, Registering
  <2>3. CASE \E i \in DOMAIN queue : queue[i].slot = s
    BY <1>2, <2>3 DEF IInv, HoldersRegistered, Held
  <2>4. CASE \E w \in Workers : Busy(w) /\ worker[w].slot = s
    BY <1>2, <2>4 DEF IInv, HoldersRegistered, HoldersTyped, Held
  <2> QED BY <2>1, <2>2, <2>3, <2>4
<1> QED BY <1>1, <1>2

\* Held is a set of pairs.
LEMMA HeldPairs == \A h \in Held : h = <<h[1], h[2]>>
  BY DEF Held

\* The registry is exact.
LEMMA SlotsAreExact == ASSUME IInv PROVE SlotsExact
<1>1. {<<slots[s].conn, s>> : s \in Slots \ Free} = Held
  <2>1. ASSUME NEW s \in Slots \ Free PROVE <<slots[s].conn, s>> \in Held
    BY HeldIs DEF Free
  <2>2. ASSUME NEW h \in Held PROVE h \in {<<slots[s].conn, s>> : s \in Slots \ Free}
    <3>1. h = <<h[1], h[2]>>
      BY HeldPairs
    <3>2. h[2] \in Slots /\ h[1] # None /\ slots[h[2]].conn = h[1]
      BY <3>1, HeldIs
    <3>3. h[2] \in Slots \ Free
      BY <3>2 DEF Free
    <3> QED BY <3>1, <3>2, <3>3
  <2> QED BY <2>1, <2>2
<1>2. ASSUME NEW h \in Held, NEW k \in Held, h[1] = k[1] \/ h[2] = k[2] PROVE h = k
  <2>1. h = <<h[1], h[2]>> /\ k = <<k[1], k[2]>>
    BY HeldPairs
  <2>2. /\ h[2] \in Slots /\ h[1] # None /\ slots[h[2]].conn = h[1]
        /\ k[2] \in Slots /\ k[1] # None /\ slots[k[2]].conn = k[1]
    BY <2>1, HeldIs
  <2>3. h[1] = k[1] /\ h[2] = k[2]
    BY <1>2, <2>2 DEF IInv, SlotsDistinct
  <2> QED BY <2>1, <2>3
<1> QED BY <1>1, <1>2 DEF SlotsExact

\* A set that the elements of a finite set S name has at most as many elements as S.
LEMMA NamedCount ==
    ASSUME NEW S, IsFiniteSet(S), NEW T, NEW f \in [S -> T], \A t \in T : \E x \in S : f[x] = t
    PROVE  IsFiniteSet(T) /\ Cardinality(T) <= Cardinality(S)
<1>1. f \in Surjection(S, T)
  BY DEF Surjection
<1> QED BY <1>1, FS_Surjection

\* As many slots as queue places and workers are enough: if none is free while the
\* listener asks for one, every place and every worker has one.
LEMMA RegistryIsNotTighter == ASSUME IInv PROVE RegistryNotTighter
<1>1. SUFFICES ASSUME listener.pc = "register", Free = {}
               PROVE  Len(queue) = QueueCapacity /\ \A w \in Workers : worker[w].conn # None
  BY DEF RegistryNotTighter
<1> DEFINE n == Len(queue)
           B == {w \in Workers : Busy(w)}
           QS == {s \in Slots : \E i \in DOMAIN queue : queue[i].slot = s}
           WS == {s \in Slots : \E w \in B : worker[w].slot = s}
<1>2. n \in Nat /\ n <= QueueCapacity /\ DOMAIN queue = 1 .. n
  BY LenProperties DEF IInv, ServiceTypes
<1>3. Slots = QS \union WS
  <2>1. ~Registering
    BY <1>1 DEF Registering
  <2>2. \A s \in Slots : slots[s].conn # None
    BY <1>1 DEF Free
  <2> QED BY <2>1, <2>2 DEF IInv, SlotsHeld
<1>4. /\ Cardinality(Workers) \in Nat
      /\ IsFiniteSet(B) /\ Cardinality(B) <= Cardinality(Workers)
      /\ Cardinality(Workers) = Cardinality(B) => Workers = B
  BY ServiceAssumption, FS_Subset, FS_CardinalityType
<1>5. IsFiniteSet(QS) /\ Cardinality(QS) <= n
  <2> DEFINE f == [i \in 1 .. n |-> queue[i].slot]
  <2>1. f \in [1 .. n -> QS] /\ \A s \in QS : \E i \in 1 .. n : f[i] = s
    BY <1>2, FieldTypes
  <2>2. IsFiniteSet(1 .. n) /\ Cardinality(1 .. n) = n
    <3> HIDE DEF n
    <3>1. IsFiniteSet(1 .. n) /\ Cardinality(1 .. n) = IF 1 > n THEN 0 ELSE n - 1 + 1
      BY <1>2, FS_Interval
    <3> QED BY <1>2, <3>1
  <2> HIDE DEF f, QS
  <2>3. IsFiniteSet(QS) /\ Cardinality(QS) <= Cardinality(1 .. n)
    BY <2>1, <2>2, NamedCount
  <2> QED BY <2>2, <2>3
<1>6. IsFiniteSet(WS) /\ Cardinality(WS) <= Cardinality(B)
  <2> DEFINE f == [w \in B |-> worker[w].slot]
  <2>1. f \in [B -> WS] /\ \A s \in WS : \E w \in B : f[w] = s
    BY FieldTypes
  <2> HIDE DEF f, WS, B
  <2> QED BY <1>4, <2>1, NamedCount
<1>7. Cardinality(Slots) = Cardinality(Workers) + QueueCapacity
  <2>1. Capacity \in Nat /\ Capacity = Cardinality(Workers) + QueueCapacity
    BY <1>4, ServiceAssumption DEF Capacity
  <2> QED BY <2>1, FS_Interval DEF Slots
<1> HIDE DEF n, B, QS, WS
<1>8. /\ Cardinality(QS \union WS) = Cardinality(QS) + Cardinality(WS) - Cardinality(QS \cap WS)
      /\ Cardinality(QS \cap WS) \in Nat
  <2>1. IsFiniteSet(QS \cap WS)
    BY <1>5, FS_Subset
  <2> QED BY <1>5, <1>6, <2>1, FS_Union, FS_CardinalityType
<1>9. Cardinality(QS) \in Nat /\ Cardinality(WS) \in Nat /\ Cardinality(B) \in Nat
  BY <1>4, <1>5, <1>6, FS_CardinalityType
<1>10. n = QueueCapacity /\ Cardinality(B) = Cardinality(Workers)
  BY <1>2, <1>3, <1>4, <1>5, <1>6, <1>7, <1>8, <1>9, ServiceAssumption
<1>11. Workers = B
  BY <1>4, <1>10
<1>12. \A w \in Workers : worker[w].conn # None
  BY <1>11 DEF IInv, HoldersTyped, B
<1> QED BY <1>10, <1>12 DEF n

\* Slots follow connections through the listener, the queue, the workers and every
\* early return, whichever threads race or panic, and the registry never refuses a
\* connection the queue would have taken (ConnectionRegistry, listener_loop,
\* worker_loop).
THEOREM SlotsCorrect == Spec => []SlotsSound
<1>1. IInv => SlotsSound
  BY SlotsAreExact, RegistryIsNotTighter DEF SlotsSound
<1> QED BY <1>1, Invariant, PTL

-----------------------------------------------------------------------------
(* What the invariant says about shutdown. *)

\* An Ok shutdown leaves nothing behind.
LEMMA OkIsClean == ASSUME IInv PROVE ShutdownOkIsClean
<1>1. SUFFICES ASSUME owner.result = "ok"
               PROVE  /\ listener.pc = "gone" /\ WorkersGone /\ backend = "stopped"
                      /\ \A c \in Connections : socket[c] # "open" /\ request[c] # "live"
                      /\ Free = Slots /\ queue = <<>>
  BY DEF ShutdownOkIsClean
<1>2. backend = "stopped" /\ \A w \in Workers : worker[w].pc = "gone"
  BY <1>1 DEF IInv, EndsFinal
<1>3. listener.pc = "gone" /\ queue = <<>> /\ backlog = {}
  BY <1>2, ServiceAssumption DEF IInv, EndsFinal
<1>4. Free = Slots
  <2>1. ~Registering /\ \A w \in Workers : ~Busy(w)
    BY <1>2, <1>3 DEF Registering, Busy
  <2>2. DOMAIN queue = {}
    BY <1>3
  <2> QED BY <2>1, <2>2 DEF IInv, SlotsHeld, Free
<1>5. \A c \in Connections : socket[c] # "open"
  <2>1. listener.conn = None
    BY <1>3 DEF IInv, HoldersTyped, Registering, Accepted
  <2>2. \A c \in Connections : c # None
    BY ServiceAssumption
  <2> QED BY <1>3, <1>4, <2>1, <2>2 DEF IInv, OpenPlaced, Free
<1>6. \A c \in Connections : request[c] # "live"
  BY <1>2 DEF IInv, RequestsServed
<1> QED BY <1>2, <1>3, <1>4, <1>5, <1>6 DEF WorkersGone

\* After shutdown_framing no worker waits on an open connection, and a shutdown that
\* returns Ok has ended every thread, connection and request (shutdown_inner).
THEOREM ShutdownCorrect == Spec => []ShutdownSound
<1>1. IInv => ShutdownSound
  BY OkIsClean DEF ShutdownSound, IInv
<1> QED BY <1>1, Invariant, PTL
=============================================================================
