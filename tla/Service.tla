------------------------------- MODULE Service -------------------------------
(***************************************************************************)
(* The HTTP service of riley-server (service.rs): a listener thread, a     *)
(* bounded queue of accepted connections, worker threads that take them    *)
(* from it under one mutex, the registry of open connections, and the      *)
(* thread that shuts the service down.                                     *)
(*                                                                         *)
(* A step is an access to what two threads share: the stop flag, the wake  *)
(* socket, the registry, the queue, a socket.  Each connection carries one *)
(* request ("Connection: close").  What a worker does while it serves is   *)
(* module Delivery; here it submits to the backend at most once, and ends. *)
(***************************************************************************)
EXTENDS Integers, Sequences, FiniteSets, FiniteSetsExt

CONSTANTS
    Connections,   \* what clients may open
    Workers,       \* worker_threads
    QueueCapacity, \* connection_queue_capacity
    None,          \* no connection
    MaxFaults      \* bound: accept or poll errors, failures of shutdown, and threads that panic

\* ServerConfig::validate.
ASSUME ServiceAssumption ==
    /\ IsFiniteSet(Connections) /\ IsFiniteSet(Workers) /\ Workers # {}
    /\ QueueCapacity \in Nat \ {0} /\ MaxFaults \in Nat
    /\ None \notin Connections

\* connection_capacity of start_server.
Capacity == Cardinality(Workers) + QueueCapacity
Slots == 1..Capacity

VARIABLES
    backlog,   \* connections the kernel has established and nobody accepted
    socket,    \* "none", "open", or "shut" by the server
    slots,     \* ConnectionRegistry: [conn, phase] per slot
    queue,     \* the connection channel: jobs [conn, slot]
    listener,  \* program counter and locals of listener_loop
    worker,    \* program counter and job of each worker_loop
    stopping,  \* the stop flag
    woken,     \* the writer of the wake socket was dropped
    backend,   \* "accepting", "draining" after begin_shutdown, "stopped"
    request,   \* the backend request of a connection
    owner,     \* program counter and result of shutdown_inner
    expired,   \* the shutdown deadline has passed
    faults

vars == <<backlog, socket, slots, queue, listener, worker, stopping, woken, backend, request,
          owner, expired, faults>>

Empty == [conn |-> None, phase |-> "framing"]
Idle == [pc |-> "lock", conn |-> None, slot |-> 0]

Shut(S) == [c \in Connections |-> IF c \in S THEN "shut" ELSE socket[c]]

-----------------------------------------------------------------------------
(* ConnectionRegistry. *)

Free == {s \in Slots : slots[s].conn = None}

Register(s, c) == slots' = [slots EXCEPT ![s] = [conn |-> c, phase |-> "framing"]]

Unregister(s) == slots' = [slots EXCEPT ![s] = Empty]

Registered(phases) == {slots[s].conn : s \in {t \in Slots : slots[t].phase \in phases}} \ {None}

-----------------------------------------------------------------------------
(* Clients and time. *)

Connect(c) ==
    /\ socket[c] = "none" /\ listener.pc # "gone"
    /\ socket' = [socket EXCEPT ![c] = "open"]
    /\ backlog' = backlog \union {c}
    /\ UNCHANGED <<slots, queue, listener, worker, stopping, woken, backend, request, owner,
                   expired, faults>>

PassDeadline ==
    /\ owner.pc \notin {"idle", "returned"} /\ ~expired
    /\ expired' = TRUE
    /\ UNCHANGED <<backlog, socket, slots, queue, listener, worker, stopping, woken, backend,
                   request, owner, faults>>

-----------------------------------------------------------------------------
(* listener_loop. *)

ListenerGoto(pc) == listener' = [listener EXCEPT !.pc = pc]

\* The head of the loop, and accept, which does not block.
Accept ==
    /\ listener.pc = "loop"
    /\ IF stopping THEN ListenerGoto("exit") /\ UNCHANGED backlog
       ELSE IF backlog = {} THEN ListenerGoto("wait") /\ UNCHANGED backlog
       ELSE \E c \in backlog :
               /\ backlog' = backlog \ {c}
               /\ listener' = [pc |-> "accepted", conn |-> c, slot |-> 0]
    /\ UNCHANGED <<socket, slots, queue, worker, stopping, woken, backend, request, owner,
                   expired, faults>>

\* accept or poll fails for good, which ends the loop.
AcceptFails ==
    /\ listener.pc \in {"loop", "wait"} /\ faults < MaxFaults
    /\ faults' = faults + 1
    /\ ListenerGoto("exit")
    /\ UNCHANGED <<backlog, socket, slots, queue, worker, stopping, woken, backend, request,
                   owner, expired>>

\* Mutant: the wait ends for a connection only.
WaitForConnection ==
    /\ listener.pc = "wait"
    /\ backlog # {} /\ ListenerGoto("loop")
    /\ UNCHANGED <<backlog, socket, slots, queue, worker, stopping, woken, backend, request,
                   owner, expired, faults>>

\* ListenerReadiness::wait: poll returns for a connection or for the wake socket,
\* which has priority.
Wait ==
    /\ listener.pc = "wait"
    /\ woken \/ backlog # {}
    /\ ListenerGoto(IF woken THEN "exit" ELSE "loop")
    /\ UNCHANGED <<backlog, socket, slots, queue, worker, stopping, woken, backend, request,
                   owner, expired, faults>>

\* The accepted socket is configured, which may fail, and the stop flag read again.
AfterAccept ==
    /\ listener.pc = "accepted"
    /\ \/ socket' = Shut({listener.conn}) /\ listener' = [listener EXCEPT !.pc = "loop", !.conn = None]
       \/ /\ stopping
          /\ socket' = Shut({listener.conn}) /\ listener' = [listener EXCEPT !.pc = "exit", !.conn = None]
       \/ ~stopping /\ UNCHANGED socket /\ ListenerGoto("register")
    /\ UNCHANGED <<backlog, slots, queue, worker, stopping, woken, backend, request, owner,
                   expired, faults>>

\* register takes the first free slot; with none the client is told Overloaded.
ListenerRegisters ==
    /\ listener.pc = "register"
    /\ IF Free = {}
       THEN /\ socket' = Shut({listener.conn})
            /\ listener' = [listener EXCEPT !.pc = "loop", !.conn = None]
            /\ UNCHANGED slots
       ELSE /\ Register(Min(Free), listener.conn)
            /\ listener' = [listener EXCEPT !.pc = "send", !.slot = Min(Free)]
            /\ UNCHANGED socket
    /\ UNCHANGED <<backlog, queue, worker, stopping, woken, backend, request, owner, expired,
                   faults>>

\* try_send.  The receiver is dropped with the last worker.
WorkersGone == \A w \in Workers : worker[w].pc \in {"gone", "panicked"}

Send ==
    /\ listener.pc = "send"
    /\ IF ~WorkersGone /\ Len(queue) < QueueCapacity
       THEN /\ queue' = Append(queue, [conn |-> listener.conn, slot |-> listener.slot])
            /\ listener' = [listener EXCEPT !.pc = "loop", !.conn = None, !.slot = 0]
       ELSE /\ UNCHANGED queue
            /\ listener' = [listener EXCEPT !.pc = IF WorkersGone THEN "closed" ELSE "full"]
    /\ UNCHANGED <<backlog, socket, slots, worker, stopping, woken, backend, request, owner,
                   expired, faults>>

\* Mutant: a connection that does not fit keeps its slot.
SendFailedKeepsSlot ==
    /\ listener.pc \in {"full", "closed"}
    /\ socket' = Shut({listener.conn})
    /\ listener' = [pc |-> IF listener.pc = "full" THEN "loop" ELSE "exit",
                    conn |-> None, slot |-> 0]
    /\ UNCHANGED <<backlog, slots, queue, worker, stopping, woken, backend, request, owner,
                   expired, faults>>

\* unregister, the error response, and shutdown of the socket.
SendFailed ==
    /\ listener.pc \in {"full", "closed"}
    /\ Unregister(listener.slot)
    /\ socket' = Shut({listener.conn})
    /\ listener' = [pc |-> IF listener.pc = "full" THEN "loop" ELSE "exit",
                    conn |-> None, slot |-> 0]
    /\ UNCHANGED <<backlog, queue, worker, stopping, woken, backend, request, owner, expired,
                   faults>>

\* The thread ends: the listening socket closes with its backlog, and the only
\* sender of the queue is dropped.
ListenerExits ==
    /\ listener.pc = "exit"
    /\ ListenerGoto("gone")
    /\ socket' = Shut(backlog) /\ backlog' = {}
    /\ UNCHANGED <<slots, queue, worker, stopping, woken, backend, request, owner, expired,
                   faults>>

Listener ==
    \/ Accept \/ AcceptFails \/ Wait \/ AfterAccept \/ ListenerRegisters
    \/ Send \/ SendFailed \/ ListenerExits

-----------------------------------------------------------------------------
(* worker_loop of worker w. *)

WorkerGoto(w, pc) == worker' = [worker EXCEPT ![w].pc = pc]

\* One worker at a time waits in recv, with the mutex.
Lock(w) ==
    /\ worker[w].pc = "lock" /\ \A v \in Workers : worker[v].pc # "recv"
    /\ WorkerGoto(w, "recv")
    /\ UNCHANGED <<backlog, socket, slots, queue, listener, stopping, woken, backend, request,
                   owner, expired, faults>>

\* recv: the queue is emptied before its disconnection is seen.
Recv(w) ==
    /\ worker[w].pc = "recv"
    /\ \/ /\ queue # <<>>
          /\ queue' = Tail(queue)
          /\ worker' = [worker EXCEPT ![w] = [pc |-> "got", conn |-> Head(queue).conn,
                                              slot |-> Head(queue).slot]]
       \/ /\ queue = <<>> /\ listener.pc = "gone"
          /\ WorkerGoto(w, "gone")
          /\ UNCHANGED queue
    /\ UNCHANGED <<backlog, socket, slots, listener, stopping, woken, backend, request, owner,
                   expired, faults>>

\* Mutant: the stop flag is not read before a connection is handled.
TakeAlways(w) ==
    /\ worker[w].pc = "got"
    /\ WorkerGoto(w, "framing")
    /\ UNCHANGED <<backlog, socket, slots, queue, listener, stopping, woken, backend, request,
                   owner, expired, faults>>

\* A job taken while the service stops is answered ShuttingDown.
TakeJob(w) ==
    /\ worker[w].pc = "got"
    /\ WorkerGoto(w, IF stopping THEN "close" ELSE "framing")
    /\ UNCHANGED <<backlog, socket, slots, queue, listener, stopping, woken, backend, request,
                   owner, expired, faults>>

\* read_request under read_timeout and framing_timeout: a request, or an error (the
\* client was too slow, sent no HTTP or left, or the socket was shut down).
ReadRequest(w) ==
    /\ worker[w].pc = "framing"
    /\ \/ WorkerGoto(w, "close")
       \/ WorkerGoto(w, "framed")
    /\ UNCHANGED <<backlog, socket, slots, queue, listener, stopping, woken, backend, request,
                   owner, expired, faults>>

MarkServing(w) ==
    /\ worker[w].pc = "framed"
    /\ slots' = [slots EXCEPT ![worker[w].slot].phase = "serving"]
    /\ WorkerGoto(w, "route")
    /\ UNCHANGED <<backlog, socket, queue, listener, stopping, woken, backend, request, owner,
                   expired, faults>>

\* route_request answers by itself, or serve_generation finds the backend
\* accepting; between that and submit the backend may begin to drain.
Route(w) ==
    /\ worker[w].pc = "route"
    /\ \/ WorkerGoto(w, "close")
       \/ ~stopping /\ backend = "accepting" /\ WorkerGoto(w, "submit")
    /\ UNCHANGED <<backlog, socket, slots, queue, listener, stopping, woken, backend, request,
                   owner, expired, faults>>

\* submit succeeds, or fails (overloaded, or shutting down).
SubmitRequest(w) ==
    /\ worker[w].pc = "submit"
    /\ \/ /\ backend = "accepting"
          /\ request' = [request EXCEPT ![worker[w].conn] = "live"]
          /\ WorkerGoto(w, "serve")
       \/ WorkerGoto(w, "close") /\ UNCHANGED request
    /\ UNCHANGED <<backlog, socket, slots, queue, listener, stopping, woken, backend, owner,
                   expired, faults>>

\* stream_completion or collect_completion returns: module Delivery shows that it
\* does, and that the request is over or cancelled then.
ServeEnds(w) ==
    /\ worker[w].pc = "serve"
    /\ request' = [request EXCEPT ![worker[w].conn] = "settled"]
    /\ WorkerGoto(w, "close")
    /\ UNCHANGED <<backlog, socket, slots, queue, listener, stopping, woken, backend, owner,
                   expired, faults>>

\* Shutdown of the stream after handle_connection, or after the ShuttingDown answer.
CloseStream(w) ==
    /\ worker[w].pc = "close"
    /\ socket' = Shut({worker[w].conn})
    /\ WorkerGoto(w, "unregister")
    /\ UNCHANGED <<backlog, slots, queue, listener, stopping, woken, backend, request, owner,
                   expired, faults>>

WorkerUnregisters(w) ==
    /\ worker[w].pc = "unregister"
    /\ Unregister(worker[w].slot)
    /\ worker' = [worker EXCEPT ![w] = Idle]
    /\ UNCHANGED <<backlog, socket, queue, listener, stopping, woken, backend, request, owner,
                   expired, faults>>

\* handle_connection panics, in a build that unwinds (the dev profile; the release
\* profile aborts the process): the submission is dropped, and the registry, which
\* is not told, keeps the slot and its duplicate of the socket.
Panic(w) ==
    /\ worker[w].pc \in {"framing", "framed", "route", "submit", "serve"} /\ faults < MaxFaults
    /\ faults' = faults + 1
    /\ request' = [request EXCEPT ![worker[w].conn] = IF @ = "live" THEN "settled" ELSE @]
    /\ WorkerGoto(w, "panicked")
    /\ UNCHANGED <<backlog, socket, slots, queue, listener, stopping, woken, backend, owner,
                   expired>>

Work(w) ==
    \/ Lock(w) \/ Recv(w) \/ TakeJob(w) \/ ReadRequest(w) \/ MarkServing(w) \/ Route(w)
    \/ SubmitRequest(w) \/ ServeEnds(w) \/ CloseStream(w) \/ WorkerUnregisters(w)

-----------------------------------------------------------------------------
(* shutdown_inner, on the thread that owns the ServerHandle, and the thread it
   starts for the backend. *)

OwnerAt(pc) == owner.pc = pc
OwnerGoto(pc) == owner' = [owner EXCEPT !.pc = pc]
Return(result) == owner' = [pc |-> "returned", result |-> result]

BeginShutdown ==
    /\ OwnerAt("idle")
    /\ stopping' = TRUE
    /\ OwnerGoto("wake")
    /\ UNCHANGED <<backlog, socket, slots, queue, listener, worker, woken, backend, request,
                   expired, faults>>

Wake ==
    /\ OwnerAt("wake")
    /\ woken' = TRUE
    /\ OwnerGoto("begin")
    /\ UNCHANGED <<backlog, socket, slots, queue, listener, worker, stopping, backend, request,
                   expired, faults>>

BackendBeginShutdown ==
    /\ OwnerAt("begin")
    /\ backend' = "draining"
    /\ OwnerGoto("framing")
    /\ UNCHANGED <<backlog, socket, slots, queue, listener, worker, stopping, woken, request,
                   expired, faults>>

ShutdownFraming ==
    /\ OwnerAt("framing")
    /\ socket' = Shut(Registered({"framing"}))
    /\ OwnerGoto("spawn")
    /\ UNCHANGED <<backlog, slots, queue, listener, worker, stopping, woken, backend, request,
                   expired, faults>>

\* The thread for the backend may not start, which ends the shutdown here.
SpawnBackendShutdown ==
    /\ OwnerAt("spawn")
    /\ \/ OwnerGoto("listener") /\ UNCHANGED faults
       \/ faults < MaxFaults /\ faults' = faults + 1 /\ Return("unavailable")
    /\ UNCHANGED <<backlog, socket, slots, queue, listener, worker, stopping, woken, backend,
                   request, expired>>

\* backend.shutdown on its own thread.
BackendStops ==
    /\ owner.pc \in {"listener", "grace", "force", "workers", "backend"} /\ backend = "draining"
    /\ \/ backend' = "stopped" /\ UNCHANGED faults
       \/ expired /\ backend' = "failed" /\ UNCHANGED faults
       \/ faults < MaxFaults /\ faults' = faults + 1 /\ backend' = "failed"
    /\ UNCHANGED <<backlog, socket, slots, queue, listener, worker, stopping, woken, request,
                   owner, expired>>

\* join_until: an expired deadline is noticed only if the thread still runs.
JoinListener ==
    /\ OwnerAt("listener")
    /\ \/ listener.pc = "gone" /\ OwnerGoto("grace")
       \/ listener.pc # "gone" /\ expired /\ Return("deadline")
    /\ UNCHANGED <<backlog, socket, slots, queue, listener, worker, stopping, woken, backend,
                   request, expired, faults>>

\* The workers get most of the grace period to end by themselves.
EndGrace ==
    /\ OwnerAt("grace")
    /\ OwnerGoto("force")
    /\ UNCHANGED <<backlog, socket, slots, queue, listener, worker, stopping, woken, backend,
                   request, expired, faults>>

ShutdownAll ==
    /\ OwnerAt("force")
    /\ socket' = Shut(Registered({"framing", "serving"}))
    /\ OwnerGoto("workers")
    /\ UNCHANGED <<backlog, slots, queue, listener, worker, stopping, woken, backend, request,
                   expired, faults>>

JoinWorkers ==
    /\ OwnerAt("workers")
    /\ \/ WorkersGone /\ OwnerGoto("backend")
       \/ ~WorkersGone /\ expired /\ Return("deadline")
    /\ UNCHANGED <<backlog, socket, slots, queue, listener, worker, stopping, woken, backend,
                   request, expired, faults>>

\* Mutant: the threads are joined, but what the backend's shutdown returned is ignored.
BackendResultIgnored ==
    /\ OwnerAt("backend")
    /\ \/ backend \in {"failed", "stopped"}
          /\ Return(IF \E w \in Workers : worker[w].pc = "panicked" THEN "panicked" ELSE "ok")
       \/ expired /\ Return("deadline")
    /\ UNCHANGED <<backlog, socket, slots, queue, listener, worker, stopping, woken, backend,
                   request, expired, faults>>

\* The result of the backend and the end of its thread, both before the deadline.
BackendResult ==
    /\ OwnerAt("backend")
    /\ \/ backend = "failed" /\ Return("backend")
       \/ backend = "stopped" /\ Return(IF \E w \in Workers : worker[w].pc = "panicked"
                                        THEN "panicked" ELSE "ok")
       \/ expired /\ Return("deadline")
    /\ UNCHANGED <<backlog, socket, slots, queue, listener, worker, stopping, woken, backend,
                   request, expired, faults>>

Owner ==
    \/ Wake \/ BackendBeginShutdown \/ ShutdownFraming \/ SpawnBackendShutdown
    \/ BackendStops \/ JoinListener \/ EndGrace \/ ShutdownAll \/ JoinWorkers \/ BackendResult

\* Every thread has ended.
Terminated ==
    /\ OwnerAt("returned") /\ listener.pc = "gone" /\ WorkersGone
    /\ UNCHANGED vars

-----------------------------------------------------------------------------
Init ==
    /\ backlog = {} /\ socket = [c \in Connections |-> "none"]
    /\ slots = [s \in Slots |-> Empty] /\ queue = <<>>
    /\ listener = [pc |-> "loop", conn |-> None, slot |-> 0]
    /\ worker = [w \in Workers |-> Idle]
    /\ stopping = FALSE /\ woken = FALSE /\ backend = "accepting"
    /\ request = [c \in Connections |-> "none"]
    /\ owner = [pc |-> "idle", result |-> "none"] /\ expired = FALSE /\ faults = 0

Next ==
    \/ Listener \/ BeginShutdown \/ Owner \/ PassDeadline \/ Terminated
    \/ \E w \in Workers : Work(w) \/ Panic(w)
    \/ \E c \in Connections : Connect(c)

\* The scheduler runs every thread.  A worker blocks in recv, in a read or a write
\* with a timeout and in polls only, the listener in poll; nothing is assumed of
\* clients, of the clock or of whoever may call shutdown.
Spec ==
    /\ Init /\ [][Next]_vars
    /\ WF_vars(Listener) /\ WF_vars(Owner) /\ \A w \in Workers : WF_vars(Work(w))

-----------------------------------------------------------------------------
(* Properties. *)

\* Who holds a registered connection, with its slot.
Held ==
    {<<j.conn, j.slot>> : j \in
        {l \in {listener} : l.pc \in {"send", "full", "closed"}}
        \union {queue[i] : i \in DOMAIN queue}
        \union {worker[w] : w \in {v \in Workers : worker[v].conn # None}}}

\* Every slot in use belongs to exactly one connection that the listener, the queue
\* or a worker still holds, and to no other: slots are neither leaked nor handed out
\* twice, whoever gives up on the connection (register, unregister).
SlotsExact ==
    /\ {<<slots[s].conn, s>> : s \in Slots \ Free} = Held
    /\ \A h, k \in Held : h[1] = k[1] \/ h[2] = k[2] => h = k

\* The registry never turns a client away before the queue does ("Overloaded"): it is
\* full only if the queue is full and every worker has a connection.
RegistryNotTighter ==
    listener.pc = "register" /\ Free = {} =>
        Len(queue) = QueueCapacity /\ \A w \in Workers : worker[w].conn # None

\* Registry slots follow connections through the listener, the queue, the workers
\* and every early return, and are not what limits the service.
SlotsSound == SlotsExact /\ RegistryNotTighter

\* Once shutdown_framing is through, no worker waits for a request on an open
\* connection, although connections are registered and taken from the queue
\* meanwhile: the stop flag and the registry are read in opposite orders.
NoFramingAfterStop ==
    owner.pc \notin {"idle", "wake", "begin", "framing"} =>
        \A w \in Workers : worker[w].pc = "framing" => socket[worker[w].conn] = "shut"

\* shutdown returns Ok only if every thread has ended, every connection ever
\* established is closed, no slot is taken, no request runs and the backend stopped.
ShutdownOkIsClean ==
    owner.result = "ok" =>
        /\ listener.pc = "gone" /\ WorkersGone /\ backend = "stopped"
        /\ \A c \in Connections : socket[c] # "open" /\ request[c] # "live"
        /\ Free = Slots /\ queue = <<>>

\* Shutdown leaves nothing behind that its steps, which race the listener and the
\* workers, should have stopped.
ShutdownSound == NoFramingAfterStop /\ ShutdownOkIsClean

\* Shutdown ends the listener, whatever it waits for, and then every worker, one of
\* which holds the mutex while it waits: also if the deadline passes and nobody
\* joins them ("its exit disconnects the queue and wakes every idle worker").
ThreadsEnd == stopping ~> (listener.pc = "gone" /\ WorkersGone)

\* Every connection a client establishes is closed in the end, and none is forgotten
\* in the backlog, in the queue or between the two when the service stops; except one
\* whose worker panicked, which the registry keeps open until a shutdown.
ConnectionsClosed ==
    \A c \in Connections : socket[c] = "open" ~>
        \/ socket[c] = "shut"
        \/ \E w \in Workers : worker[w].pc = "panicked" /\ worker[w].conn = c

\* A stopped service drains: threads end and no accepted connection stays open.
ServiceDrains == ThreadsEnd /\ ConnectionsClosed
=============================================================================
