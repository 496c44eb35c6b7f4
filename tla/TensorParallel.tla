--------------------------- MODULE TensorParallel ---------------------------
(***************************************************************************)
(* Tensor-parallel execution: the leader rank 0 that the scheduler drives, *)
(* the follower threads it hands every iteration to                        *)
(* (crates/riley-runtime/src/llama/tensor_parallel.rs, the calls in        *)
(* batch_executor.rs), and the peer all-reduce kernels in which their      *)
(* devices meet (kernels/src/primitives.cu).                               *)
(*                                                                         *)
(* An iteration is a sequence of all-reduce calls, the same on every rank  *)
(* because every rank packs the same rows.  A call is the low-latency or   *)
(* the staged kernel on some number of blocks.  Block b meets only block b *)
(* of the other ranks, so a block's elements are one datum, and the datum  *)
(* is its origin: the iteration and the call it is the input of.  The      *)
(* stores of one block to several peers are one step: a peer that sees its *)
(* copy later is a peer that looks later.                                  *)
(***************************************************************************)
EXTENDS Integers, Sequences, FiniteSets

CONSTANTS
    Followers,      \* number of follower ranks
    Iterations,     \* the sequences of calls an iteration may be
    MaxBlocks,      \* kMaximumBlocks
    EpochRange,     \* 2^32: an epoch is a u32
    MaxIterations,  \* bound: iterations the scheduler dispatches
    MaxFaults       \* bound: ranks that refuse, fail or die

\* Tensor parallelism is between two ranks at least.
ASSUME SizeAssumption ==
    Followers \in Nat \ {0} /\ MaxBlocks \in Nat /\ MaxIterations \in Nat /\ MaxFaults \in Nat
ASSUME EpochAssumption == EpochRange \in Nat /\ EpochRange % 2 = 0 /\ EpochRange > 2
ASSUME CallAssumption == Iterations \subseteq Seq([low : BOOLEAN, blocks : 1 .. MaxBlocks])

VARIABLES
    leader,     \* where execute_output or close of rank 0 stands
    pending,    \* TensorParallelFollowers::pending
    inbox,      \* commands sent to each follower (sync_channel of one)
    replies,    \* results sent back by each follower (sync_channel of one)
    thread,     \* each follower's host thread
    poisoned,   \* ranks whose executor is poisoned
    run,        \* the iteration each rank's device works on, and how far it is
    epochs,     \* epochs[r][low][b]: the epoch slots in rank r's signal area
    start,      \* start[r][b][s]: rank s's start flag in rank r's signal area
    end,        \* end[r][b][s]: its end flag
    staging,    \* staging[r][b]: the datum in rank r's staging buffer
    packets,    \* packets[r][p][s][b]: rank s's packet of parity p at rank r
    mixed,      \* ranks that summed a datum of another iteration or call
    faults      \* faults so far

host == <<leader, pending, inbox, replies, thread, poisoned>>
device == <<epochs, start, end, staging, packets, mixed>>
vars == <<host, run, device, faults>>

Ranks == 0 .. Followers
FollowerRanks == 1 .. Followers
Blocks == 1 .. MaxBlocks

-----------------------------------------------------------------------------
(* One rank's device: the calls of an iteration in stream order.           *)

NoRun == [iteration |-> 0, calls |-> <<>>, limit |-> 0, at |-> 0,
          lanes |-> <<>>, trapped |-> FALSE]

Call(r) == run[r].calls[run[r].at]
Datum(r) == <<run[r].iteration, run[r].at>>
Epoch(r, b) == (epochs[r][Call(r).low][b] + 1) % EpochRange
Parity(e) == e % 2

CallDone(r) == \A b \in DOMAIN run[r].lanes : run[r].lanes[b].pc = "done"
RunDone(r) == run[r].trapped \/ (run[r].at = run[r].limit /\ CallDone(r))

\* Contribution of every rank to rank r's sum of block b: its own input, and
\* for the staged kernel what the peer's staging buffer holds now.
Staged(r, b) == {staging[s][b] : s \in Ranks}

SetLane(r, b, pc, met) ==
    run' = [run EXCEPT ![r].lanes[b] = [pc |-> pc, met |-> met]]

\* The next call of the stream: the staged path copies the input first.
NextCall(r) ==
    /\ ~run[r].trapped /\ run[r].at < run[r].limit /\ CallDone(r)
    /\ LET at == run[r].at + 1
           call == run[r].calls[at]
       IN /\ run' = [run EXCEPT ![r].at = at,
                        ![r].lanes = [b \in 1 .. call.blocks |-> [pc |-> "post", met |-> {}]]]
          /\ staging' = IF call.low THEN staging
                        ELSE [staging EXCEPT ![r] = [b \in Blocks |->
                                IF b <= call.blocks THEN <<run[r].iteration, at>> ELSE @[b]]]
    /\ UNCHANGED <<host, epochs, start, end, packets, mixed, faults>>

\* The low-latency kernel stores its packets, the staged one its start flags.
\* A block has met itself: it finds its own flag where it has just stored it.
Post(r, b) ==
    /\ run[r].lanes[b].pc = "post"
    /\ IF Call(r).low
       THEN /\ packets' = [q \in Ranks |->
                 IF q = r THEN packets[q]
                 ELSE [packets[q] EXCEPT ![Parity(Epoch(r, b))][r][b] =
                         [epoch |-> Epoch(r, b), datum |-> Datum(r)]]]
            /\ UNCHANGED start
       ELSE /\ start' = [q \in Ranks |-> [start[q] EXCEPT ![b][r] = Epoch(r, b)]]
            /\ UNCHANGED packets
    /\ SetLane(r, b, "meet", {r})
    /\ UNCHANGED <<host, epochs, end, staging, mixed, faults>>

Packet(r, b, s) == packets[r][Parity(Epoch(r, b))][s][b]

\* What rank r's block b spins on: rank s's arrival at this epoch.
Arrived(r, b, s) ==
    CASE run[r].lanes[b].pc = "meet" /\ Call(r).low -> Packet(r, b, s).epoch = Epoch(r, b)
      [] run[r].lanes[b].pc = "meet" /\ ~Call(r).low -> start[r][b][s] = Epoch(r, b)
      [] run[r].lanes[b].pc = "leave" -> end[r][b][s] = Epoch(r, b)

Spins(r, b, s) == run[r].lanes[b].pc \in {"meet", "leave"} /\ s \notin run[r].lanes[b].met

\* Rank s has arrived; the low-latency kernel takes the datum with the flag.
Meet(r, b, s) ==
    /\ Spins(r, b, s) /\ Arrived(r, b, s)
    /\ SetLane(r, b, run[r].lanes[b].pc, run[r].lanes[b].met \cup {s})
    /\ mixed' = IF Call(r).low /\ Packet(r, b, s).datum # Datum(r)
                THEN mixed \cup {r} ELSE mixed
    /\ UNCHANGED <<host, epochs, start, end, staging, packets, faults>>

\* Mutant: the sum posts no arrival at the end barrier and does not wait.
SumWithoutEnd(r, b) ==
    /\ run[r].lanes[b].pc = "meet" /\ ~Call(r).low /\ run[r].lanes[b].met = Ranks
    /\ mixed' = IF Staged(r, b) # {Datum(r)} THEN mixed \cup {r} ELSE mixed
    /\ SetLane(r, b, "leave", Ranks)
    /\ UNCHANGED <<host, epochs, start, end, staging, packets, faults>>

\* The staged kernel sums every rank's staging buffer, then arrives at the
\* end barrier.
Sum(r, b) ==
    /\ run[r].lanes[b].pc = "meet" /\ ~Call(r).low /\ run[r].lanes[b].met = Ranks
    /\ mixed' = IF Staged(r, b) # {Datum(r)} THEN mixed \cup {r} ELSE mixed
    /\ end' = [q \in Ranks |-> [end[q] EXCEPT ![b][r] = Epoch(r, b)]]
    /\ SetLane(r, b, "leave", {r})
    /\ UNCHANGED <<host, epochs, start, staging, packets, faults>>

\* Everyone has been met: the block stores its epoch and ends.
Leave(r, b) ==
    /\ run[r].lanes[b].met = Ranks
    /\ run[r].lanes[b].pc = (IF Call(r).low THEN "meet" ELSE "leave")
    /\ epochs' = [epochs EXCEPT ![r][Call(r).low][b] = Epoch(r, b)]
    /\ SetLane(r, b, "done", {})
    /\ UNCHANGED <<host, start, end, staging, packets, mixed, faults>>

\* Mutant: a block spins for as long as it takes.
NeverTrap(r) == FALSE

\* A block spun for kPeerReduceTimeoutNs: the kernel traps and the device's
\* context is lost.
Trap(r) ==
    /\ \E b \in DOMAIN run[r].lanes : \E s \in Ranks : Spins(r, b, s) /\ ~Arrived(r, b, s)
    /\ run' = [run EXCEPT ![r].trapped = TRUE]
    /\ UNCHANGED <<host, device, faults>>

Device(r) ==
    \/ NextCall(r)
    \/ /\ ~run[r].trapped
       /\ \/ \E b \in DOMAIN run[r].lanes :
               \/ Post(r, b)
               \/ Sum(r, b)
               \/ Leave(r, b)
               \/ \E s \in Ranks : Meet(r, b, s)
          \/ Trap(r)

-----------------------------------------------------------------------------
(* execute_output on one rank.                                             *)

\* A command batch of which the first `limit` calls are submitted; fewer than
\* all when the body fails midway.  finish() waits for them either way.
Begin(r, job) ==
    \E limit \in 0 .. Len(job.calls) :
        /\ faults' = IF limit = Len(job.calls) THEN faults ELSE faults + 1
        /\ faults' <= MaxFaults
        /\ run' = [run EXCEPT ![r] = [NoRun EXCEPT !.iteration = job.iteration,
                                        !.calls = job.calls, !.limit = limit]]

Succeeded(r) == ~run[r].trapped /\ run[r].limit = Len(run[r].calls)

\* Any failure once the command batch is open poisons the executor.
PoisonIfFailed(r) ==
    poisoned' = IF Succeeded(r) THEN poisoned ELSE poisoned \cup {r}

\* A validation error before the command batch opens does not.
Refuse == faults < MaxFaults /\ faults' = faults + 1

-----------------------------------------------------------------------------
(* The follower threads.                                                   *)

Reply(f, result) ==
    /\ replies' = [replies EXCEPT ![f] = Append(@, result)]
    /\ thread' = [thread EXCEPT ![f] = "waiting"]

FollowerTakes(f) ==
    /\ thread[f] = "waiting" /\ inbox[f] # <<>>
    /\ inbox' = [inbox EXCEPT ![f] = Tail(@)]
    /\ \/ /\ f \in poisoned /\ Reply(f, "error")
          /\ UNCHANGED <<run, faults>>
       \/ /\ f \notin poisoned /\ Refuse /\ Reply(f, "error")
          /\ UNCHANGED run
       \/ /\ f \notin poisoned /\ Begin(f, Head(inbox[f]))
          /\ thread' = [thread EXCEPT ![f] = "executing"]
          /\ UNCHANGED replies
       \/ /\ Refuse
          /\ thread' = [thread EXCEPT ![f] = "stopped"]   \* the thread panics
          /\ UNCHANGED <<run, replies>>
    /\ UNCHANGED <<leader, pending, poisoned, device>>

FollowerReplies(f) ==
    /\ thread[f] = "executing" /\ RunDone(f)
    /\ Reply(f, IF Succeeded(f) THEN "ok" ELSE "error")
    /\ PoisonIfFailed(f)
    /\ UNCHANGED <<leader, pending, inbox, run, device, faults>>

\* The command sender is gone: the thread synchronizes and closes its executor.
FollowerEnds(f) ==
    /\ thread[f] = "waiting" /\ inbox[f] = <<>> /\ leader.at = "join"
    /\ thread' = [thread EXCEPT ![f] = "stopped"]
    /\ UNCHANGED <<leader, pending, inbox, replies, poisoned, run, device, faults>>

Follower(f) == FollowerTakes(f) \/ FollowerReplies(f) \/ FollowerEnds(f)

-----------------------------------------------------------------------------
(* The leader.                                                             *)

Leader0 == [at |-> "idle", next |-> 0, iteration |-> 0, calls |-> <<>>,
            result |-> "none", failed |-> FALSE]
Job == [iteration |-> leader.iteration, calls |-> leader.calls]

\* execute_output: the host-side checks passed and the followers come first.
Execute ==
    /\ leader.at = "idle" /\ 0 \notin poisoned /\ leader.iteration < MaxIterations
    /\ \E calls \in Iterations :
        leader' = [Leader0 EXCEPT !.at = "dispatch", !.next = 1,
                                  !.iteration = leader.iteration + 1, !.calls = calls]
    /\ UNCHANGED <<pending, inbox, replies, thread, poisoned, run, device, faults>>

\* dispatch() sends to one follower after the other and gives up at the first
\* that has stopped; the executor is poisoned and nothing is waited for.
Dispatch ==
    /\ leader.at = "dispatch"
    /\ LET f == leader.next
       IN IF thread[f] = "stopped"
          THEN /\ leader' = [leader EXCEPT !.at = "idle", !.result = "error"]
               /\ poisoned' = poisoned \cup {0}
               /\ UNCHANGED <<pending, inbox>>
          ELSE /\ inbox[f] = <<>>
               /\ inbox' = [inbox EXCEPT ![f] = <<Job>>]
               /\ pending' = pending + 1
               /\ leader' = IF f = Followers THEN [leader EXCEPT !.at = "begin"]
                            ELSE [leader EXCEPT !.next = f + 1]
               /\ UNCHANGED poisoned
    /\ UNCHANGED <<replies, thread, run, device, faults>>

LeaderBegins ==
    /\ leader.at = "begin"
    /\ \/ /\ Begin(0, Job)
          /\ leader' = [leader EXCEPT !.at = "executing"]
       \/ /\ Refuse
          /\ leader' = [leader EXCEPT !.at = "wait", !.next = 1, !.result = "error"]
          /\ UNCHANGED run
    /\ UNCHANGED <<pending, inbox, replies, thread, poisoned, device>>

LeaderExecuted ==
    /\ leader.at = "executing" /\ RunDone(0)
    /\ leader' = [leader EXCEPT !.at = "wait", !.next = 1,
                                !.result = IF Succeeded(0) THEN "ok" ELSE "error"]
    /\ PoisonIfFailed(0)
    /\ UNCHANGED <<pending, inbox, replies, thread, run, device, faults>>

\* wait(): one reply from each of the first `pending` followers.
Collect ==
    /\ leader.at \in {"wait", "close"}
    /\ leader.next <= Followers /\ pending > 0
    /\ LET f == leader.next
       IN \/ /\ replies[f] # <<>>
             /\ replies' = [replies EXCEPT ![f] = Tail(@)]
             /\ leader' = [leader EXCEPT !.next = f + 1,
                              !.failed = @ \/ Head(replies[f]) = "error"]
          \/ /\ replies[f] = <<>> /\ thread[f] = "stopped"
             /\ leader' = [leader EXCEPT !.next = f + 1, !.failed = TRUE]
             /\ UNCHANGED replies
    /\ pending' = pending - 1
    /\ UNCHANGED <<inbox, thread, poisoned, run, device, faults>>

\* A rank that did not run the iteration poisons a leader that did.
Settle ==
    /\ leader.at = "wait" /\ (leader.next > Followers \/ pending = 0)
    /\ IF leader.result = "ok" /\ leader.failed
       THEN /\ poisoned' = poisoned \cup {0}
            /\ leader' = [leader EXCEPT !.at = "idle", !.result = "error"]
       ELSE /\ leader' = [leader EXCEPT !.at = "idle"]
            /\ UNCHANGED poisoned
    /\ UNCHANGED <<pending, inbox, replies, thread, run, device, faults>>

\* close() collects what is pending first; Drop goes straight to the joins.
Close ==
    /\ leader.at = "idle"
    /\ \E at \in {"close", "join"} :
        leader' = [leader EXCEPT !.at = at, !.next = 1, !.result = "none"]
    /\ UNCHANGED <<pending, inbox, replies, thread, poisoned, run, device, faults>>

HangUp ==
    /\ leader.at = "close" /\ (leader.next > Followers \/ pending = 0)
    /\ leader' = [leader EXCEPT !.at = "join"]
    /\ UNCHANGED <<pending, inbox, replies, thread, poisoned, run, device, faults>>

Join ==
    /\ leader.at = "join" /\ \A f \in FollowerRanks : thread[f] = "stopped"
    /\ leader' = [leader EXCEPT !.at = "closed"]
    /\ UNCHANGED <<pending, inbox, replies, thread, poisoned, run, device, faults>>

Leader ==
    \/ Dispatch \/ LeaderBegins \/ LeaderExecuted \/ Collect \/ Settle
    \/ HangUp \/ Join

-----------------------------------------------------------------------------

Init ==
    /\ leader = Leader0 /\ pending = 0
    /\ inbox = [f \in FollowerRanks |-> <<>>]
    /\ replies = [f \in FollowerRanks |-> <<>>]
    /\ thread \in [FollowerRanks -> {"waiting", "stopped"}]  \* spawn may fail
    /\ faults = Cardinality({f \in FollowerRanks : thread[f] = "stopped"})
    /\ faults <= MaxFaults
    /\ poisoned = {} /\ mixed = {}
    /\ run = [r \in Ranks |-> NoRun]
    /\ epochs = [r \in Ranks |-> [low \in BOOLEAN |-> [b \in Blocks |-> 0]]]
    /\ start = [r \in Ranks |-> [b \in Blocks |-> [s \in Ranks |-> 0]]]
    /\ end = start
    /\ staging = [r \in Ranks |-> [b \in Blocks |-> <<0, 0>>]]
    /\ packets = [r \in Ranks |-> [p \in 0 .. 1 |-> [s \in Ranks |->
                    [b \in Blocks |-> [epoch |-> 0, datum |-> <<0, 0>>]]]]]

Next ==
    \/ Execute \/ Close \/ Leader
    \/ \E f \in FollowerRanks : Follower(f)
    \/ \E r \in Ranks : Device(r)

\* Threads and devices keep running; the timer of a spinning block expires.
\* Whether another iteration or a close comes is the scheduler's choice.
Spec ==
    /\ Init /\ [][Next]_vars
    /\ WF_vars(Leader)
    /\ \A f \in FollowerRanks : WF_vars(Follower(f))
    /\ \A r \in Ranks : WF_vars(Device(r))

-----------------------------------------------------------------------------

\* An iteration the leader reports as executed was executed to the end by
\* every rank, and no rank ever summed a datum of another call or iteration:
\* neither a packet or staging buffer overwritten before a slow peer read it,
\* nor what a failed iteration left in a peer's memory.
ReportedSumsAreExact ==
    leader.at = "idle" /\ leader.result = "ok" =>
        /\ mixed = {}
        /\ \A r \in Ranks : run[r].iteration = leader.iteration /\ RunDone(r) /\ Succeeded(r)

\* Rank s has made the arrival that block b of rank r, running, spins on.
HasArrived(s, r, b) ==
    /\ run[s].iteration = run[r].iteration
    /\ \/ run[s].at > run[r].at
       \/ run[s].at = run[r].at /\ run[s].lanes[b].pc \in
            (IF run[r].lanes[b].pc = "leave" THEN {"leave", "done"} ELSE {"meet", "leave", "done"})

\* No arrival is lost: flags and packets are compared for equality with the
\* epoch, so one that a fast peer overwrote before it was seen would leave the
\* block spinning until it traps.
ArrivalsAreSeen ==
    \A r \in Ranks : \A b \in DOMAIN run[r].lanes : \A s \in Ranks :
        Spins(r, b, s) /\ HasArrived(s, r, b) => Arrived(r, b, s)

\* What the protocol guarantees at every moment.
AllReduceExact == ReportedSumsAreExact /\ ArrivalsAreSeen

\* Every execute_output, close and drop of the leader returns, whichever rank
\* refuses, fails, dies or traps: nobody waits for a rank that will not come.
LeaderReturns ==
    leader.at \notin {"idle", "closed"} ~> leader.at \in {"idle", "closed"}

=============================================================================
