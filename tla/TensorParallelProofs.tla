------------------------ MODULE TensorParallelProofs ------------------------
(***************************************************************************)
(* The all-reduce protocol of tensor-parallel execution, for any number of *)
(* ranks, any blocks, any sequence of calls, any even epoch range and any  *)
(* faults.                                                                 *)
(***************************************************************************)
EXTENDS TensorParallel, SequenceTheorems, TLAPS

-----------------------------------------------------------------------------
(* The inductive invariant. *)

Calls == [low : BOOLEAN, blocks : Blocks]
Pcs == {"post", "meet", "leave", "done"}
Lanes == [pc : Pcs, met : SUBSET Ranks]
LaneMaps == UNION {[1 .. n -> Lanes] : n \in 0 .. MaxBlocks}
Runs == [iteration : Nat, calls : Seq(Calls), limit : Nat, at : Nat,
         lanes : LaneMaps, trapped : BOOLEAN]
Epochs == 0 .. EpochRange - 1
Succ(e) == (e + 1) % EpochRange

HostTypes ==
    /\ leader \in [at : {"idle", "dispatch", "begin", "executing", "wait", "close", "join", "closed"},
                   next : Nat, iteration : Nat, calls : Seq(Calls),
                   result : {"none", "ok", "error"}, failed : BOOLEAN]
    /\ pending \in Nat
    /\ inbox \in [FollowerRanks -> {<<>>, <<Job>>}]
    /\ replies \in [FollowerRanks -> {<<>>, <<"ok">>, <<"error">>}]
    /\ thread \in [FollowerRanks -> {"waiting", "executing", "stopped"}]
    /\ poisoned \subseteq Ranks

DeviceTypes ==
    /\ run \in [Ranks -> Runs]
    /\ epochs \in [Ranks -> [BOOLEAN -> [Blocks -> Epochs]]]
    /\ start \in [Ranks -> [Blocks -> [Ranks -> Epochs]]]
    /\ end \in [Ranks -> [Blocks -> [Ranks -> Epochs]]]
    /\ staging \in [Ranks -> [Blocks -> Nat \X Nat]]
    /\ packets \in [Ranks -> [0 .. 1 -> [Ranks -> [Blocks -> [epoch : Epochs, datum : Nat \X Nat]]]]]
    /\ mixed \subseteq Ranks

\* The calls of a run that were submitted, and the blocks of the one it is at.
RunShaped(r) ==
    /\ run[r].limit <= Len(run[r].calls) /\ run[r].at <= run[r].limit
    /\ run[r].at = 0 => run[r].lanes = <<>>
    /\ run[r].at > 0 => DOMAIN run[r].lanes = 1 .. Call(r).blocks
    /\ \A b \in DOMAIN run[r].lanes :
        /\ run[r].lanes[b].pc = "leave" => ~Call(r).low
        /\ run[r].lanes[b].pc \in {"meet", "leave"} => r \in run[r].lanes[b].met
        /\ run[r].lanes[b].pc \in {"post", "done"} => run[r].lanes[b].met = {}

RunsShaped == \A r \in Ranks : RunShaped(r)

Pc(r, b) == run[r].lanes[b].pc
Met(r, b) == run[r].lanes[b].met

\* Block b of rank r takes part in the current call, and the call is of this kernel.
InCall(r, low, b) == b \in DOMAIN run[r].lanes /\ Call(r).low = low

\* The epoch of the last arrival that block b of rank r has posted.
Sent(r, low, b) ==
    IF InCall(r, low, b) /\ Pc(r, b) \in {"meet", "leave"} THEN Succ(epochs[r][low][b])
    ELSE epochs[r][low][b]

\* The same at the end barrier of the staged kernel.
Ended(r, b) ==
    IF InCall(r, FALSE, b) /\ Pc(r, b) = "leave" THEN Succ(epochs[r][FALSE][b])
    ELSE epochs[r][FALSE][b]

\* Flags hold what their writer posted last.
FlagsWritten ==
    \A s, q \in Ranks, b \in Blocks :
        /\ start[q][b][s] = Sent(s, FALSE, b)
        /\ end[q][b][s] = Ended(s, b)

\* A packet slot holds the last packet of its parity, or none yet.
PacketsWritten ==
    \A s, q \in Ranks, b \in Blocks : s # q =>
        LET e == Sent(s, TRUE, b)
        IN  /\ packets[q][Parity(e)][s][b].epoch = e
            /\ LET other == packets[q][1 - Parity(e)][s][b].epoch
               IN  Succ(other) = e \/ (other = 0 /\ Parity(e) = 0)
            /\ InCall(s, TRUE, b) /\ Pc(s, b) \in {"meet", "done"} =>
                  packets[q][Parity(e)][s][b].datum = Datum(s)

\* The staging buffer holds the input of the staged call a rank is at.
StagingWritten ==
    \A s \in Ranks, b \in Blocks : InCall(s, FALSE, b) => staging[s][b] = Datum(s)

\* Rank r's device works on the leader's iteration, or has.
Current(r) == run[r].iteration = leader.iteration
\* Rank r may take part in it: it has not failed before.
Sound(r) == Current(r) \/ r \notin poisoned
\* How far it is.
Pos(r) == IF Current(r) THEN run[r].at ELSE 0

\* The epoch of a block after the call that rank r is at.
After(r, low, b) ==
    IF Current(r) /\ InCall(r, low, b) /\ Pc(r, b) # "done" THEN Succ(epochs[r][low][b])
    ELSE epochs[r][low][b]

CurrentCalls ==
    \A r \in Ranks : run[r].iteration <= leader.iteration /\ (Current(r) => run[r].calls = leader.calls)

\* Rank s is at the call of rank r's block b with one of these pcs, or further.
Passed(s, r, b, pcs) == Pos(s) > Pos(r) \/ (Pos(s) = Pos(r) /\ Pc(s, b) \in pcs)

\* What a block has gone through says where the other ranks are.
Says(s, r, b, pc, met) ==
    /\ pc = "meet" /\ s \in met => Passed(s, r, b, {"meet", "leave", "done"})
    /\ pc = "leave" => Passed(s, r, b, {"meet", "leave", "done"})
    /\ pc = "leave" /\ s \in met => Passed(s, r, b, {"leave", "done"})
    /\ pc = "done" => Passed(s, r, b, IF Call(r).low THEN {"meet", "done"} ELSE {"leave", "done"})

Lockstep ==
    \A r, s \in Ranks : Current(r) /\ Sound(s) =>
        \A b \in DOMAIN run[r].lanes : Says(s, r, b, Pc(r, b), Met(r, b))

\* Ranks are at most one call apart, and count the same calls.
Together(r, s) ==
    /\ Pos(s) <= Pos(r) + 1
    /\ Pos(s) = Pos(r) =>
        \A low \in BOOLEAN, b \in Blocks : After(s, low, b) = After(r, low, b)
    /\ Pos(s) = Pos(r) + 1 =>
        /\ \A low \in BOOLEAN, b \in Blocks : epochs[s][low][b] = After(r, low, b)
        /\ Current(r) => \A b \in DOMAIN run[r].lanes :
            /\ Pc(r, b) \in (IF Call(r).low THEN {"meet", "done"} ELSE {"leave", "done"})
            /\ r # s /\ Call(r).low /\ Pc(r, b) = "meet" =>
                 packets[r][Parity(After(r, TRUE, b))][s][b]
                    = [epoch |-> After(r, TRUE, b), datum |-> Datum(r)]

AllTogether == \A r, s \in Ranks : Sound(r) /\ Sound(s) => Together(r, s)

\* Only a rank that failed before can have spoilt a sum.
SumsExact == (\A r \in Ranks : Sound(r)) => mixed = {}

\* No arrival was lost in an iteration that is over.
OldArrivalsSeen ==
    \A r, s \in Ranks : run[r].iteration # leader.iteration => \A b \in DOMAIN run[r].lanes :
        Spins(r, b, s) /\ HasArrived(s, r, b) => Arrived(r, b, s)

Executing(r) == IF r = 0 THEN leader.at = "executing" ELSE thread[r] = "executing"

\* A rank that executes nothing is done, and poisoned unless it succeeded.
Resting ==
    \A r \in Ranks : IF Executing(r) THEN Current(r) /\ r \notin poisoned /\ leader.iteration > 0
                     ELSE RunDone(r) /\ (Succeeded(r) \/ r \in poisoned)

\* Follower f has nothing of the leader's, and the leader nothing of it.
Quiet(f) == inbox[f] = <<>> /\ replies[f] = <<>> /\ thread[f] # "executing"

\* A job is in the inbox, executed or answered.
JobsOnce ==
    \A f \in FollowerRanks :
        /\ inbox[f] # <<>> =>
             replies[f] = <<>> /\ thread[f] = "waiting" /\ run[f].iteration < leader.iteration
        /\ thread[f] = "executing" => replies[f] = <<>>
        /\ replies[f] = <<"ok">> => Current(f) /\ f \notin poisoned /\ ~Executing(f)

\* Where the leader is, and what it has dispatched and collected.
LeaderKnows ==
    /\ leader.at = "idle" /\ 0 \notin poisoned => pending = 0 /\ \A f \in FollowerRanks : Quiet(f)
    /\ leader.at = "dispatch" =>
         /\ leader.next \in FollowerRanks /\ pending = leader.next - 1
         /\ \A f \in leader.next .. Followers : Quiet(f) /\ run[f].iteration < leader.iteration
    /\ leader.at \in {"dispatch", "begin"} => 0 \notin poisoned /\ run[0].iteration < leader.iteration
    /\ leader.at \in {"begin", "executing"} => pending = Followers
    /\ leader.at \in {"dispatch", "begin", "executing"} => leader.result = "none" /\ ~leader.failed
    /\ leader.at = "wait" =>
         /\ leader.next \in 1 .. Followers + 1 /\ pending = Followers + 1 - leader.next
         /\ leader.result \in {"ok", "error"}
         /\ leader.result = "ok" => Current(0) /\ 0 \notin poisoned
         /\ \A f \in 1 .. leader.next - 1 :
              Quiet(f) /\ (leader.failed \/ (Current(f) /\ f \notin poisoned))
    /\ leader.at = "close" => leader.next # 0
    /\ leader.at = "idle" /\ leader.result = "ok" =>
         \A r \in Ranks : Current(r) /\ r \notin poisoned

HostInv == HostTypes /\ Resting /\ JobsOnce /\ LeaderKnows
DeviceInv ==
    /\ DeviceTypes /\ RunsShaped /\ FlagsWritten /\ PacketsWritten /\ StagingWritten
    /\ CurrentCalls /\ Lockstep /\ AllTogether /\ SumsExact /\ OldArrivalsSeen
IInv == HostInv /\ DeviceInv

-----------------------------------------------------------------------------
(* Epochs. *)

\* The successor of an epoch wraps at the range of a u32.
LEMMA SuccIs ==
    ASSUME NEW e \in Epochs
    PROVE  Succ(e) = IF e = EpochRange - 1 THEN 0 ELSE e + 1
<1>1. EpochRange \in Nat /\ EpochRange > 2 BY EpochAssumption
<1>2. CASE e = EpochRange - 1 BY <1>1, <1>2 DEF Succ, Epochs
<1>3. CASE e # EpochRange - 1
  <2>1. e + 1 \in 0 .. EpochRange - 1 BY <1>1, <1>3 DEF Epochs
  <2> QED BY <1>1, <1>3, <2>1 DEF Succ
<1> QED BY <1>2, <1>3

\* An epoch, its successor and the one after differ, and parities alternate.
LEMMA SuccFacts ==
    ASSUME NEW e \in Epochs
    PROVE  /\ Succ(e) \in Epochs
           /\ Succ(e) # e /\ Succ(Succ(e)) # e
           /\ Parity(e) \in 0 .. 1 /\ Parity(Succ(e)) = 1 - Parity(e)
<1>1. EpochRange \in Nat /\ EpochRange > 2 /\ EpochRange % 2 = 0 BY EpochAssumption
<1>2. Succ(e) \in Epochs BY <1>1, SuccIs DEF Epochs
<1>3. Succ(Succ(e)) = IF Succ(e) = EpochRange - 1 THEN 0 ELSE Succ(e) + 1 BY <1>2, SuccIs
<1>4. Succ(e) # e /\ Succ(Succ(e)) # e BY <1>1, <1>3, SuccIs DEF Epochs
<1>5. Parity(e) \in 0 .. 1 BY DEF Parity, Epochs
<1>6. Parity(Succ(e)) = 1 - Parity(e)
  <2>1. e \in Nat BY <1>1 DEF Epochs
  <2>2. CASE e = EpochRange - 1
    <3>1. Succ(e) = 0 BY <2>2, SuccIs
    <3>2. (EpochRange - 1) % 2 = 1 BY <1>1
    <3> QED BY <2>2, <3>1, <3>2 DEF Parity
  <2>3. CASE e # EpochRange - 1
    <3>1. Succ(e) = e + 1 BY <2>3, SuccIs
    <3>2. (e + 1) % 2 = 1 - (e % 2) BY <2>1
    <3> QED BY <3>1, <3>2 DEF Parity
  <2> QED BY <2>2, <2>3
<1> QED BY <1>2, <1>4, <1>5, <1>6

-----------------------------------------------------------------------------
(* What the steps of a device look like. *)

\* The fields of a run, and its lanes.
LEMMA RunTypes ==
    ASSUME DeviceTypes, NEW r \in Ranks
    PROVE  /\ run[r].iteration \in Nat /\ run[r].calls \in Seq(Calls) /\ run[r].limit \in Nat
           /\ run[r].at \in Nat /\ run[r].trapped \in BOOLEAN
           /\ DOMAIN run[r].lanes \subseteq Blocks
           /\ \A b \in DOMAIN run[r].lanes :
                run[r].lanes[b] \in Lanes /\ Pc(r, b) \in Pcs /\ Met(r, b) \subseteq Ranks
<1>1. run[r] \in Runs BY DEF DeviceTypes
<1>2. run[r].lanes \in LaneMaps BY <1>1 DEF Runs
<1>3. PICK n \in 0 .. MaxBlocks : run[r].lanes \in [1 .. n -> Lanes] BY <1>2 DEF LaneMaps
<1>4. DOMAIN run[r].lanes \subseteq Blocks BY <1>3, SizeAssumption DEF Blocks
<1>5. \A b \in DOMAIN run[r].lanes :
        run[r].lanes[b] \in Lanes /\ Pc(r, b) \in Pcs /\ Met(r, b) \subseteq Ranks
  BY <1>3 DEF Lanes, Pc, Met
<1> QED BY <1>1, <1>4, <1>5 DEF Runs

\* The current call of a run that is at one.
LEMMA CallTypes ==
    ASSUME DeviceTypes, RunsShaped, NEW r \in Ranks, run[r].at > 0
    PROVE  /\ Call(r).low \in BOOLEAN /\ Call(r).blocks \in Blocks
           /\ DOMAIN run[r].lanes = 1 .. Call(r).blocks /\ 1 \in DOMAIN run[r].lanes
<1>1. run[r].calls \in Seq(Calls) /\ run[r].at \in Nat /\ run[r].limit \in Nat BY RunTypes
<1>2. RunShaped(r) BY DEF RunsShaped
<1>3. run[r].at \in 1 .. Len(run[r].calls) BY <1>1, <1>2 DEF RunShaped
<1>4. Call(r) \in Calls BY <1>1, <1>3 DEF Call
<1>5. Call(r).low \in BOOLEAN /\ Call(r).blocks \in Blocks BY <1>4 DEF Calls
<1>6. DOMAIN run[r].lanes = 1 .. Call(r).blocks BY <1>2 DEF RunShaped
<1> QED BY <1>5, <1>6, SizeAssumption DEF Blocks

\* A run with a lane is at a call.
LEMMA LaneCall ==
    ASSUME DeviceTypes, RunsShaped, NEW r \in Ranks, NEW b \in DOMAIN run[r].lanes
    PROVE  run[r].at > 0 /\ b \in Blocks /\ Call(r).low \in BOOLEAN
<1>1. RunShaped(r) /\ run[r].at \in Nat /\ b \in Blocks BY RunTypes DEF RunsShaped
<1>2. run[r].at # 0
  <2>1. SUFFICES ASSUME run[r].at = 0 PROVE FALSE OBVIOUS
  <2>2. run[r].lanes = <<>> BY <1>1, <2>1 DEF RunShaped
  <2> QED BY <2>2
<1> QED BY <1>1, <1>2, CallTypes

\* What a step that moves rank r's block b to another pc leaves alone.
LaneStep(r, b, pc, met) ==
    /\ run' \in [Ranks -> Runs]
    /\ \A q \in Ranks :
        /\ run'[q].iteration = run[q].iteration /\ run'[q].calls = run[q].calls
        /\ run'[q].limit = run[q].limit /\ run'[q].at = run[q].at
        /\ run'[q].trapped = run[q].trapped
        /\ DOMAIN run'[q].lanes = DOMAIN run[q].lanes
        /\ q # r => run'[q] = run[q]
        /\ \A c \in DOMAIN run[q].lanes :
            /\ Pc(q, c)' = IF q = r /\ c = b THEN pc ELSE Pc(q, c)
            /\ Met(q, c)' = IF q = r /\ c = b THEN met ELSE Met(q, c)

\* SetLane changes one block of one rank.
LEMMA LaneMoves ==
    ASSUME DeviceTypes, NEW r \in Ranks, NEW b \in DOMAIN run[r].lanes,
           NEW pc \in Pcs, NEW met \in SUBSET Ranks, SetLane(r, b, pc, met)
    PROVE  LaneStep(r, b, pc, met)
<1>1. run \in [Ranks -> Runs] BY DEF DeviceTypes
<1>2. run[r] \in Runs BY <1>1
<1>3. run[r].lanes \in LaneMaps BY <1>2 DEF Runs
<1>4. PICK n \in 0 .. MaxBlocks : run[r].lanes \in [1 .. n -> Lanes] BY <1>3 DEF LaneMaps
<1>5. [pc |-> pc, met |-> met] \in Lanes BY DEF Lanes
<1> DEFINE lanes == [run[r].lanes EXCEPT ![b] = [pc |-> pc, met |-> met]]
<1>6. /\ lanes \in [1 .. n -> Lanes] /\ DOMAIN lanes = DOMAIN run[r].lanes
      /\ lanes[b] = [pc |-> pc, met |-> met]
      /\ \A c \in DOMAIN run[r].lanes : c # b => lanes[c] = run[r].lanes[c]
  BY <1>4, <1>5
<1>7. lanes \in LaneMaps BY <1>6 DEF LaneMaps
<1>8. run' = [run EXCEPT ![r].lanes = lanes] BY DEF SetLane
<1> HIDE DEF lanes
<1>9. run'[r] = [run[r] EXCEPT !.lanes = lanes] BY <1>1, <1>8
<1>10. /\ run'[r].iteration = run[r].iteration /\ run'[r].calls = run[r].calls
       /\ run'[r].limit = run[r].limit /\ run'[r].at = run[r].at
       /\ run'[r].trapped = run[r].trapped /\ run'[r].lanes = lanes /\ run'[r] \in Runs
  BY <1>2, <1>7, <1>9 DEF Runs
<1>11. \A q \in Ranks : q # r => run'[q] = run[q] BY <1>1, <1>8
<1>12. run' \in [Ranks -> Runs] BY <1>1, <1>8, <1>10, <1>11
<1>13. \A c \in DOMAIN run[r].lanes :
            /\ Pc(r, c)' = IF c = b THEN pc ELSE Pc(r, c)
            /\ Met(r, c)' = IF c = b THEN met ELSE Met(r, c)
  BY <1>6, <1>10 DEF Pc, Met
<1>14. \A q \in Ranks : q # r => \A c \in DOMAIN run[q].lanes :
            Pc(q, c)' = Pc(q, c) /\ Met(q, c)' = Met(q, c)
  BY <1>11 DEF Pc, Met
<1> QED BY <1>6, <1>10, <1>11, <1>12, <1>13, <1>14 DEF LaneStep

\* Where the ranks are, which only host steps and the next call change.
LEMMA LaneStepKeeps ==
    ASSUME DeviceTypes, NEW r \in Ranks, NEW b, NEW pc, NEW met, LaneStep(r, b, pc, met),
           UNCHANGED host, NEW q \in Ranks
    PROVE  /\ Current(q)' <=> Current(q)
           /\ Sound(q)' <=> Sound(q)
           /\ Pos(q)' = Pos(q) /\ Call(q)' = Call(q) /\ Datum(q)' = Datum(q)
           /\ \A low, c : InCall(q, low, c)' <=> InCall(q, low, c)
<1>1. leader' = leader /\ poisoned' = poisoned BY DEF host
<1>2. /\ run'[q].iteration = run[q].iteration /\ run'[q].calls = run[q].calls
      /\ run'[q].at = run[q].at /\ DOMAIN run'[q].lanes = DOMAIN run[q].lanes
  BY DEF LaneStep
<1>3. Current(q)' <=> Current(q) BY <1>1, <1>2 DEF Current
<1>4. Sound(q)' <=> Sound(q) BY <1>1, <1>3 DEF Sound
<1>5. Pos(q)' = Pos(q) BY <1>2, <1>3 DEF Pos
<1>6. Call(q)' = Call(q) /\ Datum(q)' = Datum(q) BY <1>2 DEF Call, Datum
<1>7. \A low, c : InCall(q, low, c)' <=> InCall(q, low, c) BY <1>2, <1>6 DEF InCall
<1> QED BY <1>3, <1>4, <1>5, <1>6, <1>7

-----------------------------------------------------------------------------
(* Arrivals. *)

\* What is posted and counted are epochs.
LEMMA EpochTypes ==
    ASSUME DeviceTypes, NEW r \in Ranks, NEW low \in BOOLEAN, NEW b \in Blocks
    PROVE  /\ epochs[r][low][b] \in Epochs /\ Succ(epochs[r][low][b]) \in Epochs
           /\ Sent(r, low, b) \in Epochs /\ After(r, low, b) \in Epochs /\ Ended(r, b) \in Epochs
<1>1. \A k \in BOOLEAN : epochs[r][k][b] \in Epochs BY DEF DeviceTypes
<1>2. \A k \in BOOLEAN : Succ(epochs[r][k][b]) \in Epochs BY <1>1, SuccFacts
<1> QED BY <1>1, <1>2 DEF Sent, After, Ended

\* Ranks at the same call of the same iteration run the same kernel.
LEMMA SameCall ==
    ASSUME DeviceTypes, RunsShaped, CurrentCalls, NEW r \in Ranks, NEW s \in Ranks,
           Current(r), Sound(s), Pos(s) = Pos(r), Pos(r) > 0
    PROVE  /\ Current(s) /\ Call(s) = Call(r) /\ Datum(s) = Datum(r)
           /\ DOMAIN run[s].lanes = DOMAIN run[r].lanes
<1>1. Current(s) /\ run[s].at = run[r].at /\ run[r].at > 0 BY DEF Pos
<1>2. run[s].iteration = run[r].iteration /\ run[s].calls = run[r].calls
  BY <1>1 DEF Current, CurrentCalls
<1>3. Call(s) = Call(r) /\ Datum(s) = Datum(r) BY <1>1, <1>2 DEF Call, Datum
<1> QED BY <1>1, <1>3, CallTypes

\* How far a rank is, is a number of calls.
LEMMA PosType ==
    ASSUME DeviceTypes, NEW r \in Ranks
    PROVE  Pos(r) \in Nat
  BY RunTypes DEF Pos

\* A rank that has not begun the iteration and may has finished the one before.
LEMMA RestedLanes ==
    ASSUME Resting, NEW s \in Ranks, Sound(s), ~Current(s)
    PROVE  /\ ~Executing(s) /\ Succeeded(s) /\ run[s].at = run[s].limit
           /\ \A c \in DOMAIN run[s].lanes : Pc(s, c) = "done"
<1>1. s \notin poisoned BY DEF Sound
<1>2. ~Executing(s) /\ RunDone(s) /\ Succeeded(s) BY <1>1 DEF Resting
<1> QED BY <1>2 DEF RunDone, Succeeded, CallDone, Pc

\* A block that has posted has posted the epoch after this call.
LEMMA PostedIsAfter ==
    ASSUME DeviceTypes, RunsShaped, Resting, NEW s \in Ranks, Sound(s),
           NEW low \in BOOLEAN, NEW b \in Blocks,
           Current(s) /\ InCall(s, low, b) => Pc(s, b) # "post"
    PROVE  Sent(s, low, b) = After(s, low, b)
<1>1. CASE Current(s)
  <2>1. InCall(s, low, b) => Pc(s, b) \in Pcs BY RunTypes DEF InCall
  <2> QED BY <1>1, <2>1 DEF Sent, After, Pcs
<1>2. CASE ~Current(s) BY <1>2, RestedLanes DEF Sent, After, InCall
<1> QED BY <1>1, <1>2

\* The same at the end barrier.
LEMMA EndedIsAfter ==
    ASSUME DeviceTypes, RunsShaped, Resting, NEW s \in Ranks, Sound(s), NEW b \in Blocks,
           Current(s) /\ InCall(s, FALSE, b) => Pc(s, b) \in {"leave", "done"}
    PROVE  Ended(s, b) = After(s, FALSE, b)
<1>1. CASE Current(s) BY <1>1 DEF Ended, After
<1>2. CASE ~Current(s) BY <1>2, RestedLanes DEF Ended, After, InCall
<1> QED BY <1>1, <1>2

\* A packet that has not been posted is not found.
LEMMA NoPacketYet ==
    ASSUME DeviceTypes, PacketsWritten, NEW r \in Ranks, NEW s \in Ranks, r # s, NEW b \in Blocks
    PROVE  packets[r][Parity(Succ(Sent(s, TRUE, b)))][s][b].epoch # Succ(Sent(s, TRUE, b))
<1> DEFINE e == Sent(s, TRUE, b)
<1>1. e \in Epochs BY EpochTypes
<1>2. /\ Succ(e) \in Epochs /\ Succ(Succ(e)) # e /\ Parity(e) \in 0 .. 1
      /\ Parity(Succ(e)) = 1 - Parity(e)
  BY <1>1, SuccFacts
<1> DEFINE other == packets[r][1 - Parity(e)][s][b].epoch
<1>3. Succ(other) = e \/ (other = 0 /\ Parity(e) = 0) BY DEF PacketsWritten
<1>4. Parity(0) = 0 BY DEF Parity
<1> HIDE DEF e
<1>5. other # Succ(e) BY <1>2, <1>3, <1>4
<1> QED BY <1>2, <1>5 DEF e

\* What a block has seen says that the peer has been there.
ReallyThere(r, b, s) ==
    Passed(s, r, b, IF Pc(r, b) = "leave" THEN {"leave", "done"} ELSE {"meet", "leave", "done"})

\* The device's invariant without the part about arrivals that are not seen.
Coherent ==
    /\ DeviceTypes /\ RunsShaped /\ FlagsWritten /\ PacketsWritten /\ StagingWritten
    /\ CurrentCalls /\ Lockstep /\ AllTogether /\ Resting

\* A peer one call behind has posted nothing of this call.
LEMMA BehindHasNotArrived ==
    ASSUME Coherent, NEW r \in Ranks, NEW s \in Ranks, r # s, Current(r), Sound(s),
           NEW b \in DOMAIN run[r].lanes, Spins(r, b, s), Pos(r) = Pos(s) + 1
    PROVE  ~Arrived(r, b, s)
<1> USE DEF Coherent
<1>1. b \in Blocks /\ Call(r).low \in BOOLEAN BY LaneCall
<1>2. Sound(r) BY DEF Sound
<1>3. Together(s, r) BY <1>2 DEF AllTogether
<1>4. /\ \A low \in BOOLEAN, c \in Blocks : epochs[r][low][c] = After(s, low, c)
      /\ Current(s) => \A c \in DOMAIN run[s].lanes :
            Pc(s, c) \in (IF Call(s).low THEN {"meet", "done"} ELSE {"leave", "done"})
  BY <1>3 DEF Together
<1>5. \A low \in BOOLEAN : Sent(s, low, b) = After(s, low, b)
  BY <1>1, <1>4, PostedIsAfter DEF InCall
<1>6. Ended(s, b) = After(s, FALSE, b) BY <1>1, <1>4, EndedIsAfter DEF InCall
<1>7. \A low \in BOOLEAN : Succ(epochs[r][low][b]) # epochs[r][low][b]
  BY <1>1, EpochTypes, SuccFacts
<1>8. Epoch(r, b) = Succ(epochs[r][Call(r).low][b]) BY DEF Epoch, Succ
<1>9. CASE Call(r).low
  <2>1. Epoch(r, b) = Succ(Sent(s, TRUE, b)) BY <1>1, <1>4, <1>5, <1>8, <1>9
  <2>2. Packet(r, b, s).epoch # Epoch(r, b) BY <1>1, <2>1, NoPacketYet DEF Packet
  <2>3. Pc(r, b) = "meet" BY <1>9 DEF Spins, Pc, RunsShaped, RunShaped
  <2> QED BY <1>9, <2>2, <2>3 DEF Arrived, Pc
<1>10. CASE ~Call(r).low
  <2>1. Epoch(r, b) # Sent(s, FALSE, b) /\ Epoch(r, b) # Ended(s, b)
    BY <1>1, <1>4, <1>5, <1>6, <1>7, <1>8, <1>10
  <2>2. start[r][b][s] = Sent(s, FALSE, b) /\ end[r][b][s] = Ended(s, b)
    BY <1>1 DEF FlagsWritten
  <2> QED BY <1>10, <2>1, <2>2 DEF Arrived, Spins
<1> QED BY <1>9, <1>10

\* Nor has one at this call that has not come to the barrier.
LEMMA LevelHasNotArrived ==
    ASSUME Coherent, NEW r \in Ranks, NEW s \in Ranks, r # s, Current(r), Sound(s),
           NEW b \in DOMAIN run[r].lanes, Spins(r, b, s), Pos(r) = Pos(s),
           ~ReallyThere(r, b, s)
    PROVE  ~Arrived(r, b, s)
<1> USE DEF Coherent
<1>1. b \in Blocks /\ Call(r).low \in BOOLEAN /\ run[r].at > 0 BY LaneCall
<1>2. Sound(r) BY DEF Sound
<1>3. Pos(r) > 0 BY <1>1 DEF Pos
<1>4. Current(s) /\ Call(s) = Call(r) /\ DOMAIN run[s].lanes = DOMAIN run[r].lanes
  BY <1>3, SameCall
<1>5. Pc(s, b) \notin IF Pc(r, b) = "leave" THEN {"leave", "done"} ELSE {"meet", "leave", "done"}
  BY DEF ReallyThere, Passed
<1>6. Pc(s, b) \in Pcs /\ Pc(s, b) # "done" BY <1>4, <1>5, RunTypes
<1>7. After(s, Call(r).low, b) = After(r, Call(r).low, b) BY <1>1, <1>2 DEF AllTogether, Together
<1>8. After(s, Call(r).low, b) = Succ(epochs[s][Call(r).low][b])
  BY <1>4, <1>6 DEF After, InCall
<1>9. Epoch(r, b) = Succ(epochs[r][Call(r).low][b]) BY DEF Epoch, Succ
<1>10. Pc(r, b) \in {"meet", "leave"} BY DEF Spins, Pc
<1>11. After(r, Call(r).low, b) = Epoch(r, b) BY <1>9, <1>10 DEF After, InCall
<1>12. Epoch(r, b) = Succ(epochs[s][Call(r).low][b]) BY <1>7, <1>8, <1>11
<1>13. Succ(epochs[s][Call(r).low][b]) # epochs[s][Call(r).low][b] BY <1>1, EpochTypes, SuccFacts
<1>14. CASE Call(r).low
  <2>1. Pc(r, b) = "meet" BY <1>10, <1>14 DEF Pc, RunsShaped, RunShaped
  <2>2. Pc(s, b) = "post" BY <1>5, <1>6, <2>1 DEF Pcs
  <2>3. Sent(s, TRUE, b) = epochs[s][TRUE][b] BY <2>2 DEF Sent
  <2>4. Packet(r, b, s).epoch # Epoch(r, b)
    BY <1>1, <1>12, <1>14, <2>3, NoPacketYet DEF Packet
  <2> QED BY <1>14, <2>1, <2>4 DEF Arrived, Pc
<1>15. CASE ~Call(r).low
  <2>0. Call(r).low = FALSE BY <1>1, <1>15
  <2>1. start[r][b][s] = Sent(s, FALSE, b) /\ end[r][b][s] = Ended(s, b)
    BY <1>1 DEF FlagsWritten
  <2>2. CASE Pc(r, b) = "meet"
    <3>1. Pc(s, b) = "post" BY <1>5, <1>6, <2>2 DEF Pcs
    <3>2. Sent(s, FALSE, b) = epochs[s][FALSE][b] BY <3>1 DEF Sent
    <3>3. start[r][b][s] # Epoch(r, b) BY <1>12, <1>13, <2>0, <2>1, <3>2
    <3> QED BY <2>0, <2>2, <3>3 DEF Arrived, Pc
  <2>3. CASE Pc(r, b) = "leave"
    <3>1. Pc(s, b) # "leave" BY <1>5, <2>3
    <3>2. Ended(s, b) = epochs[s][FALSE][b] BY <3>1 DEF Ended
    <3>3. end[r][b][s] # Epoch(r, b) BY <1>12, <1>13, <2>0, <2>1, <3>2
    <3> QED BY <2>3, <3>3 DEF Arrived, Pc
  <2> QED BY <1>10, <2>2, <2>3
<1> QED BY <1>14, <1>15

\* So a block only sees a peer that was there.
LEMMA ArrivedIsThere ==
    ASSUME Coherent, NEW r \in Ranks, NEW s \in Ranks, r # s, Current(r), Sound(s),
           NEW b \in DOMAIN run[r].lanes, Spins(r, b, s), Arrived(r, b, s)
    PROVE  ReallyThere(r, b, s)
<1>1. Sound(r) BY DEF Sound
<1>2. Together(r, s) /\ Together(s, r) BY <1>1 DEF Coherent, AllTogether
<1>3. Pos(r) \in Nat /\ Pos(s) \in Nat /\ Pos(r) <= Pos(s) + 1
  BY <1>2, PosType DEF Coherent, Together
<1>4. Pos(r) # Pos(s) + 1 BY BehindHasNotArrived
<1>5. CASE Pos(r) = Pos(s) BY <1>5, LevelHasNotArrived
<1>6. CASE Pos(s) > Pos(r) BY <1>6 DEF ReallyThere, Passed
<1> QED BY <1>3, <1>4, <1>5, <1>6

\* An arrival that a running iteration waits for is seen.
LEMMA AheadArrivalSeen ==
    ASSUME Coherent, NEW r \in Ranks, NEW s \in Ranks, r # s, Current(r), Current(s),
           NEW b \in DOMAIN run[r].lanes, Spins(r, b, s), run[s].at > run[r].at
    PROVE  Arrived(r, b, s)
<1> USE DEF Coherent
<1>1. b \in Blocks /\ Call(r).low \in BOOLEAN BY LaneCall
<1>2. Sound(r) /\ Sound(s) BY DEF Sound
<1>3. Together(r, s) BY <1>2 DEF AllTogether
<1>4. Pos(s) = Pos(r) + 1
  <2>1. Pos(s) = run[s].at /\ Pos(r) = run[r].at BY DEF Pos
  <2> QED BY <1>3, <2>1, PosType DEF Together
<1>5. /\ \A low \in BOOLEAN, c \in Blocks : epochs[s][low][c] = After(r, low, c)
      /\ Pc(r, b) \in (IF Call(r).low THEN {"meet", "done"} ELSE {"leave", "done"})
      /\ Call(r).low /\ Pc(r, b) = "meet" =>
           packets[r][Parity(After(r, TRUE, b))][s][b]
             = [epoch |-> After(r, TRUE, b), datum |-> Datum(r)]
  BY <1>3, <1>4 DEF Together
<1>6. Pc(r, b) \in {"meet", "leave"} BY DEF Spins, Pc
<1>7. After(r, Call(r).low, b) = Epoch(r, b) BY <1>6 DEF After, InCall, Epoch, Succ
<1>8. CASE Call(r).low
  <2>0. Call(r).low = TRUE /\ Pc(r, b) = "meet" BY <1>1, <1>5, <1>6, <1>8
  <2>1. After(r, TRUE, b) = Epoch(r, b) BY <1>7, <2>0
  <2>2. packets[r][Parity(After(r, TRUE, b))][s][b].epoch = After(r, TRUE, b)
    <3>1. packets[r][Parity(After(r, TRUE, b))][s][b]
            = [epoch |-> After(r, TRUE, b), datum |-> Datum(r)]
      BY <1>5, <1>8, <2>0
    <3> QED BY <3>1
  <2>3. Packet(r, b, s).epoch = Epoch(r, b) BY <2>1, <2>2 DEF Packet
  <2> QED BY <2>0, <2>3 DEF Arrived, Pc
<1>9. CASE ~Call(r).low
  <2>1. Pc(r, b) = "leave" BY <1>5, <1>6, <1>9
  <2>2. Call(r).low = FALSE BY <1>1, <1>9
  <2>3. ~(InCall(s, FALSE, b) /\ Pc(s, b) = "leave")
    <3>1. SUFFICES ASSUME b \in DOMAIN run[s].lanes, Pc(s, b) = "leave" PROVE FALSE
      BY DEF InCall
    <3>2. Passed(r, s, b, {"meet", "leave", "done"}) BY <1>2, <3>1 DEF Lockstep, Says
    <3> QED BY <1>4, <3>2, PosType DEF Passed
  <2>4. Ended(s, b) = epochs[s][FALSE][b] BY <2>3 DEF Ended
  <2>5. end[r][b][s] = Ended(s, b) BY <1>1 DEF FlagsWritten
  <2>6. end[r][b][s] = Epoch(r, b) BY <1>1, <1>5, <1>7, <2>2, <2>4, <2>5
  <2> QED BY <2>1, <2>6 DEF Arrived, Pc
<1> QED BY <1>8, <1>9

\* A peer at the same call whose arrival is posted is seen: its flag or packet
\* holds the epoch the block spins on.
LEMMA LevelArrivalSeen ==
    ASSUME Coherent, NEW r \in Ranks, NEW s \in Ranks, r # s, Current(r), Current(s),
           NEW b \in DOMAIN run[r].lanes, Spins(r, b, s), run[s].at = run[r].at,
           Pc(s, b) \in (IF Pc(r, b) = "leave" THEN {"leave", "done"}
                         ELSE {"meet", "leave", "done"})
    PROVE  Arrived(r, b, s)
<1> USE DEF Coherent
<1>1. b \in Blocks /\ Call(r).low \in BOOLEAN /\ run[r].at > 0 BY LaneCall
<1>2. Sound(r) /\ Sound(s) BY DEF Sound
<1>3. Pos(s) = Pos(r) /\ Pos(r) > 0 BY <1>1 DEF Pos
<1>4. Call(s) = Call(r) /\ DOMAIN run[s].lanes = DOMAIN run[r].lanes /\ Datum(s) = Datum(r)
  BY <1>2, <1>3, SameCall
<1>5. \A low \in BOOLEAN : After(s, low, b) = After(r, low, b)
  BY <1>1, <1>2, <1>3 DEF AllTogether, Together
<1>6. Pc(r, b) \in {"meet", "leave"} BY DEF Spins, Pc
<1>7. After(r, Call(r).low, b) = Epoch(r, b) BY <1>6 DEF After, InCall, Epoch, Succ
<1>8. Pc(s, b) # "post" OBVIOUS
<1>9. \A low \in BOOLEAN : Sent(s, low, b) = After(s, low, b)
  BY <1>1, <1>2, <1>8, PostedIsAfter
<1>10. CASE Call(r).low
  <2>1. packets[r][Parity(Sent(s, TRUE, b))][s][b].epoch = Sent(s, TRUE, b)
    BY <1>1 DEF PacketsWritten
  <2>2. Sent(s, TRUE, b) = Epoch(r, b) BY <1>5, <1>7, <1>9, <1>10
  <2>3. Packet(r, b, s).epoch = Epoch(r, b) BY <2>1, <2>2 DEF Packet
  <2>4. Pc(r, b) = "meet" BY <1>6, <1>10 DEF Pc, RunsShaped, RunShaped
  <2> QED BY <1>10, <2>3, <2>4 DEF Arrived, Pc
<1>11. CASE ~Call(r).low
  <2>1. Call(r).low = FALSE BY <1>1, <1>11
  <2>2. start[r][b][s] = Sent(s, FALSE, b) /\ end[r][b][s] = Ended(s, b)
    BY <1>1 DEF FlagsWritten
  <2>3. CASE Pc(r, b) = "meet"
    <3>1. start[r][b][s] = Epoch(r, b) BY <1>5, <1>7, <1>9, <2>1, <2>2
    <3> QED BY <2>1, <2>3, <3>1 DEF Arrived, Pc
  <2>4. CASE Pc(r, b) = "leave"
    <3>1. Ended(s, b) = After(s, FALSE, b) BY <1>1, <1>2, <2>4, EndedIsAfter
    <3>2. end[r][b][s] = Epoch(r, b) BY <1>5, <1>7, <2>1, <2>2, <3>1
    <3> QED BY <2>4, <3>2 DEF Arrived, Pc
  <2> QED BY <1>6, <2>3, <2>4
<1> QED BY <1>10, <1>11

\* The invariant shows every arrival, of this iteration and of those before.
LEMMA SeenArrivals ==
    ASSUME Coherent, OldArrivalsSeen
    PROVE  ArrivalsAreSeen
<1>1. SUFFICES ASSUME NEW r \in Ranks, NEW b \in DOMAIN run[r].lanes, NEW s \in Ranks,
                      Spins(r, b, s), HasArrived(s, r, b)
               PROVE  Arrived(r, b, s)
  BY DEF ArrivalsAreSeen
<1>2. CASE ~Current(r) BY <1>1, <1>2 DEF OldArrivalsSeen, Current
<1>3. CASE Current(r)
  <2>1. Current(s) BY <1>1, <1>3 DEF HasArrived, Current
  <2>2. r # s BY <1>1 DEF Spins, Coherent, RunsShaped, RunShaped
  <2>3. CASE run[s].at > run[r].at BY <1>1, <1>3, <2>1, <2>2, <2>3, AheadArrivalSeen
  <2>4. CASE ~(run[s].at > run[r].at)
    <3>1. run[s].at = run[r].at /\ Pc(s, b) \in
            (IF Pc(r, b) = "leave" THEN {"leave", "done"} ELSE {"meet", "leave", "done"})
      BY <1>1, <2>4 DEF HasArrived, Pc
    <3> QED BY <1>1, <1>3, <2>1, <2>2, <3>1, LevelArrivalSeen
  <2> QED BY <2>3, <2>4
<1> QED BY <1>2, <1>3

-----------------------------------------------------------------------------
(* What the steps of a block have in common. *)

\* A device writes only where it is the writer.
WritesOnlyAs(r) ==
    /\ \A q \in Ranks : q # r => run'[q] = run[q] /\ epochs'[q] = epochs[q]
    /\ run'[r].iteration = run[r].iteration
    /\ \A q, s \in Ranks, b \in Blocks : s # r =>
        /\ start'[q][b][s] = start[q][b][s] /\ end'[q][b][s] = end[q][b][s]
        /\ \A p \in 0 .. 1 : packets'[q][p][s][b] = packets[q][p][s][b]

\* A rank at work writes nothing that a rank of an older iteration spins on
\* an old peer for.
LEMMA OldArrivalsKept ==
    ASSUME DeviceTypes, RunsShaped, OldArrivalsSeen, NEW r \in Ranks, Current(r),
           WritesOnlyAs(r), leader' = leader
    PROVE  OldArrivalsSeen'
<1>1. SUFFICES ASSUME NEW q \in Ranks, NEW s \in Ranks, run'[q].iteration # leader'.iteration,
                      NEW b \in DOMAIN run'[q].lanes, Spins(q, b, s)', HasArrived(s, q, b)'
               PROVE  Arrived(q, b, s)'
  BY DEF OldArrivalsSeen
<1>2. q # r BY <1>1 DEF WritesOnlyAs, Current
<1>3. run'[q] = run[q] /\ epochs'[q] = epochs[q] BY <1>2 DEF WritesOnlyAs
<1>4. s # r BY <1>1, <1>2, <1>3 DEF HasArrived, WritesOnlyAs, Current
<1>5. run'[s] = run[s] BY <1>4 DEF WritesOnlyAs
<1>6. b \in DOMAIN run[q].lanes /\ Spins(q, b, s) /\ HasArrived(s, q, b)
  BY <1>1, <1>3, <1>5 DEF Spins, HasArrived
<1>7. Arrived(q, b, s) BY <1>1, <1>3, <1>6 DEF OldArrivalsSeen
<1>8. b \in Blocks /\ Call(q).low \in BOOLEAN BY <1>6, LaneCall
<1>9. Call(q)' = Call(q) /\ Epoch(q, b)' = Epoch(q, b) BY <1>3 DEF Call, Epoch
<1>10. Parity(Epoch(q, b)) \in 0 .. 1
  <2>1. Epoch(q, b) = Succ(epochs[q][Call(q).low][b]) BY DEF Epoch, Succ
  <2>2. Epoch(q, b) \in Epochs BY <1>8, <2>1, EpochTypes
  <2> QED BY <2>2, SuccFacts
<1>11. Packet(q, b, s)' = Packet(q, b, s)
  <2>1. Parity(Epoch(q, b))' = Parity(Epoch(q, b)) BY <1>9 DEF Parity
  <2> QED BY <1>4, <1>8, <1>10, <2>1 DEF Packet, WritesOnlyAs
<1>12. start'[q][b][s] = start[q][b][s] /\ end'[q][b][s] = end[q][b][s]
  BY <1>4, <1>8 DEF WritesOnlyAs
<1>13. run'[q].lanes[b].pc \in {"meet", "leave"} BY <1>1 DEF Spins
<1>14. CASE run'[q].lanes[b].pc = "meet" /\ Call(q).low
  BY <1>3, <1>7, <1>9, <1>11, <1>14 DEF Arrived
<1>15. CASE run'[q].lanes[b].pc = "meet" /\ ~Call(q).low
  BY <1>3, <1>7, <1>9, <1>12, <1>15 DEF Arrived
<1>16. CASE run'[q].lanes[b].pc = "leave"
  BY <1>3, <1>7, <1>9, <1>12, <1>16 DEF Arrived
<1> QED BY <1>13, <1>14, <1>15, <1>16

\* The calls of the runs do not change with a block.
LEMMA CurrentCallsKept ==
    ASSUME CurrentCalls, leader' = leader,
           \A q \in Ranks : run'[q].iteration = run[q].iteration /\ run'[q].calls = run[q].calls
    PROVE  CurrentCalls'
  BY DEF CurrentCalls, Current

\* A block moves only to where it may be.
LEMMA ShapeKept ==
    ASSUME DeviceTypes, RunsShaped, NEW r \in Ranks, NEW b \in DOMAIN run[r].lanes, NEW pc, NEW met,
           LaneStep(r, b, pc, met), UNCHANGED host,
           pc = "leave" => ~Call(r).low,
           pc \in {"meet", "leave"} => r \in met,
           pc \in {"post", "done"} => met = {}
    PROVE  RunsShaped'
<1>1. SUFFICES ASSUME NEW q \in Ranks PROVE RunShaped(q)' BY DEF RunsShaped
<1>2. RunShaped(q) BY DEF RunsShaped
<1>3. Call(q)' = Call(q) BY LaneStepKeeps
<1>4. /\ run'[q].limit = run[q].limit /\ run'[q].calls = run[q].calls /\ run'[q].at = run[q].at
      /\ DOMAIN run'[q].lanes = DOMAIN run[q].lanes /\ (q # r => run'[q] = run[q])
      /\ \A c \in DOMAIN run[q].lanes :
            /\ Pc(q, c)' = IF q = r /\ c = b THEN pc ELSE Pc(q, c)
            /\ Met(q, c)' = IF q = r /\ c = b THEN met ELSE Met(q, c)
  BY DEF LaneStep
<1>5. run'[q].at = 0 => run'[q].lanes = <<>>
  <2>1. r = q => run[q].at > 0 BY LaneCall
  <2> QED BY <1>2, <1>4, <2>1, RunTypes DEF RunShaped
<1>6. \A c \in DOMAIN run'[q].lanes :
        /\ Pc(q, c)' = "leave" => ~Call(q)'.low
        /\ Pc(q, c)' \in {"meet", "leave"} => q \in Met(q, c)'
        /\ Pc(q, c)' \in {"post", "done"} => Met(q, c)' = {}
  BY <1>2, <1>3, <1>4 DEF RunShaped, Pc, Met
<1> QED BY <1>2, <1>3, <1>4, <1>5, <1>6 DEF RunShaped, Pc, Met

\* What was passed stays passed, when the block that moves stays in the set.
LEMMA PassedKept ==
    ASSUME DeviceTypes, RunsShaped, CurrentCalls,
           NEW r \in Ranks, NEW b \in DOMAIN run[r].lanes, NEW pc, NEW met,
           LaneStep(r, b, pc, met), UNCHANGED host,
           NEW q \in Ranks, NEW s \in Ranks, Current(q), Sound(s),
           NEW c \in DOMAIN run[q].lanes, NEW pcs, Passed(s, q, c, pcs),
           s = r /\ c = b /\ Pos(r) = Pos(q) /\ Pc(r, b) \in pcs => pc \in pcs
    PROVE  Passed(s, q, c, pcs)'
<1>1. Pos(s)' = Pos(s) /\ Pos(q)' = Pos(q) BY LaneStepKeeps
<1>2. CASE Pos(s) > Pos(q) BY <1>1, <1>2 DEF Passed
<1>3. CASE Pos(s) = Pos(q) /\ Pc(s, c) \in pcs
  <2>1. Pos(q) > 0 BY LaneCall DEF Pos
  <2>2. DOMAIN run[s].lanes = DOMAIN run[q].lanes BY <1>3, <2>1, SameCall
  <2>3. Pc(s, c)' = IF s = r /\ c = b THEN pc ELSE Pc(s, c) BY <2>2 DEF LaneStep
  <2>4. Pc(s, c)' \in pcs BY <1>3, <2>3
  <2> QED BY <1>1, <1>3, <2>4 DEF Passed
<1> QED BY <1>2, <1>3 DEF Passed

\* A block goes forward.
Forward(r, b, pc) ==
    \/ pc = Pc(r, b)
    \/ pc = "meet" /\ Pc(r, b) = "post"
    \/ pc = "leave" /\ Pc(r, b) = "meet" /\ ~Call(r).low
    \/ pc = "done" /\ Pc(r, b) = "meet" /\ Call(r).low
    \/ pc = "done" /\ Pc(r, b) = "leave"

\* A rank that has passed stays past when its block goes forward.
LEMMA ForwardPasses ==
    ASSUME DeviceTypes, RunsShaped, CurrentCalls,
           NEW r \in Ranks, NEW b \in DOMAIN run[r].lanes, NEW pc, NEW met,
           LaneStep(r, b, pc, met), UNCHANGED host, Forward(r, b, pc),
           NEW q \in Ranks, NEW s \in Ranks, Current(q), Sound(s),
           NEW c \in DOMAIN run[q].lanes, NEW p, NEW m, Says(s, q, c, p, m)
    PROVE  Says(s, q, c, p, m)'
<1>0. Call(q)' = Call(q) BY LaneStepKeeps
<1>1. Pos(q) > 0 BY LaneCall DEF Pos
<1>2. s = r /\ Pos(r) = Pos(q) => Call(r) = Call(q) BY <1>1, SameCall
<1>3. ASSUME Passed(s, q, c, {"meet", "leave", "done"})
      PROVE  Passed(s, q, c, {"meet", "leave", "done"})'
  <2> DEFINE pcs == {"meet", "leave", "done"}
  <2>1. Pc(r, b) \in pcs => pc \in pcs BY DEF Forward
  <2>2. Passed(s, q, c, pcs) BY <1>3
  <2> HIDE DEF pcs
  <2>3. Passed(s, q, c, pcs)' BY <2>1, <2>2, PassedKept
  <2> QED BY <2>3 DEF pcs
<1>4. ASSUME Passed(s, q, c, {"leave", "done"})
      PROVE  Passed(s, q, c, {"leave", "done"})'
  <2> DEFINE pcs == {"leave", "done"}
  <2>1. Pc(r, b) \in pcs => pc \in pcs BY DEF Forward
  <2>2. Passed(s, q, c, pcs) BY <1>4
  <2> HIDE DEF pcs
  <2>3. Passed(s, q, c, pcs)' BY <2>1, <2>2, PassedKept
  <2> QED BY <2>3 DEF pcs
<1>5. ASSUME Call(q).low, Passed(s, q, c, {"meet", "done"})
      PROVE  Passed(s, q, c, {"meet", "done"})'
  <2> DEFINE pcs == {"meet", "done"}
  <2>1. s = r /\ Pos(r) = Pos(q) /\ Pc(r, b) \in pcs => pc \in pcs BY <1>2, <1>5 DEF Forward
  <2>2. Passed(s, q, c, pcs) BY <1>5
  <2> HIDE DEF pcs
  <2>3. Passed(s, q, c, pcs)' BY <2>1, <2>2, PassedKept
  <2> QED BY <2>3 DEF pcs
<1> QED BY <1>0, <1>3, <1>4, <1>5 DEF Says

\* So what blocks say about each other stays true, if the block that moves says
\* true things about the others.
LEMMA LockstepKept ==
    ASSUME DeviceTypes, RunsShaped, CurrentCalls, Lockstep,
           NEW r \in Ranks, NEW b \in DOMAIN run[r].lanes, NEW pc, NEW met,
           LaneStep(r, b, pc, met), UNCHANGED host, Forward(r, b, pc), Current(r),
           \A s \in Ranks : Sound(s) /\ s # r => Says(s, r, b, pc, met)
    PROVE  Lockstep'
<1>1. SUFFICES ASSUME NEW q \in Ranks, NEW s \in Ranks, Current(q)', Sound(s)',
                      NEW c \in DOMAIN run'[q].lanes
               PROVE  Says(s, q, c, Pc(q, c), Met(q, c))'
  BY DEF Lockstep
<1>2. Current(q) /\ Sound(s) BY <1>1, LaneStepKeeps
<1>3. /\ c \in DOMAIN run[q].lanes
      /\ Pc(q, c)' = IF q = r /\ c = b THEN pc ELSE Pc(q, c)
      /\ Met(q, c)' = IF q = r /\ c = b THEN met ELSE Met(q, c)
  BY <1>1 DEF LaneStep
<1>4. CASE ~(q = r /\ c = b)
  <2>1. PICK p, m : p = Pc(q, c) /\ m = Met(q, c) OBVIOUS
  <2>2. Says(s, q, c, p, m) BY <1>2, <1>3, <2>1 DEF Lockstep
  <2>3. Says(s, q, c, p, m)' BY <1>2, <1>3, <2>2, ForwardPasses
  <2>4. Pc(q, c)' = p /\ Met(q, c)' = m BY <1>3, <1>4, <2>1
  <2> QED BY <2>3, <2>4 DEF Says
<1>5. CASE q = r /\ c = b /\ s # r
  <2>1. Says(s, q, c, pc, met) BY <1>2, <1>5
  <2>2. Says(s, q, c, pc, met)' BY <1>2, <1>3, <2>1, ForwardPasses
  <2> QED BY <1>3, <1>5, <2>2 DEF Says
<1>6. CASE q = r /\ c = b /\ s = r
  BY <1>3, <1>6 DEF Says, Passed
<1> QED BY <1>4, <1>5, <1>6

\* What every block counts stays.
CountsKept == \A q \in Ranks, low \in BOOLEAN, c \in Blocks : After(q, low, c)' = After(q, low, c)

\* What a rank that is a call ahead counted and posted stays, and block b of
\* the rank behind only ends.
PassedBlocksKept(r, b, pc) ==
    \A q, s \in Ranks : Sound(q) /\ Sound(s) /\ Pos(s) = Pos(q) + 1 =>
        /\ \A low \in BOOLEAN, c \in Blocks : epochs'[s][low][c] = epochs[s][low][c]
        /\ q = r => pc = Pc(r, b) \/ pc = "done"
        /\ q # s => \A c \in DOMAIN run[q].lanes :
             packets'[q][Parity(After(q, TRUE, c))][s][c]
               = packets[q][Parity(After(q, TRUE, c))][s][c]

\* Ranks stay together when a block goes forward: what it counts stays, a block
\* that a peer has passed only ends, and one that leaves has passed no peer.
LEMMA TogetherKept ==
    ASSUME DeviceTypes, RunsShaped, AllTogether,
           NEW r \in Ranks, NEW b \in DOMAIN run[r].lanes, NEW pc, NEW met,
           LaneStep(r, b, pc, met), UNCHANGED host,
           CountsKept, PassedBlocksKept(r, b, pc)
    PROVE  AllTogether'
<1> USE DEF CountsKept, PassedBlocksKept
<1>1. SUFFICES ASSUME NEW q \in Ranks, NEW s \in Ranks, Sound(q)', Sound(s)'
               PROVE  Together(q, s)'
  BY DEF AllTogether
<1>2. /\ Sound(q) /\ Sound(s) /\ Pos(q)' = Pos(q) /\ Pos(s)' = Pos(s)
      /\ Call(q)' = Call(q) /\ Datum(q)' = Datum(q) /\ (Current(q)' <=> Current(q))
  BY <1>1, LaneStepKeeps
<1>3. Together(q, s) BY <1>2 DEF AllTogether
<1>4. (Pos(s) <= Pos(q) + 1)' BY <1>2, <1>3 DEF Together
<1>5. ASSUME (Pos(s) = Pos(q))'
      PROVE  \A low \in BOOLEAN, c \in Blocks : After(s, low, c)' = After(q, low, c)'
  BY <1>2, <1>3, <1>5 DEF Together
<1>6. ASSUME (Pos(s) = Pos(q) + 1)'
      PROVE  /\ \A low \in BOOLEAN, c \in Blocks : epochs'[s][low][c] = After(q, low, c)'
             /\ Current(q)' => \A c \in DOMAIN run'[q].lanes :
                  /\ Pc(q, c)' \in (IF Call(q)'.low THEN {"meet", "done"} ELSE {"leave", "done"})
                  /\ q # s /\ Call(q)'.low /\ Pc(q, c)' = "meet" =>
                       packets'[q][Parity(After(q, TRUE, c)')][s][c]
                         = [epoch |-> After(q, TRUE, c)', datum |-> Datum(q)']
  <2>1. Pos(s) = Pos(q) + 1 BY <1>2, <1>6
  <2>2. \A low \in BOOLEAN, c \in Blocks : epochs'[s][low][c] = After(q, low, c)'
    <3>1. SUFFICES ASSUME NEW low \in BOOLEAN, NEW c \in Blocks
                   PROVE  epochs'[s][low][c] = After(q, low, c)'
      OBVIOUS
    <3>2. epochs[s][low][c] = After(q, low, c) BY <1>3, <2>1 DEF Together
    <3>3. epochs'[s][low][c] = epochs[s][low][c] BY <1>2, <2>1
    <3> QED BY <3>2, <3>3
  <2>3. SUFFICES ASSUME Current(q), NEW c \in DOMAIN run'[q].lanes
        PROVE  /\ Pc(q, c)' \in (IF Call(q).low THEN {"meet", "done"} ELSE {"leave", "done"})
               /\ q # s /\ Call(q).low /\ Pc(q, c)' = "meet" =>
                    packets'[q][Parity(After(q, TRUE, c)')][s][c]
                      = [epoch |-> After(q, TRUE, c)', datum |-> Datum(q)]
    BY <1>2, <2>2
  <2>4. /\ c \in DOMAIN run[q].lanes
        /\ Pc(q, c)' = IF q = r /\ c = b THEN pc ELSE Pc(q, c)
    BY DEF LaneStep
  <2>5. c \in Blocks BY <2>4, RunTypes
  <2>6. After(q, TRUE, c)' = After(q, TRUE, c) BY <2>5
  <2>7. /\ Pc(q, c) \in (IF Call(q).low THEN {"meet", "done"} ELSE {"leave", "done"})
        /\ q # s /\ Call(q).low /\ Pc(q, c) = "meet" =>
             packets[q][Parity(After(q, TRUE, c))][s][c]
               = [epoch |-> After(q, TRUE, c), datum |-> Datum(q)]
    BY <1>3, <2>1, <2>3, <2>4 DEF Together
  <2>8. Pc(q, c)' = Pc(q, c) \/ Pc(q, c)' = "done" BY <1>2, <2>1, <2>4
  <2>9. Pc(q, c)' \in (IF Call(q).low THEN {"meet", "done"} ELSE {"leave", "done"})
    BY <2>7, <2>8
  <2>10. ASSUME q # s, Call(q).low, Pc(q, c)' = "meet"
         PROVE  packets'[q][Parity(After(q, TRUE, c)')][s][c]
                  = [epoch |-> After(q, TRUE, c)', datum |-> Datum(q)]
    <3>1. packets[q][Parity(After(q, TRUE, c))][s][c]
            = [epoch |-> After(q, TRUE, c), datum |-> Datum(q)]
      BY <2>7, <2>8, <2>10
    <3>2. packets'[q][Parity(After(q, TRUE, c))][s][c] = packets[q][Parity(After(q, TRUE, c))][s][c]
      BY <1>2, <2>1, <2>4, <2>10
    <3> QED BY <2>6, <3>1, <3>2
  <2> QED BY <2>9, <2>10
<1> QED BY <1>4, <1>5, <1>6 DEF Together, Parity

\* A step that keeps what was posted keeps what flags and packets say.
LEMMA FlagsKept ==
    ASSUME FlagsWritten, start' = start, end' = end,
           \A q \in Ranks, c \in Blocks :
                Sent(q, FALSE, c)' = Sent(q, FALSE, c) /\ Ended(q, c)' = Ended(q, c)
    PROVE  FlagsWritten'
  BY DEF FlagsWritten

\* Two ranks stay together when nothing that they see of each other changes.
LEMMA TogetherSame ==
    ASSUME NEW q \in Ranks, NEW s \in Ranks, Together(q, s), epochs' = epochs, packets' = packets,
           Pos(q)' = Pos(q), Pos(s)' = Pos(s), Call(q)' = Call(q), Datum(q)' = Datum(q),
           Current(q)' <=> Current(q), DOMAIN run'[q].lanes = DOMAIN run[q].lanes,
           \A c : Pc(q, c)' = Pc(q, c),
           \A low, c : After(q, low, c)' = After(q, low, c) /\ After(s, low, c)' = After(s, low, c)
    PROVE  Together(q, s)'
<1>1. (Pos(s) <= Pos(q) + 1)' BY DEF Together
<1>2. ASSUME (Pos(s) = Pos(q))'
      PROVE  \A low \in BOOLEAN, c \in Blocks : After(s, low, c)' = After(q, low, c)'
  BY <1>2 DEF Together
<1>3. ASSUME (Pos(s) = Pos(q) + 1)'
      PROVE  /\ \A low \in BOOLEAN, c \in Blocks : epochs'[s][low][c] = After(q, low, c)'
             /\ Current(q)' => \A c \in DOMAIN run'[q].lanes :
                  /\ Pc(q, c)' \in (IF Call(q)'.low THEN {"meet", "done"} ELSE {"leave", "done"})
                  /\ q # s /\ Call(q)'.low /\ Pc(q, c)' = "meet" =>
                       packets'[q][Parity(After(q, TRUE, c)')][s][c]
                         = [epoch |-> After(q, TRUE, c)', datum |-> Datum(q)']
  <2>1. Pos(s) = Pos(q) + 1 BY <1>3
  <2>2. \A low \in BOOLEAN, c \in Blocks : epochs[s][low][c] = After(q, low, c)
    BY <2>1 DEF Together
  <2>3. SUFFICES ASSUME Current(q), NEW c \in DOMAIN run[q].lanes
        PROVE  /\ Pc(q, c)' \in (IF Call(q)'.low THEN {"meet", "done"} ELSE {"leave", "done"})
               /\ q # s /\ Call(q)'.low /\ Pc(q, c)' = "meet" =>
                    packets'[q][Parity(After(q, TRUE, c)')][s][c]
                      = [epoch |-> After(q, TRUE, c)', datum |-> Datum(q)']
    BY <2>2
  <2>4. /\ Pc(q, c) \in (IF Call(q).low THEN {"meet", "done"} ELSE {"leave", "done"})
        /\ q # s /\ Call(q).low /\ Pc(q, c) = "meet" =>
             packets[q][Parity(After(q, TRUE, c))][s][c]
               = [epoch |-> After(q, TRUE, c), datum |-> Datum(q)]
    BY <2>1, <2>3 DEF Together
  <2>5. After(q, TRUE, c)' = After(q, TRUE, c) /\ Pc(q, c)' = Pc(q, c) OBVIOUS
  <2> QED BY <2>4, <2>5
<1> QED BY <1>1, <1>2, <1>3 DEF Together, Parity

\* A step that stores no packet and posts no arrival keeps the packet slots.
LEMMA PacketsKept ==
    ASSUME DeviceTypes, PacketsWritten, packets' = packets,
           \A s \in Ranks, c \in Blocks : Sent(s, TRUE, c)' = Sent(s, TRUE, c),
           \A s \in Ranks, c \in Blocks : (InCall(s, TRUE, c) /\ Pc(s, c) \in {"meet", "done"})' =>
                InCall(s, TRUE, c) /\ Pc(s, c) \in {"meet", "done"} /\ Datum(s)' = Datum(s)
    PROVE  PacketsWritten'
<1>1. SUFFICES ASSUME NEW s \in Ranks, NEW q \in Ranks, NEW c \in Blocks, s # q
        PROVE LET e == Sent(s, TRUE, c)'
              IN  /\ packets'[q][Parity(e)][s][c].epoch = e
                  /\ LET other == packets'[q][1 - Parity(e)][s][c].epoch
                     IN  Succ(other) = e \/ (other = 0 /\ Parity(e) = 0)
                  /\ (InCall(s, TRUE, c) /\ Pc(s, c) \in {"meet", "done"})' =>
                        packets'[q][Parity(e)][s][c].datum = Datum(s)'
  BY DEF PacketsWritten, Parity, Succ
<1>2. PICK e : e = Sent(s, TRUE, c) OBVIOUS
<1>3. Sent(s, TRUE, c)' = e BY <1>1, <1>2
<1>4. /\ packets[q][Parity(e)][s][c].epoch = e
      /\ LET other == packets[q][1 - Parity(e)][s][c].epoch
         IN  Succ(other) = e \/ (other = 0 /\ Parity(e) = 0)
      /\ InCall(s, TRUE, c) /\ Pc(s, c) \in {"meet", "done"} =>
            packets[q][Parity(e)][s][c].datum = Datum(s)
  BY <1>1, <1>2 DEF PacketsWritten
<1>5. (InCall(s, TRUE, c) /\ Pc(s, c) \in {"meet", "done"})' =>
                InCall(s, TRUE, c) /\ Pc(s, c) \in {"meet", "done"} /\ Datum(s)' = Datum(s)
  BY <1>1
<1> QED BY <1>3, <1>4, <1>5

\* What a rank stages changes with its call.
LEMMA StagingKept ==
    ASSUME DeviceTypes, StagingWritten, staging' = staging, UNCHANGED host,
           NEW r \in Ranks, NEW b, NEW pc, NEW met, LaneStep(r, b, pc, met)
    PROVE  StagingWritten'
<1>1. SUFFICES ASSUME NEW s \in Ranks, NEW c \in Blocks, InCall(s, FALSE, c)'
               PROVE  staging'[s][c] = Datum(s)'
  BY DEF StagingWritten
<1>2. InCall(s, FALSE, c) /\ Datum(s)' = Datum(s) BY <1>1, LaneStepKeeps
<1> QED BY <1>2 DEF StagingWritten

\* What was posted and counted, when the blocks of the others do not change.
LEMMA OthersKept ==
    ASSUME DeviceTypes, NEW r \in Ranks, NEW b \in DOMAIN run[r].lanes, NEW pc, NEW met,
           LaneStep(r, b, pc, met), UNCHANGED host,
           NEW q \in Ranks, NEW c \in Blocks, q # r \/ c # b,
           NEW low \in BOOLEAN, epochs'[q][low][c] = epochs[q][low][c]
    PROVE  /\ Sent(q, low, c)' = Sent(q, low, c)
           /\ After(q, low, c)' = After(q, low, c)
           /\ low = FALSE => Ended(q, c)' = Ended(q, c)
<1>1. /\ InCall(q, low, c)' <=> InCall(q, low, c)
      /\ Current(q)' <=> Current(q)
  BY LaneStepKeeps
<1>2. InCall(q, low, c) => Pc(q, c)' = Pc(q, c) BY DEF LaneStep, InCall
<1>3. PICK e : e = epochs[q][low][c] OBVIOUS
<1>4. epochs'[q][low][c] = e BY <1>3
<1>5. Sent(q, low, c)' = Sent(q, low, c) BY <1>1, <1>2, <1>3, <1>4 DEF Sent, Succ
<1>6. After(q, low, c)' = After(q, low, c) BY <1>1, <1>2, <1>3, <1>4 DEF After, Succ
<1>7. low = FALSE => Ended(q, c)' = Ended(q, c) BY <1>1, <1>2, <1>3, <1>4 DEF Ended, Succ
<1> QED BY <1>5, <1>6, <1>7

-----------------------------------------------------------------------------
(* The steps of a block. *)

\* A block that meets a peer: the peer has been there, with this call's datum.
LEMMA MeetKeeps ==
    ASSUME IInv, NEW r \in Ranks, Current(r), NEW b \in DOMAIN run[r].lanes, NEW t \in Ranks,
           Meet(r, b, t)
    PROVE  DeviceInv'
<1> USE DEF IInv, HostInv, DeviceInv
<1>1. /\ UNCHANGED host /\ epochs' = epochs /\ start' = start /\ end' = end
      /\ staging' = staging /\ packets' = packets /\ leader' = leader
  BY DEF Meet, host
<1>2. Pc(r, b) \in {"meet", "leave"} /\ t \notin Met(r, b) /\ Spins(r, b, t) /\ Arrived(r, b, t)
  BY DEF Meet, Spins, Pc, Met
<1>3. /\ b \in Blocks /\ Call(r).low \in BOOLEAN /\ run[r].at > 0 /\ Pc(r, b) \in Pcs
      /\ Met(r, b) \subseteq Ranks /\ r \in Met(r, b) /\ (Pc(r, b) = "leave" => ~Call(r).low)
  BY <1>2, LaneCall, RunTypes DEF RunsShaped, RunShaped, Pc, Met
<1>4. r # t BY <1>2, <1>3
<1>5. PICK pc, met : pc = Pc(r, b) /\ met = Met(r, b) \cup {t} OBVIOUS
<1>6. pc \in Pcs /\ met \in SUBSET Ranks BY <1>3, <1>5
<1>7. SetLane(r, b, pc, met) BY <1>5 DEF Meet, Pc, Met
<1>8. LaneStep(r, b, pc, met) BY <1>6, <1>7, LaneMoves
<1>9. Coherent BY DEF Coherent
<1>10. Sound(r) BY DEF Sound
<1>11. Sound(t) => ReallyThere(r, b, t) BY <1>2, <1>4, <1>9, ArrivedIsThere
<1>12. \A q \in Ranks, low \in BOOLEAN, c \in Blocks :
         /\ Sent(q, low, c)' = Sent(q, low, c) /\ After(q, low, c)' = After(q, low, c)
         /\ Ended(q, c)' = Ended(q, c)
  <2>1. SUFFICES ASSUME NEW q \in Ranks, NEW low \in BOOLEAN, NEW c \in Blocks
        PROVE /\ Sent(q, low, c)' = Sent(q, low, c) /\ After(q, low, c)' = After(q, low, c)
              /\ Ended(q, c)' = Ended(q, c)
    OBVIOUS
  <2>2. /\ \A k \in BOOLEAN : InCall(q, k, c)' <=> InCall(q, k, c)
        /\ Current(q)' <=> Current(q)
    BY <1>1, <1>8, LaneStepKeeps
  <2>3. \A k \in BOOLEAN : InCall(q, k, c) => Pc(q, c)' = Pc(q, c)
    BY <1>5, <1>8 DEF LaneStep, InCall
  <2> QED BY <1>1, <2>2, <2>3 DEF Sent, After, Ended, Succ
<1>13. DeviceTypes'
  <2>1. run' \in [Ranks -> Runs] BY <1>8 DEF LaneStep
  <2>2. mixed' \subseteq Ranks BY DEF Meet, DeviceTypes
  <2> QED BY <1>1, <2>1, <2>2 DEF DeviceTypes, Epochs
<1>14. RunsShaped' BY <1>1, <1>2, <1>3, <1>5, <1>8, ShapeKept
<1>15. FlagsWritten' BY <1>1, <1>12, FlagsKept
<1>16. PacketsWritten'
  <2>1. ASSUME NEW s \in Ranks, NEW c \in Blocks, (InCall(s, TRUE, c) /\ Pc(s, c) \in {"meet", "done"})'
        PROVE  InCall(s, TRUE, c) /\ Pc(s, c) \in {"meet", "done"} /\ Datum(s)' = Datum(s)
    <3>1. InCall(s, TRUE, c) /\ Datum(s)' = Datum(s) BY <1>1, <1>8, <2>1, LaneStepKeeps
    <3>2. Pc(s, c)' = Pc(s, c) BY <1>5, <1>8, <3>1 DEF LaneStep, InCall
    <3> QED BY <2>1, <3>1, <3>2
  <2> QED BY <1>1, <1>12, <2>1, PacketsKept
<1>17. StagingWritten' BY <1>1, <1>8, StagingKept
<1>18. CurrentCalls' BY <1>1, <1>8, CurrentCallsKept DEF LaneStep
<1>19. Lockstep'
  <2>1. ASSUME NEW s \in Ranks, Sound(s), s # r PROVE Says(s, r, b, pc, met)
    <3>1. Says(s, r, b, Pc(r, b), Met(r, b)) BY <2>1 DEF Lockstep
    <3>2. CASE s # t BY <1>5, <3>1, <3>2 DEF Says
    <3>3. CASE s = t BY <1>2, <1>5, <1>11, <2>1, <3>1, <3>3 DEF Says, ReallyThere
    <3> QED BY <3>2, <3>3
  <2>2. Forward(r, b, pc) BY <1>5 DEF Forward
  <2> QED BY <1>1, <1>8, <2>1, <2>2, LockstepKept
<1>20. AllTogether'
  <2>1. CountsKept BY <1>12 DEF CountsKept
  <2>2. PassedBlocksKept(r, b, pc) BY <1>1, <1>5 DEF PassedBlocksKept
  <2> QED BY <1>1, <1>8, <2>1, <2>2, TogetherKept
<1>21. OldArrivalsSeen'
  <2>1. WritesOnlyAs(r) BY <1>1, <1>8 DEF WritesOnlyAs, LaneStep
  <2> QED BY <1>1, <2>1, OldArrivalsKept
<1>22. SumsExact'
  <2>1. SUFFICES ASSUME \A q \in Ranks : Sound(q)' PROVE mixed' = {} BY DEF SumsExact
  <2>2. \A q \in Ranks : Sound(q) BY <1>1, <1>8, <2>1, LaneStepKeeps
  <2>3. mixed = {} BY <2>2 DEF SumsExact
  <2>4. SUFFICES ASSUME Call(r).low PROVE Packet(r, b, t).datum = Datum(r) BY <2>3 DEF Meet
  <2>5. Pc(r, b) = "meet" /\ Call(r).low = TRUE BY <1>2, <1>3, <2>4
  <2>6. Epoch(r, b) = After(r, TRUE, b) BY <2>5 DEF Epoch, After, InCall, Succ
  <2>7. Together(r, t) BY <1>10, <2>2 DEF AllTogether
  <2>8. Passed(t, r, b, {"meet", "leave", "done"}) BY <1>11, <2>2, <2>5 DEF ReallyThere
  <2>9. CASE Pos(t) > Pos(r)
    <3>1. Pos(t) = Pos(r) + 1 BY <2>7, <2>9, PosType DEF Together
    <3>2. packets[r][Parity(After(r, TRUE, b))][t][b]
            = [epoch |-> After(r, TRUE, b), datum |-> Datum(r)]
      BY <1>4, <2>4, <2>5, <2>7, <3>1 DEF Together
    <3> QED BY <2>6, <3>2 DEF Packet
  <2>10. CASE Pos(t) = Pos(r) /\ Pc(t, b) \in {"meet", "leave", "done"}
    <3>1. Pos(r) > 0 BY <1>3 DEF Pos
    <3>2. /\ Current(t) /\ Call(t) = Call(r) /\ Datum(t) = Datum(r)
          /\ DOMAIN run[t].lanes = DOMAIN run[r].lanes
      BY <2>2, <2>10, <3>1, SameCall
    <3>3. InCall(t, TRUE, b) BY <2>5, <3>2 DEF InCall
    <3>4. Pc(t, b) \in {"meet", "done"} BY <2>4, <2>10, <3>2 DEF RunsShaped, RunShaped, Pc
    <3>5. After(t, TRUE, b) = After(r, TRUE, b) BY <1>3, <2>7, <2>10 DEF Together
    <3>6. Sent(t, TRUE, b) = After(t, TRUE, b) BY <1>3, <2>2, <3>4, PostedIsAfter
    <3>7. packets[r][Parity(Sent(t, TRUE, b))][t][b].datum = Datum(t)
      BY <1>3, <1>4, <3>3, <3>4 DEF PacketsWritten
    <3> QED BY <2>6, <3>2, <3>5, <3>6, <3>7 DEF Packet
  <2> QED BY <2>8, <2>9, <2>10 DEF Passed
<1> QED BY <1>13, <1>14, <1>15, <1>16, <1>17, <1>18, <1>19, <1>20, <1>21, <1>22

\* A block that sums: every peer is at this call, with its input staged.
LEMMA SumKeeps ==
    ASSUME IInv, NEW r \in Ranks, Current(r), NEW b \in DOMAIN run[r].lanes, Sum(r, b)
    PROVE  DeviceInv'
<1> USE DEF IInv, HostInv, DeviceInv
<1>1. /\ UNCHANGED host /\ epochs' = epochs /\ start' = start
      /\ staging' = staging /\ packets' = packets /\ leader' = leader
      /\ end' = [q \in Ranks |-> [end[q] EXCEPT ![b][r] = Epoch(r, b)]]
  BY DEF Sum, host
<1>2. Pc(r, b) = "meet" /\ ~Call(r).low /\ Met(r, b) = Ranks BY DEF Sum, Pc, Met
<1>3. b \in Blocks /\ Call(r).low \in BOOLEAN /\ run[r].at > 0 BY LaneCall
<1>4. Call(r).low = FALSE /\ InCall(r, FALSE, b) /\ ~InCall(r, TRUE, b) BY <1>2, <1>3 DEF InCall
<1>5. "leave" \in Pcs /\ {r} \in SUBSET Ranks BY DEF Pcs
<1>6. SetLane(r, b, "leave", {r}) BY DEF Sum
<1>7. LaneStep(r, b, "leave", {r}) BY <1>5, <1>6, LaneMoves
<1>8. Sound(r) BY DEF Sound
<1>9. Pc(r, b)' = "leave" BY <1>7 DEF LaneStep
<1>10. \A k \in BOOLEAN : InCall(r, k, b)' <=> InCall(r, k, b) BY <1>1, <1>7, LaneStepKeeps
<1>11. \A q \in Ranks, low \in BOOLEAN, c \in Blocks :
         Sent(q, low, c)' = Sent(q, low, c) /\ After(q, low, c)' = After(q, low, c)
  <2>1. SUFFICES ASSUME NEW q \in Ranks, NEW low \in BOOLEAN, NEW c \in Blocks
        PROVE Sent(q, low, c)' = Sent(q, low, c) /\ After(q, low, c)' = After(q, low, c)
    OBVIOUS
  <2>2. CASE q # r \/ c # b BY <1>1, <1>7, <2>2, OthersKept
  <2>3. CASE q = r /\ c = b
    <3>1. Current(r)' <=> Current(r) BY <1>1, <1>7, LaneStepKeeps
    <3> QED BY <1>1, <1>2, <1>9, <1>10, <2>3, <3>1 DEF Sent, After, Succ
  <2> QED BY <2>2, <2>3
<1>12. Epoch(r, b) = Succ(epochs[r][FALSE][b]) BY <1>4 DEF Epoch, Succ
<1>13. Epoch(r, b) \in Epochs BY <1>3, <1>12, EpochTypes
<1>14. /\ end' \in [Ranks -> [Blocks -> [Ranks -> Epochs]]]
       /\ \A q, s \in Ranks, c \in Blocks :
            end'[q][c][s] = IF c = b /\ s = r THEN Epoch(r, b) ELSE end[q][c][s]
  <2>1. end \in [Ranks -> [Blocks -> [Ranks -> Epochs]]] BY DEF DeviceTypes
  <2>2. ASSUME NEW q \in Ranks
        PROVE  /\ end'[q] \in [Blocks -> [Ranks -> Epochs]]
               /\ \A s \in Ranks, c \in Blocks :
                    end'[q][c][s] = IF c = b /\ s = r THEN Epoch(r, b) ELSE end[q][c][s]
    <3>1. end'[q] = [end[q] EXCEPT ![b][r] = Epoch(r, b)] BY <1>1
    <3>2. end[q] \in [Blocks -> [Ranks -> Epochs]] BY <2>1
    <3> QED BY <1>3, <1>13, <3>1, <3>2
  <2>3. DOMAIN end' = Ranks /\ end' = [q \in Ranks |-> end'[q]] BY <1>1
  <2> QED BY <2>2, <2>3
<1>15. DeviceTypes'
  <2>1. run' \in [Ranks -> Runs] BY <1>7 DEF LaneStep
  <2>2. mixed' \subseteq Ranks BY DEF Sum, DeviceTypes
  <2> QED BY <1>1, <1>14, <2>1, <2>2 DEF DeviceTypes, Epochs
<1>16. RunsShaped' BY <1>1, <1>2, <1>7, ShapeKept
<1>17. FlagsWritten'
  <2>1. SUFFICES ASSUME NEW s \in Ranks, NEW q \in Ranks, NEW c \in Blocks
        PROVE  start'[q][c][s] = Sent(s, FALSE, c)' /\ end'[q][c][s] = Ended(s, c)'
    BY DEF FlagsWritten
  <2>2. start[q][c][s] = Sent(s, FALSE, c) /\ end[q][c][s] = Ended(s, c) BY DEF FlagsWritten
  <2>3. start'[q][c][s] = Sent(s, FALSE, c)' BY <1>1, <1>11, <2>2
  <2>4. CASE s # r \/ c # b
    <3>1. Ended(s, c)' = Ended(s, c) BY <1>1, <1>7, <2>4, OthersKept
    <3> QED BY <1>14, <2>2, <2>3, <2>4, <3>1
  <2>5. CASE s = r /\ c = b
    <3>1. Ended(r, b)' = Succ(epochs[r][FALSE][b]) BY <1>1, <1>4, <1>9, <1>10 DEF Ended, Succ
    <3> QED BY <1>12, <1>14, <2>3, <2>5, <3>1
  <2> QED BY <2>4, <2>5
<1>18. PacketsWritten'
  <2>1. ASSUME NEW s \in Ranks, NEW c \in Blocks, (InCall(s, TRUE, c) /\ Pc(s, c) \in {"meet", "done"})'
        PROVE  InCall(s, TRUE, c) /\ Pc(s, c) \in {"meet", "done"} /\ Datum(s)' = Datum(s)
    <3>1. InCall(s, TRUE, c) /\ Datum(s)' = Datum(s) BY <1>1, <1>7, <2>1, LaneStepKeeps
    <3>2. ~(s = r /\ c = b) BY <1>4, <3>1
    <3>3. Pc(s, c)' = Pc(s, c) BY <1>7, <3>1, <3>2 DEF LaneStep, InCall
    <3> QED BY <2>1, <3>1, <3>3
  <2> QED BY <1>1, <1>11, <2>1, PacketsKept
<1>19. StagingWritten' BY <1>1, <1>7, StagingKept
<1>20. CurrentCalls' BY <1>1, <1>7, CurrentCallsKept DEF LaneStep
<1>21. \A s \in Ranks : Sound(s) => Passed(s, r, b, {"meet", "leave", "done"})
  BY <1>2 DEF Lockstep, Says
<1>22. \A s \in Ranks : Sound(s) => Pos(s) # Pos(r) + 1
  <2>1. SUFFICES ASSUME NEW s \in Ranks, Sound(s), Pos(s) = Pos(r) + 1 PROVE FALSE OBVIOUS
  <2>2. Together(r, s) BY <1>8, <2>1 DEF AllTogether
  <2>3. Pc(r, b) \in {"leave", "done"} BY <1>4, <2>1, <2>2 DEF Together
  <2> QED BY <1>2, <2>3
<1>23. Lockstep'
  <2>1. ASSUME NEW s \in Ranks, Sound(s), s # r PROVE Says(s, r, b, "leave", {r})
    BY <1>21, <2>1 DEF Says
  <2>2. Forward(r, b, "leave") BY <1>2 DEF Forward
  <2> QED BY <1>1, <1>7, <2>1, <2>2, LockstepKept
<1>24. AllTogether'
  <2>1. CountsKept BY <1>11 DEF CountsKept
  <2>2. PassedBlocksKept(r, b, "leave") BY <1>1, <1>22 DEF PassedBlocksKept
  <2> QED BY <1>1, <1>7, <2>1, <2>2, TogetherKept
<1>25. OldArrivalsSeen'
  <2>1. WritesOnlyAs(r) BY <1>1, <1>7, <1>14 DEF WritesOnlyAs, LaneStep
  <2> QED BY <1>1, <2>1, OldArrivalsKept
<1>26. SumsExact'
  <2>1. SUFFICES ASSUME \A q \in Ranks : Sound(q)' PROVE mixed' = {} BY DEF SumsExact
  <2>2. \A q \in Ranks : Sound(q) BY <1>1, <1>7, <2>1, LaneStepKeeps
  <2>3. mixed = {} BY <2>2 DEF SumsExact
  <2>4. ASSUME NEW s \in Ranks PROVE staging[s][b] = Datum(r)
    <3>1. Together(r, s) BY <1>8, <2>2 DEF AllTogether
    <3>2. Pos(s) <= Pos(r) BY <1>22, <2>2, <3>1, PosType DEF Together
    <3>3. Pos(s) = Pos(r) BY <1>21, <2>2, <3>2, PosType DEF Passed
    <3>4. Pos(r) > 0 BY <1>3 DEF Pos
    <3>5. Call(s) = Call(r) /\ Datum(s) = Datum(r) /\ DOMAIN run[s].lanes = DOMAIN run[r].lanes
      BY <2>2, <3>3, <3>4, SameCall
    <3>6. InCall(s, FALSE, b) BY <1>4, <3>5 DEF InCall
    <3> QED BY <1>3, <3>5, <3>6 DEF StagingWritten
  <2>5. Staged(r, b) = {Datum(r)} BY <2>4 DEF Staged
  <2> QED BY <2>3, <2>5 DEF Sum
<1> QED BY <1>15, <1>16, <1>17, <1>18, <1>19, <1>20, <1>23, <1>24, <1>25, <1>26

\* A block that leaves: no peer is behind it, and it counts what it posted.
LEMMA LeaveKeeps ==
    ASSUME IInv, NEW r \in Ranks, Current(r), NEW b \in DOMAIN run[r].lanes, Leave(r, b)
    PROVE  DeviceInv'
<1> USE DEF IInv, HostInv, DeviceInv
<1>1. /\ UNCHANGED host /\ start' = start /\ end' = end /\ mixed' = mixed
      /\ staging' = staging /\ packets' = packets /\ leader' = leader
      /\ epochs' = [epochs EXCEPT ![r][Call(r).low][b] = Epoch(r, b)]
  BY DEF Leave, host
<1>2. /\ Pc(r, b) = (IF Call(r).low THEN "meet" ELSE "leave")
      /\ Met(r, b) = Ranks
  BY DEF Leave, Pc, Met
<1>3. b \in Blocks /\ Call(r).low \in BOOLEAN /\ run[r].at > 0 BY LaneCall
<1>4. \A k \in BOOLEAN : InCall(r, k, b) <=> Call(r).low = k BY <1>3 DEF InCall
<1>5. "done" \in Pcs /\ {} \in SUBSET Ranks BY DEF Pcs
<1>6. SetLane(r, b, "done", {}) BY DEF Leave
<1>7. LaneStep(r, b, "done", {}) BY <1>5, <1>6, LaneMoves
<1>8. Sound(r) BY DEF Sound
<1>9. Pc(r, b)' = "done" BY <1>7 DEF LaneStep
<1>10. (\A k \in BOOLEAN : InCall(r, k, b)' <=> InCall(r, k, b)) /\ (Current(r)' <=> Current(r))
  BY <1>1, <1>7, LaneStepKeeps
<1>11. Epoch(r, b) = Succ(epochs[r][Call(r).low][b]) BY DEF Epoch, Succ
<1>12. Epoch(r, b) \in Epochs BY <1>3, <1>11, EpochTypes
<1>13. /\ epochs' \in [Ranks -> [BOOLEAN -> [Blocks -> Epochs]]]
       /\ \A q \in Ranks, low \in BOOLEAN, c \in Blocks : epochs'[q][low][c] =
            IF q = r /\ low = Call(r).low /\ c = b THEN Epoch(r, b) ELSE epochs[q][low][c]
       /\ \A q \in Ranks : q # r => epochs'[q] = epochs[q]
  <2>1. epochs \in [Ranks -> [BOOLEAN -> [Blocks -> Epochs]]] BY DEF DeviceTypes
  <2>2. PICK k \in BOOLEAN : k = Call(r).low BY <1>3
  <2>3. PICK e \in Epochs : e = Epoch(r, b) BY <1>12
  <2>4. epochs' = [epochs EXCEPT ![r][k][b] = e] BY <1>1, <2>2, <2>3
  <2> QED BY <1>3, <2>1, <2>2, <2>3, <2>4
<1>14. \A q \in Ranks, low \in BOOLEAN, c \in Blocks :
         /\ Sent(q, low, c)' = Sent(q, low, c) /\ After(q, low, c)' = After(q, low, c)
         /\ low = FALSE => Ended(q, c)' = Ended(q, c)
  <2>1. SUFFICES ASSUME NEW q \in Ranks, NEW low \in BOOLEAN, NEW c \in Blocks
        PROVE /\ Sent(q, low, c)' = Sent(q, low, c) /\ After(q, low, c)' = After(q, low, c)
              /\ low = FALSE => Ended(q, c)' = Ended(q, c)
    OBVIOUS
  <2>2. CASE q # r \/ c # b
    <3>1. epochs'[q][low][c] = epochs[q][low][c] BY <1>13, <2>2
    <3> QED BY <1>1, <1>7, <2>2, <3>1, OthersKept
  <2>3. CASE q = r /\ c = b /\ low # Call(r).low
    <3>1. ~InCall(r, low, b) /\ ~InCall(r, low, b)' /\ epochs'[r][low][b] = epochs[r][low][b]
      BY <1>3, <1>4, <1>10, <1>13, <2>3
    <3> QED BY <2>3, <3>1 DEF Sent, After, Ended
  <2>4. CASE q = r /\ c = b /\ low = Call(r).low
    <3>1. /\ InCall(r, low, b) /\ InCall(r, low, b)' /\ epochs'[r][low][b] = Epoch(r, b)
          /\ Epoch(r, b) = Succ(epochs[r][low][b])
      BY <1>3, <1>4, <1>10, <1>11, <1>13, <2>4
    <3>2. Sent(r, low, b) = Epoch(r, b) /\ After(r, low, b) = Epoch(r, b)
      BY <1>2, <3>1 DEF Sent, After
    <3>3. Sent(r, low, b)' = epochs'[r][low][b] /\ After(r, low, b)' = epochs'[r][low][b]
      BY <1>9, <3>1 DEF Sent, After
    <3>4. low = FALSE => Ended(r, b) = Epoch(r, b) /\ Ended(r, b)' = epochs'[r][low][b]
      BY <1>2, <1>9, <2>4, <3>1 DEF Ended
    <3> QED BY <2>4, <3>1, <3>2, <3>3, <3>4
  <2> QED BY <2>2, <2>3, <2>4
<1>15. DeviceTypes'
  <2>1. run' \in [Ranks -> Runs] BY <1>7 DEF LaneStep
  <2> QED BY <1>1, <1>13, <2>1 DEF DeviceTypes, Epochs
<1>16. RunsShaped' BY <1>1, <1>2, <1>7, ShapeKept
<1>17. FlagsWritten' BY <1>1, <1>14, FlagsKept
<1>18. PacketsWritten'
  <2>1. ASSUME NEW s \in Ranks, NEW c \in Blocks, (InCall(s, TRUE, c) /\ Pc(s, c) \in {"meet", "done"})'
        PROVE  InCall(s, TRUE, c) /\ Pc(s, c) \in {"meet", "done"} /\ Datum(s)' = Datum(s)
    <3>1. InCall(s, TRUE, c) /\ Datum(s)' = Datum(s) BY <1>1, <1>7, <2>1, LaneStepKeeps
    <3>2. CASE s = r /\ c = b BY <1>2, <1>4, <3>1, <3>2
    <3>3. CASE ~(s = r /\ c = b)
      <4>1. Pc(s, c)' = Pc(s, c) BY <1>7, <3>1, <3>3 DEF LaneStep, InCall
      <4> QED BY <2>1, <3>1, <4>1
    <3> QED BY <3>2, <3>3
  <2> QED BY <1>1, <1>14, <2>1, PacketsKept
<1>19. StagingWritten' BY <1>1, <1>7, StagingKept
<1>20. CurrentCalls' BY <1>1, <1>7, CurrentCallsKept DEF LaneStep
<1>21. \A s \in Ranks : Sound(s) =>
         Passed(s, r, b, IF Call(r).low THEN {"meet", "done"} ELSE {"leave", "done"})
  <2>1. SUFFICES ASSUME NEW s \in Ranks, Sound(s)
                 PROVE  Passed(s, r, b, IF Call(r).low THEN {"meet", "done"} ELSE {"leave", "done"})
    OBVIOUS
  <2>2. Says(s, r, b, Pc(r, b), Met(r, b)) BY <2>1 DEF Lockstep
  <2>3. CASE ~Call(r).low BY <1>2, <2>2, <2>3 DEF Says
  <2>4. CASE Call(r).low
    <3>1. Passed(s, r, b, {"meet", "leave", "done"}) BY <1>2, <2>2, <2>4 DEF Says
    <3>2. Pos(r) > 0 BY <1>3 DEF Pos
    <3>3. ASSUME Pos(s) = Pos(r) PROVE Pc(s, b) # "leave"
      <4>1. Call(s) = Call(r) /\ DOMAIN run[s].lanes = DOMAIN run[r].lanes
        BY <2>1, <3>2, <3>3, SameCall
      <4> QED BY <2>4, <4>1 DEF RunsShaped, RunShaped, Pc
    <3> QED BY <2>4, <3>1, <3>3 DEF Passed
  <2> QED BY <2>3, <2>4
<1>22. Lockstep'
  <2>1. ASSUME NEW s \in Ranks, Sound(s), s # r PROVE Says(s, r, b, "done", {})
    BY <1>21, <2>1 DEF Says
  <2>2. Forward(r, b, "done") BY <1>2 DEF Forward
  <2> QED BY <1>1, <1>7, <2>1, <2>2, LockstepKept
<1>23. \A s \in Ranks : Sound(s) => Pos(r) # Pos(s) + 1
  BY <1>21, PosType DEF Passed
<1>24. AllTogether'
  <2>1. ASSUME NEW q \in Ranks, NEW s \in Ranks, Sound(q), Sound(s), Pos(s) = Pos(q) + 1
        PROVE  \A low \in BOOLEAN, c \in Blocks : epochs'[s][low][c] = epochs[s][low][c]
    BY <1>13, <1>23, <2>1
  <2>2. CountsKept BY <1>14 DEF CountsKept
  <2>3. PassedBlocksKept(r, b, "done") BY <1>1, <2>1 DEF PassedBlocksKept
  <2> QED BY <1>1, <1>7, <2>2, <2>3, TogetherKept
<1>25. OldArrivalsSeen'
  <2>1. WritesOnlyAs(r) BY <1>1, <1>7, <1>13 DEF WritesOnlyAs, LaneStep
  <2> QED BY <1>1, <2>1, OldArrivalsKept
<1>26. SumsExact' BY <1>1, <1>7, LaneStepKeeps DEF SumsExact
<1> QED BY <1>15, <1>16, <1>17, <1>18, <1>19, <1>20, <1>22, <1>24, <1>25, <1>26

\* A block that posts: no peer has passed it, and its packet goes to the slot
\* that a peer one call behind does not read.
LEMMA PostLaneKeeps ==
    ASSUME IInv, NEW r \in Ranks, Current(r), NEW b \in DOMAIN run[r].lanes, Post(r, b)
    PROVE  /\ LaneStep(r, b, "meet", {r}) /\ Pc(r, b) = "post"
           /\ UNCHANGED host /\ epochs' = epochs /\ end' = end /\ mixed' = mixed
           /\ staging' = staging /\ leader' = leader
           /\ b \in Blocks /\ Call(r).low \in BOOLEAN /\ Sound(r)
           /\ Epoch(r, b) = Succ(epochs[r][Call(r).low][b]) /\ Epoch(r, b) \in Epochs
           /\ \A k \in BOOLEAN : InCall(r, k, b) <=> Call(r).low = k
           /\ \A q \in Ranks, low \in BOOLEAN, c \in Blocks :
                /\ After(q, low, c)' = After(q, low, c)
                /\ Sent(q, low, c)' = IF q = r /\ c = b /\ low = Call(r).low THEN Epoch(r, b)
                                      ELSE Sent(q, low, c)
                /\ Ended(q, c)' = Ended(q, c)
           /\ Sent(r, Call(r).low, b) = epochs[r][Call(r).low][b]
           /\ RunsShaped' /\ StagingWritten' /\ CurrentCalls' /\ Lockstep' /\ SumsExact'
           /\ \A s \in Ranks : Sound(s) => Pos(s) # Pos(r) + 1
<1> USE DEF IInv, HostInv, DeviceInv
<1>1. /\ UNCHANGED host /\ epochs' = epochs /\ end' = end /\ mixed' = mixed
      /\ staging' = staging /\ leader' = leader
  BY DEF Post, host
<1>2. Pc(r, b) = "post" BY DEF Post, Pc
<1>3. b \in Blocks /\ Call(r).low \in BOOLEAN BY LaneCall
<1>4. \A k \in BOOLEAN : InCall(r, k, b) <=> Call(r).low = k BY <1>3 DEF InCall
<1>5. "meet" \in Pcs /\ {r} \in SUBSET Ranks BY DEF Pcs
<1>6. SetLane(r, b, "meet", {r}) BY DEF Post
<1>7. LaneStep(r, b, "meet", {r}) BY <1>5, <1>6, LaneMoves
<1>8. Sound(r) BY DEF Sound
<1>9. Pc(r, b)' = "meet" BY <1>7 DEF LaneStep
<1>10. (\A k \in BOOLEAN : InCall(r, k, b)' <=> InCall(r, k, b)) /\ (Current(r)' <=> Current(r))
  BY <1>1, <1>7, LaneStepKeeps
<1>11. Epoch(r, b) = Succ(epochs[r][Call(r).low][b]) BY DEF Epoch, Succ
<1>12. Epoch(r, b) \in Epochs BY <1>3, <1>11, EpochTypes
<1>13. \A q \in Ranks, low \in BOOLEAN, c \in Blocks :
         /\ After(q, low, c)' = After(q, low, c)
         /\ Sent(q, low, c)' = IF q = r /\ c = b /\ low = Call(r).low THEN Epoch(r, b)
                               ELSE Sent(q, low, c)
         /\ Ended(q, c)' = Ended(q, c)
  <2>1. SUFFICES ASSUME NEW q \in Ranks, NEW low \in BOOLEAN, NEW c \in Blocks
        PROVE /\ After(q, low, c)' = After(q, low, c)
              /\ Sent(q, low, c)' = IF q = r /\ c = b /\ low = Call(r).low THEN Epoch(r, b)
                                    ELSE Sent(q, low, c)
              /\ Ended(q, c)' = Ended(q, c)
    OBVIOUS
  <2>2. CASE q # r \/ c # b
    <3>1. \A k \in BOOLEAN : epochs'[q][k][c] = epochs[q][k][c] BY <1>1
    <3>2. Ended(q, c)' = Ended(q, c) BY <1>7, <1>1, <2>2, <3>1, OthersKept
    <3> QED BY <1>1, <1>7, <2>2, <3>2, OthersKept
  <2>3. CASE q = r /\ c = b
    <3>1. Ended(r, b)' = Ended(r, b) BY <1>1, <1>2, <1>9, <1>10 DEF Ended, Succ
    <3>2. After(r, low, b)' = After(r, low, b) BY <1>1, <1>2, <1>9, <1>10 DEF After, Succ
    <3>3. CASE low = Call(r).low
      <4>1. Sent(r, low, b)' = Succ(epochs[r][low][b])
        BY <1>1, <1>4, <1>9, <1>10, <3>3 DEF Sent, Succ
      <4> QED BY <1>11, <2>3, <3>1, <3>2, <3>3, <4>1
    <3>4. CASE low # Call(r).low
      <4>1. Sent(r, low, b)' = Sent(r, low, b) BY <1>1, <1>4, <1>10, <3>4 DEF Sent
      <4> QED BY <2>3, <3>1, <3>2, <3>4, <4>1
    <3> QED BY <3>3, <3>4
  <2> QED BY <2>2, <2>3
<1>14. Sent(r, Call(r).low, b) = epochs[r][Call(r).low][b] BY <1>2 DEF Sent
<1>15. RunsShaped' BY <1>1, <1>7, ShapeKept
<1>16. StagingWritten' BY <1>1, <1>7, StagingKept
<1>17. CurrentCalls' BY <1>1, <1>7, CurrentCallsKept DEF LaneStep
<1>18. Lockstep'
  <2>1. ASSUME NEW s \in Ranks, Sound(s), s # r PROVE Says(s, r, b, "meet", {r})
    BY <2>1 DEF Says
  <2>2. Forward(r, b, "meet") BY <1>2 DEF Forward
  <2> QED BY <1>1, <1>7, <2>1, <2>2, LockstepKept
<1>19. SumsExact' BY <1>1, <1>7, LaneStepKeeps DEF SumsExact
<1>20. \A s \in Ranks : Sound(s) => Pos(s) # Pos(r) + 1
  <2>1. SUFFICES ASSUME NEW s \in Ranks, Sound(s), Pos(s) = Pos(r) + 1 PROVE FALSE OBVIOUS
  <2>2. Together(r, s) BY <1>8, <2>1 DEF AllTogether
  <2>3. Pc(r, b) \in {"meet", "leave", "done"} BY <2>1, <2>2 DEF Together
  <2> QED BY <1>2, <2>3
<1> QED BY <1>1, <1>2, <1>3, <1>4, <1>7, <1>8, <1>11, <1>12, <1>13, <1>14, <1>15, <1>16, <1>17,
           <1>18, <1>19, <1>20

\* Posting flags.
LEMMA PostStagedKeeps ==
    ASSUME IInv, NEW r \in Ranks, Current(r), NEW b \in DOMAIN run[r].lanes, Post(r, b),
           ~Call(r).low
    PROVE  DeviceInv'
<1> USE DEF IInv, HostInv, DeviceInv
<1>1. /\ LaneStep(r, b, "meet", {r}) /\ Pc(r, b) = "post"
      /\ UNCHANGED host /\ epochs' = epochs /\ end' = end /\ mixed' = mixed
      /\ staging' = staging /\ leader' = leader
      /\ b \in Blocks /\ Call(r).low \in BOOLEAN /\ Epoch(r, b) \in Epochs
      /\ \A k \in BOOLEAN : InCall(r, k, b) <=> Call(r).low = k
      /\ \A q \in Ranks, low \in BOOLEAN, c \in Blocks :
           /\ After(q, low, c)' = After(q, low, c)
           /\ Sent(q, low, c)' = IF q = r /\ c = b /\ low = Call(r).low THEN Epoch(r, b)
                                 ELSE Sent(q, low, c)
           /\ Ended(q, c)' = Ended(q, c)
      /\ RunsShaped' /\ StagingWritten' /\ CurrentCalls' /\ Lockstep' /\ SumsExact'
      /\ \A s \in Ranks : Sound(s) => Pos(s) # Pos(r) + 1
  BY PostLaneKeeps
<1>2. /\ packets' = packets
      /\ start' = [q \in Ranks |-> [start[q] EXCEPT ![b][r] = Epoch(r, b)]]
  BY DEF Post
<1>3. Call(r).low = FALSE /\ ~InCall(r, TRUE, b) BY <1>1
<1>4. /\ start' \in [Ranks -> [Blocks -> [Ranks -> Epochs]]]
      /\ \A q, s \in Ranks, c \in Blocks :
           start'[q][c][s] = IF c = b /\ s = r THEN Epoch(r, b) ELSE start[q][c][s]
  <2>1. start \in [Ranks -> [Blocks -> [Ranks -> Epochs]]] BY DEF DeviceTypes
  <2>2. ASSUME NEW q \in Ranks
        PROVE  /\ start'[q] \in [Blocks -> [Ranks -> Epochs]]
               /\ \A s \in Ranks, c \in Blocks :
                    start'[q][c][s] = IF c = b /\ s = r THEN Epoch(r, b) ELSE start[q][c][s]
    <3>1. start'[q] = [start[q] EXCEPT ![b][r] = Epoch(r, b)] BY <1>2
    <3>2. start[q] \in [Blocks -> [Ranks -> Epochs]] BY <2>1
    <3> QED BY <1>1, <3>1, <3>2
  <2>3. DOMAIN start' = Ranks /\ start' = [q \in Ranks |-> start'[q]] BY <1>2
  <2> QED BY <2>2, <2>3
<1>5. DeviceTypes'
  <2>1. run' \in [Ranks -> Runs] BY <1>1 DEF LaneStep
  <2> QED BY <1>1, <1>2, <1>4, <2>1 DEF DeviceTypes, Epochs
<1>6. FlagsWritten'
  <2>1. SUFFICES ASSUME NEW s \in Ranks, NEW q \in Ranks, NEW c \in Blocks
        PROVE  start'[q][c][s] = Sent(s, FALSE, c)' /\ end'[q][c][s] = Ended(s, c)'
    BY DEF FlagsWritten
  <2>2. start[q][c][s] = Sent(s, FALSE, c) /\ end[q][c][s] = Ended(s, c) BY DEF FlagsWritten
  <2>3. end'[q][c][s] = Ended(s, c)' BY <1>1, <2>2
  <2>4. Sent(s, FALSE, c)' = IF s = r /\ c = b THEN Epoch(r, b) ELSE Sent(s, FALSE, c)
    BY <1>1, <1>3
  <2> QED BY <1>4, <2>2, <2>3, <2>4
<1>7. PacketsWritten'
  <2>1. ASSUME NEW s \in Ranks, NEW c \in Blocks, (InCall(s, TRUE, c) /\ Pc(s, c) \in {"meet", "done"})'
        PROVE  InCall(s, TRUE, c) /\ Pc(s, c) \in {"meet", "done"} /\ Datum(s)' = Datum(s)
    <3>1. InCall(s, TRUE, c) /\ Datum(s)' = Datum(s) BY <1>1, <2>1, LaneStepKeeps
    <3>2. ~(s = r /\ c = b) BY <1>3, <3>1
    <3>3. Pc(s, c)' = Pc(s, c) BY <1>1, <3>1, <3>2 DEF LaneStep, InCall
    <3> QED BY <2>1, <3>1, <3>3
  <2>2. \A s \in Ranks, c \in Blocks : Sent(s, TRUE, c)' = Sent(s, TRUE, c) BY <1>1, <1>3
  <2> QED BY <1>2, <2>1, <2>2, PacketsKept
<1>8. AllTogether'
  <2>1. CountsKept BY <1>1 DEF CountsKept
  <2>2. PassedBlocksKept(r, b, "meet") BY <1>1, <1>2 DEF PassedBlocksKept
  <2> QED BY <1>1, <2>1, <2>2, TogetherKept
<1>9. OldArrivalsSeen'
  <2>1. WritesOnlyAs(r) BY <1>1, <1>2, <1>4 DEF WritesOnlyAs, LaneStep
  <2> QED BY <1>1, <2>1, OldArrivalsKept
<1> QED BY <1>1, <1>5, <1>6, <1>7, <1>8, <1>9

\* Posting packets.
LEMMA PostLowKeeps ==
    ASSUME IInv, NEW r \in Ranks, Current(r), NEW b \in DOMAIN run[r].lanes, Post(r, b),
           Call(r).low
    PROVE  DeviceInv'
<1> USE DEF IInv, HostInv, DeviceInv
<1>1. /\ LaneStep(r, b, "meet", {r}) /\ Pc(r, b) = "post"
      /\ UNCHANGED host /\ epochs' = epochs /\ end' = end /\ mixed' = mixed
      /\ staging' = staging /\ leader' = leader
      /\ b \in Blocks /\ Call(r).low \in BOOLEAN /\ Epoch(r, b) \in Epochs /\ Sound(r)
      /\ Epoch(r, b) = Succ(epochs[r][Call(r).low][b])
      /\ \A k \in BOOLEAN : InCall(r, k, b) <=> Call(r).low = k
      /\ \A q \in Ranks, low \in BOOLEAN, c \in Blocks :
           /\ After(q, low, c)' = After(q, low, c)
           /\ Sent(q, low, c)' = IF q = r /\ c = b /\ low = Call(r).low THEN Epoch(r, b)
                                 ELSE Sent(q, low, c)
           /\ Ended(q, c)' = Ended(q, c)
      /\ Sent(r, Call(r).low, b) = epochs[r][Call(r).low][b]
      /\ RunsShaped' /\ StagingWritten' /\ CurrentCalls' /\ Lockstep' /\ SumsExact'
      /\ \A s \in Ranks : Sound(s) => Pos(s) # Pos(r) + 1
  BY PostLaneKeeps
<1>2. Call(r).low = TRUE BY <1>1
<1>3. PICK e \in Epochs : e = epochs[r][TRUE][b] BY <1>1, EpochTypes
<1>4. /\ Epoch(r, b) = Succ(e) /\ Succ(e) \in Epochs /\ Succ(e) # e
      /\ Parity(e) \in 0 .. 1 /\ Parity(Succ(e)) = 1 - Parity(e) /\ Sent(r, TRUE, b) = e
  BY <1>1, <1>2, <1>3, SuccFacts
<1>5. Parity(Succ(e)) \in 0 .. 1 /\ Parity(Succ(e)) # Parity(e) /\ 1 - Parity(Succ(e)) = Parity(e)
  BY <1>4
<1>6. PICK d \in [epoch : Epochs, datum : Nat \X Nat] : d = [epoch |-> Succ(e), datum |-> Datum(r)]
  <2>1. Datum(r) \in Nat \X Nat BY RunTypes DEF Datum
  <2> QED BY <1>4, <2>1
<1>7. /\ start' = start
      /\ packets' = [q \in Ranks |-> IF q = r THEN packets[q]
                       ELSE [packets[q] EXCEPT ![Parity(Succ(e))][r][b] = d]]
  BY <1>4, <1>6 DEF Post
<1>8. /\ packets' \in [Ranks -> [0 .. 1 -> [Ranks -> [Blocks -> [epoch : Epochs, datum : Nat \X Nat]]]]]
      /\ \A q, s \in Ranks, p \in 0 .. 1, c \in Blocks :
           packets'[q][p][s][c] = IF q # r /\ p = Parity(Succ(e)) /\ s = r /\ c = b THEN d
                                  ELSE packets[q][p][s][c]
  <2> DEFINE P == [epoch : Epochs, datum : Nat \X Nat]
             Slots == [0 .. 1 -> [Ranks -> [Blocks -> P]]]
  <2>1. packets \in [Ranks -> Slots] BY DEF DeviceTypes
  <2>2. PICK p0 \in 0 .. 1 : p0 = Parity(Succ(e)) BY <1>5
  <2>3. d \in P OBVIOUS
  <2> HIDE DEF P
  <2>4. ASSUME NEW q \in Ranks, q # r
        PROVE  /\ packets'[q] \in Slots
               /\ \A p \in 0 .. 1, s \in Ranks, c \in Blocks :
                    packets'[q][p][s][c] = IF p = p0 /\ s = r /\ c = b THEN d ELSE packets[q][p][s][c]
    <3>1. packets'[q] = [packets[q] EXCEPT ![p0][r][b] = d] BY <1>7, <2>2, <2>4
    <3>2. packets[q] \in Slots BY <2>1
    <3> QED BY <1>1, <2>3, <3>1, <3>2
  <2>5. packets'[r] = packets[r] BY <1>7
  <2>6. DOMAIN packets' = Ranks /\ packets' = [q \in Ranks |-> packets'[q]] BY <1>7
  <2>7. \A q \in Ranks : packets'[q] \in Slots BY SMTT(30), <2>1, <2>4, <2>5
  <2>8. packets' \in [Ranks -> Slots] BY <2>6, <2>7
  <2> QED BY SMTT(30), <2>2, <2>4, <2>5, <2>8 DEF P
<1>9. DeviceTypes'
  <2>1. run' \in [Ranks -> Runs] BY <1>1 DEF LaneStep
  <2> QED BY <1>1, <1>7, <1>8, <2>1 DEF DeviceTypes, Epochs
<1>10. FlagsWritten'
  <2>1. \A q \in Ranks, c \in Blocks :
          Sent(q, FALSE, c)' = Sent(q, FALSE, c) /\ Ended(q, c)' = Ended(q, c)
    BY <1>1, <1>2
  <2> QED BY <1>1, <1>7, <2>1, FlagsKept
<1>11. PacketsWritten'
  <2>1. SUFFICES ASSUME NEW s \in Ranks, NEW q \in Ranks, NEW c \in Blocks, s # q
        PROVE LET f == Sent(s, TRUE, c)'
              IN  /\ packets'[q][Parity(f)][s][c].epoch = f
                  /\ LET other == packets'[q][1 - Parity(f)][s][c].epoch
                     IN  Succ(other) = f \/ (other = 0 /\ Parity(f) = 0)
                  /\ (InCall(s, TRUE, c) /\ Pc(s, c) \in {"meet", "done"})' =>
                        packets'[q][Parity(f)][s][c].datum = Datum(s)'
    BY DEF PacketsWritten, Parity, Succ
  <2>2. PICK g \in Epochs : g = Sent(s, TRUE, c) BY EpochTypes
  <2>3. /\ packets[q][Parity(g)][s][c].epoch = g
        /\ LET other == packets[q][1 - Parity(g)][s][c].epoch
           IN  Succ(other) = g \/ (other = 0 /\ Parity(g) = 0)
        /\ InCall(s, TRUE, c) /\ Pc(s, c) \in {"meet", "done"} =>
              packets[q][Parity(g)][s][c].datum = Datum(s)
    BY ZenonT(60), <2>1, <2>2 DEF PacketsWritten
  <2>4. Datum(s)' = Datum(s) /\ (InCall(s, TRUE, c)' <=> InCall(s, TRUE, c))
    BY <1>1, LaneStepKeeps
  <2>5. CASE s = r /\ c = b
    <3>1. Sent(s, TRUE, c)' = Succ(e) BY <1>1, <1>2, <1>4, <2>5
    <3>2. g = e BY <1>4, <2>2, <2>5
    <3>3. packets'[q][Parity(Succ(e))][s][c] = d BY <1>5, <1>8, <2>1, <2>5
    <3>4. packets'[q][Parity(e)][s][c] = packets[q][Parity(e)][s][c] BY <1>4, <1>5, <1>8
    <3>5. packets'[q][1 - Parity(Succ(e))][s][c].epoch = e BY <1>5, <2>3, <3>2, <3>4
    <3>6. d.epoch = Succ(e) /\ d.datum = Datum(s)' BY <1>6, <2>4, <2>5
    <3> QED BY <3>1, <3>3, <3>5, <3>6
  <2>6. CASE ~(s = r /\ c = b)
    <3>1. Sent(s, TRUE, c)' = g BY <1>1, <2>2, <2>6
    <3>2. InCall(s, TRUE, c) => Pc(s, c)' = Pc(s, c) BY <1>1, <2>6 DEF LaneStep, InCall
    <3>3. Parity(g) \in 0 .. 1 /\ 1 - Parity(g) \in 0 .. 1 BY SuccFacts
    <3>4. \A p \in 0 .. 1 : packets'[q][p][s][c] = packets[q][p][s][c] BY <1>8, <2>6
    <3> QED BY <2>3, <2>4, <3>1, <3>2, <3>3, <3>4
  <2> QED BY <2>5, <2>6
<1>12. AllTogether'
  <2>1. ASSUME NEW q \in Ranks, NEW s \in Ranks, Sound(q), Sound(s), Pos(s) = Pos(q) + 1, q # s,
               NEW c \in DOMAIN run[q].lanes
        PROVE  packets'[q][Parity(After(q, TRUE, c))][s][c]
                 = packets[q][Parity(After(q, TRUE, c))][s][c]
    <3>1. c \in Blocks BY RunTypes
    <3>2. After(q, TRUE, c) \in Epochs BY <3>1, EpochTypes
    <3>3. Parity(After(q, TRUE, c)) \in 0 .. 1 BY <3>2, SuccFacts
    <3>4. Together(q, s) BY <2>1 DEF AllTogether
    <3>5. epochs[s][TRUE][c] = After(q, TRUE, c) BY <2>1, <3>1, <3>4 DEF Together
    <3>6. s = r /\ c = b => Parity(After(q, TRUE, c)) # Parity(Succ(e)) BY <1>3, <1>5, <3>5
    <3> QED BY ZenonT(60), <1>8, <3>1, <3>3, <3>6
  <2>2. CountsKept BY <1>1 DEF CountsKept
  <2>3. PassedBlocksKept(r, b, "meet") BY <1>1, <2>1 DEF PassedBlocksKept
  <2> QED BY <1>1, <2>2, <2>3, TogetherKept
<1>13. OldArrivalsSeen'
  <2>1. WritesOnlyAs(r) BY <1>1, <1>7, <1>8 DEF WritesOnlyAs, LaneStep
  <2> QED BY SMTT(30), <1>1, <2>1, OldArrivalsKept
<1> QED BY <1>1, <1>9, <1>10, <1>11, <1>12, <1>13

-----------------------------------------------------------------------------
(* The next call. *)

\* Every rank that takes part has passed a call that a rank has done.
LEMMA DonePassed ==
    ASSUME Coherent, NEW r \in Ranks, Current(r), CallDone(r), NEW s \in Ranks, Sound(s)
    PROVE  Pos(s) >= Pos(r)
<1> USE DEF Coherent
<1>1. CASE run[r].at = 0 BY <1>1, PosType DEF Pos
<1>2. CASE run[r].at # 0
  <2>1. 1 \in DOMAIN run[r].lanes BY <1>2, RunTypes, CallTypes
  <2>2. Pc(r, 1) = "done" BY <2>1 DEF CallDone, Pc
  <2>3. Passed(s, r, 1, IF Call(r).low THEN {"meet", "done"} ELSE {"leave", "done"})
    BY <2>1, <2>2 DEF Lockstep, Says
  <2> QED BY <2>3, PosType DEF Passed
<1> QED BY <1>1, <1>2

\* What the next call changes: rank r is at it, and all its blocks are to post.
CallStep(r) ==
    /\ run' \in [Ranks -> Runs]
    /\ \A q \in Ranks : q # r => run'[q] = run[q]
    /\ run'[r].iteration = run[r].iteration /\ run'[r].calls = run[r].calls
    /\ run'[r].limit = run[r].limit /\ run'[r].at = run[r].at + 1
    /\ run'[r].at <= run'[r].limit
    /\ Call(r)' \in Calls
    /\ DOMAIN run'[r].lanes = 1 .. Call(r)'.blocks
    /\ \A c \in DOMAIN run'[r].lanes : Pc(r, c)' = "post" /\ Met(r, c)' = {}
    /\ \A q \in Ranks : (Current(q)' <=> Current(q)) /\ (Sound(q)' <=> Sound(q))
    /\ \A q \in Ranks : q # r =>
         /\ Pos(q)' = Pos(q) /\ Call(q)' = Call(q) /\ Datum(q)' = Datum(q)
         /\ \A low, c : /\ InCall(q, low, c)' <=> InCall(q, low, c)
                        /\ Pc(q, c)' = Pc(q, c) /\ Met(q, c)' = Met(q, c)
                        /\ Sent(q, low, c)' = Sent(q, low, c) /\ After(q, low, c)' = After(q, low, c)
                        /\ Ended(q, c)' = Ended(q, c)

\* What NextCall changes.
LEMMA NextCallStep ==
    ASSUME DeviceTypes, RunsShaped, NEW r \in Ranks, NextCall(r)
    PROVE  CallStep(r)
<1>1. run \in [Ranks -> Runs] /\ run[r] \in Runs BY DEF DeviceTypes
<1>2. leader' = leader /\ poisoned' = poisoned /\ epochs' = epochs BY DEF NextCall, host
<1>3. /\ run[r].at \in Nat /\ run[r].limit \in Nat /\ run[r].calls \in Seq(Calls)
      /\ run[r].at < run[r].limit
  BY RunTypes DEF NextCall
<1>4. run[r].limit <= Len(run[r].calls) BY DEF RunsShaped, RunShaped
<1>5. PICK at \in Nat : at = run[r].at + 1 BY <1>3
<1>6. at \in 1 .. Len(run[r].calls) /\ at <= run[r].limit BY <1>3, <1>4, <1>5
<1>7. PICK call \in Calls : call = run[r].calls[at] BY <1>3, <1>6
<1>8. call.blocks \in 1 .. MaxBlocks BY <1>7 DEF Calls, Blocks
<1> DEFINE lanes == [b \in 1 .. call.blocks |-> [pc |-> "post", met |-> {}]]
<1>9. lanes \in LaneMaps
  <2>1. [pc |-> "post", met |-> {}] \in Lanes BY DEF Lanes, Pcs
  <2>2. lanes \in [1 .. call.blocks -> Lanes] BY <2>1
  <2>3. call.blocks \in 0 .. MaxBlocks BY <1>8, SizeAssumption
  <2> QED BY <2>2, <2>3 DEF LaneMaps
<1>10. run' = [run EXCEPT ![r].at = at, ![r].lanes = lanes] BY <1>5, <1>7 DEF NextCall
<1>11. /\ DOMAIN lanes = 1 .. call.blocks
       /\ \A c \in DOMAIN lanes : lanes[c].pc = "post" /\ lanes[c].met = {}
  OBVIOUS
<1> HIDE DEF lanes
<1>12. run'[r] = [run[r] EXCEPT !.at = at, !.lanes = lanes] BY <1>1, <1>10
<1>13. /\ run'[r].iteration = run[r].iteration /\ run'[r].calls = run[r].calls
       /\ run'[r].limit = run[r].limit /\ run'[r].at = at
       /\ run'[r].lanes = lanes /\ run'[r] \in Runs
  BY <1>1, <1>9, <1>12 DEF Runs
<1>14. \A q \in Ranks : q # r => run'[q] = run[q] BY <1>1, <1>10
<1>15. run' \in [Ranks -> Runs] BY <1>1, <1>10, <1>13, <1>14
<1>16. Call(r)' = call BY <1>7, <1>13 DEF Call
<1>17. /\ DOMAIN run'[r].lanes = 1 .. Call(r)'.blocks
       /\ \A c \in DOMAIN run'[r].lanes : Pc(r, c)' = "post" /\ Met(r, c)' = {}
  BY <1>11, <1>13, <1>16 DEF Pc, Met
<1>18. \A q \in Ranks : (Current(q)' <=> Current(q)) /\ (Sound(q)' <=> Sound(q))
  BY <1>2, <1>13, <1>14 DEF Current, Sound
<1>19. ASSUME NEW q \in Ranks, q # r
       PROVE  /\ Pos(q)' = Pos(q) /\ Call(q)' = Call(q) /\ Datum(q)' = Datum(q)
              /\ \A low, c :
                   /\ InCall(q, low, c)' <=> InCall(q, low, c)
                   /\ Pc(q, c)' = Pc(q, c) /\ Met(q, c)' = Met(q, c)
                   /\ Sent(q, low, c)' = Sent(q, low, c) /\ After(q, low, c)' = After(q, low, c)
                   /\ Ended(q, c)' = Ended(q, c)
  BY ZenonT(60), <1>2, <1>14, <1>19 DEF Pos, Current, Call, Datum, InCall, Pc, Met, Sent, After, Ended, Succ
<1> QED BY <1>5, <1>6, <1>13, <1>14, <1>15, <1>16, <1>17, <1>18, <1>19 DEF CallStep

\* The next call keeps the device's invariant: the rank was level with its
\* peers or behind, and is now ahead of them or level.
LEMMA NextCallKeeps ==
    ASSUME IInv, NEW r \in Ranks, Current(r), NextCall(r)
    PROVE  DeviceInv'
<1> USE DEF IInv, HostInv, DeviceInv
<1>1. /\ UNCHANGED host /\ leader' = leader /\ epochs' = epochs /\ start' = start /\ end' = end
      /\ packets' = packets /\ mixed' = mixed /\ CallDone(r)
  BY DEF NextCall, host
<1>2. CallStep(r) BY NextCallStep
<1>3. Sound(r) /\ Coherent BY DEF Sound, Coherent
<1>4. Pos(r)' = Pos(r) + 1 /\ Pos(r) \in Nat BY <1>2, PosType DEF CallStep, Pos
<1>5. \A c \in DOMAIN run[r].lanes : Pc(r, c) = "done" BY <1>1 DEF CallDone, Pc
<1>6. \A low \in BOOLEAN, c \in Blocks :
        /\ Sent(r, low, c) = epochs[r][low][c] /\ After(r, low, c) = epochs[r][low][c]
        /\ Ended(r, c) = epochs[r][FALSE][c]
  BY <1>5 DEF Sent, After, Ended, InCall
<1>7. \A low \in BOOLEAN, c \in Blocks :
        /\ Sent(r, low, c)' = epochs[r][low][c] /\ Ended(r, c)' = epochs[r][FALSE][c]
        /\ After(r, low, c)' = IF InCall(r, low, c)' THEN Succ(epochs[r][low][c])
                               ELSE epochs[r][low][c]
  <2>1. \A low, c : InCall(r, low, c)' => Pc(r, c)' = "post" BY <1>2 DEF CallStep, InCall
  <2>2. Current(r)' BY <1>2 DEF CallStep
  <2> QED BY <1>1, <2>1, <2>2 DEF Sent, After, Ended, Succ
<1>8. \A q \in Ranks, low \in BOOLEAN, c \in Blocks :
        Sent(q, low, c)' = Sent(q, low, c) /\ Ended(q, c)' = Ended(q, c)
  <2>1. SUFFICES ASSUME NEW q \in Ranks, NEW low \in BOOLEAN, NEW c \in Blocks
                 PROVE  Sent(q, low, c)' = Sent(q, low, c) /\ Ended(q, c)' = Ended(q, c)
    OBVIOUS
  <2>2. CASE q = r BY <1>6, <1>7, <2>2
  <2>3. CASE q # r BY <1>2, <2>3 DEF CallStep
  <2> QED BY <2>2, <2>3
<1>9. \A s \in Ranks : Sound(s) => Pos(s) = Pos(r) \/ Pos(s) = Pos(r) + 1
  <2>1. SUFFICES ASSUME NEW s \in Ranks, Sound(s) PROVE Pos(s) = Pos(r) \/ Pos(s) = Pos(r) + 1
    OBVIOUS
  <2>2. Pos(s) >= Pos(r) BY <1>1, <1>3, <2>1, DonePassed
  <2>3. Pos(s) <= Pos(r) + 1 BY <1>3, <2>1 DEF AllTogether, Together
  <2> QED BY <2>2, <2>3, PosType
<1>10. /\ Call(r)'.low \in BOOLEAN /\ Call(r)'.blocks \in Blocks
       /\ DOMAIN run'[r].lanes \subseteq Blocks
  <2>1. Call(r)'.low \in BOOLEAN /\ Call(r)'.blocks \in Blocks BY <1>2 DEF CallStep, Calls
  <2> QED BY <1>2, <2>1, SizeAssumption DEF CallStep, Blocks
<1>11. /\ staging' \in [Ranks -> [Blocks -> Nat \X Nat]]
       /\ \A s \in Ranks : s # r => staging'[s] = staging[s]
       /\ ~Call(r)'.low => \A c \in DOMAIN run'[r].lanes : staging'[r][c] = Datum(r)'
  <2>1. staging \in [Ranks -> [Blocks -> Nat \X Nat]] BY DEF DeviceTypes
  <2>2. PICK d \in Nat \X Nat : d = <<run[r].iteration, run[r].at + 1>>
    <3>1. run[r].iteration \in Nat /\ run[r].at \in Nat BY RunTypes
    <3>2. run[r].at + 1 \in Nat BY <3>1
    <3> QED BY <3>1, <3>2
  <2>3. Datum(r)' = d BY <1>2, <2>2 DEF CallStep, Datum
  <2>4. PICK call : call = run[r].calls[run[r].at + 1] OBVIOUS
  <2>5. Call(r)' = call BY <1>2, <2>4 DEF CallStep, Call
  <2>6. staging' = IF call.low THEN staging
                   ELSE [staging EXCEPT ![r] = [c \in Blocks |->
                            IF c <= call.blocks THEN d ELSE @[c]]]
    BY <2>2, <2>4 DEF NextCall
  <2>7. CASE call.low BY <2>1, <2>5, <2>6, <2>7
  <2>8. CASE ~call.low
    <3>1. staging' = [staging EXCEPT ![r] = [c \in Blocks |->
                            IF c <= call.blocks THEN d ELSE staging[r][c]]]
      BY <2>1, <2>6, <2>8
    <3>2. staging'[r] = [c \in Blocks |-> IF c <= call.blocks THEN d ELSE staging[r][c]]
      BY <2>1, <3>1
    <3>3. \A c \in DOMAIN run'[r].lanes : c \in Blocks /\ c <= call.blocks
      BY <1>2, <1>10, <2>5 DEF CallStep, Blocks
    <3> QED BY <2>1, <2>3, <3>1, <3>2, <3>3
  <2> QED BY <2>7, <2>8
<1>12. DeviceTypes'
  <2>1. run' \in [Ranks -> Runs] BY <1>2 DEF CallStep
  <2> QED BY <1>1, <1>11, <2>1 DEF DeviceTypes, Epochs
<1>13. RunsShaped'
  <2>1. SUFFICES ASSUME NEW q \in Ranks PROVE RunShaped(q)' BY DEF RunsShaped
  <2>2. RunShaped(q) BY DEF RunsShaped
  <2>3. CASE q # r
    <3>1. run'[q] = run[q] BY <1>2, <2>3 DEF CallStep
    <3> QED BY <2>2, <3>1 DEF RunShaped, Call
  <2>4. CASE q = r
    <3>1. run[r].at \in Nat /\ run[r].limit <= Len(run[r].calls)
      BY <2>2, <2>4, RunTypes DEF RunShaped
    <3>2. /\ run'[r].limit = run[r].limit /\ run'[r].calls = run[r].calls
          /\ run'[r].at = run[r].at + 1 /\ run'[r].at <= run'[r].limit
          /\ DOMAIN run'[r].lanes = 1 .. Call(r)'.blocks
          /\ \A c \in DOMAIN run'[r].lanes : Pc(r, c)' = "post" /\ Met(r, c)' = {}
      BY <1>2 DEF CallStep
    <3> QED BY <2>4, <3>1, <3>2 DEF RunShaped, Pc, Met
  <2> QED BY <2>3, <2>4
<1>14. FlagsWritten' BY <1>1, <1>8, FlagsKept
<1>15. PacketsWritten'
  <2>1. ASSUME NEW s \in Ranks, NEW c \in Blocks, (InCall(s, TRUE, c) /\ Pc(s, c) \in {"meet", "done"})'
        PROVE  InCall(s, TRUE, c) /\ Pc(s, c) \in {"meet", "done"} /\ Datum(s)' = Datum(s)
    <3>1. s # r BY <1>2, <2>1 DEF CallStep, InCall
    <3> QED BY <1>2, <2>1, <3>1 DEF CallStep
  <2> QED BY <1>1, <1>8, <2>1, PacketsKept
<1>16. StagingWritten'
  <2>1. SUFFICES ASSUME NEW s \in Ranks, NEW c \in Blocks, InCall(s, FALSE, c)'
                 PROVE  staging'[s][c] = Datum(s)'
    BY DEF StagingWritten
  <2>2. CASE s # r
    <3>1. InCall(s, FALSE, c) /\ Datum(s)' = Datum(s) BY <1>2, <2>1, <2>2 DEF CallStep
    <3> QED BY <1>11, <2>2, <3>1 DEF StagingWritten
  <2>3. CASE s = r BY <1>11, <2>1, <2>3 DEF InCall
  <2> QED BY <2>2, <2>3
<1>17. CurrentCalls'
  <2>1. \A q \in Ranks : run'[q].iteration = run[q].iteration /\ run'[q].calls = run[q].calls
    BY <1>2 DEF CallStep
  <2> QED BY <1>1, <2>1, CurrentCallsKept
<1>18. Lockstep'
  <2>1. SUFFICES ASSUME NEW q \in Ranks, NEW s \in Ranks, Current(q)', Sound(s)',
                        NEW c \in DOMAIN run'[q].lanes
                 PROVE  Says(s, q, c, Pc(q, c), Met(q, c))'
    BY DEF Lockstep
  <2>2. CASE q = r
    <3>1. Pc(q, c)' = "post" BY <1>2, <2>2 DEF CallStep
    <3> QED BY <3>1 DEF Says
  <2>3. CASE q # r
    <3>1. /\ Current(q) /\ Sound(s) /\ c \in DOMAIN run[q].lanes
          /\ Pc(q, c)' = Pc(q, c) /\ Met(q, c)' = Met(q, c) /\ Pos(q)' = Pos(q)
          /\ Call(q)' = Call(q)
      BY <1>2, <2>1, <2>3 DEF CallStep
    <3>2. PICK p, m : p = Pc(q, c) /\ m = Met(q, c) OBVIOUS
    <3>3. Says(s, q, c, p, m) BY <3>1, <3>2 DEF Lockstep
    <3>4. ASSUME NEW pcs, Passed(s, q, c, pcs) PROVE Passed(s, q, c, pcs)'
      <4>1. CASE s # r
        <5>1. Pos(s)' = Pos(s) /\ Pc(s, c)' = Pc(s, c) BY <1>2, <4>1 DEF CallStep
        <5> QED BY <3>1, <3>4, <5>1 DEF Passed
      <4>2. CASE s = r
        <5>1. Pos(s)' > Pos(q)' BY <1>4, <3>1, <3>4, <4>2, PosType DEF Passed
        <5> QED BY <5>1 DEF Passed
      <4> QED BY <4>1, <4>2
    <3>5. Says(s, q, c, p, m)' BY <3>1, <3>3, <3>4 DEF Says
    <3> QED BY <3>1, <3>2, <3>5 DEF Says
  <2> QED BY <2>2, <2>3
<1>19. ASSUME NEW s \in Ranks, s # r, Sound(s) PROVE Together(r, s)' /\ Together(s, r)'
  <2>1. /\ Pos(s)' = Pos(s) /\ Call(s)' = Call(s) /\ Datum(s)' = Datum(s)
        /\ (Current(s)' <=> Current(s)) /\ run'[s] = run[s]
        /\ \A low, c : /\ Pc(s, c)' = Pc(s, c) /\ After(s, low, c)' = After(s, low, c)
                       /\ (InCall(s, low, c)' <=> InCall(s, low, c))
    BY <1>2, <1>19 DEF CallStep
  <2>2. Together(r, s) /\ Pos(s) \in Nat BY <1>3, <1>19, PosType DEF AllTogether
  <2>3. CASE Pos(s) = Pos(r)
    <3>1. \A low \in BOOLEAN, c \in Blocks : After(s, low, c) = epochs[r][low][c]
      BY <1>6, <2>2, <2>3 DEF Together
    <3>2. ASSUME Current(s), NEW c \in DOMAIN run[s].lanes
          PROVE  /\ Pc(s, c) \in (IF Call(s).low THEN {"meet", "done"} ELSE {"leave", "done"})
                 /\ Call(s).low /\ Pc(s, c) = "meet" =>
                      packets[s][Parity(After(s, TRUE, c))][r][c]
                        = [epoch |-> After(s, TRUE, c), datum |-> Datum(s)]
      <4>1. Pos(s) > 0 /\ c \in Blocks /\ Call(s).low \in BOOLEAN BY <3>2, LaneCall DEF Pos
      <4>2. Call(r) = Call(s) /\ Datum(r) = Datum(s) /\ DOMAIN run[r].lanes = DOMAIN run[s].lanes
        BY <1>3, <2>3, <3>2, <4>1, SameCall
      <4>3. Passed(s, r, c, IF Call(r).low THEN {"meet", "done"} ELSE {"leave", "done"})
        BY <1>5, <1>19, <3>2, <4>2 DEF Lockstep, Says
      <4>4. Pc(s, c) \in (IF Call(s).low THEN {"meet", "done"} ELSE {"leave", "done"})
        BY <1>4, <2>2, <2>3, <4>2, <4>3 DEF Passed
      <4>5. ASSUME Call(s).low
            PROVE  packets[s][Parity(After(s, TRUE, c))][r][c]
                        = [epoch |-> After(s, TRUE, c), datum |-> Datum(s)]
        <5>1. Call(r).low = TRUE /\ InCall(r, TRUE, c) /\ Pc(r, c) = "done"
          BY <1>5, <3>2, <4>1, <4>2, <4>5 DEF InCall
        <5>2. PICK e \in Epochs : e = epochs[r][TRUE][c] BY <4>1, EpochTypes
        <5>3. Sent(r, TRUE, c) = e /\ After(s, TRUE, c) = e BY <1>6, <3>1, <4>1, <5>2
        <5>4. /\ packets[s][Parity(e)][r][c].epoch = e
              /\ packets[s][Parity(e)][r][c].datum = Datum(s)
          <6>1. LET f == Sent(r, TRUE, c)
                IN  /\ packets[s][Parity(f)][r][c].epoch = f
                    /\ InCall(r, TRUE, c) /\ Pc(r, c) \in {"meet", "done"} =>
                         packets[s][Parity(f)][r][c].datum = Datum(r)
            BY <1>19, <4>1 DEF PacketsWritten
          <6> QED BY <4>2, <5>1, <5>3, <6>1
        <5>5. Parity(e) \in 0 .. 1 BY <5>2, SuccFacts
        <5>6. packets[s][Parity(e)][r][c] \in [epoch : Epochs, datum : Nat \X Nat]
          BY <4>1, <5>5 DEF DeviceTypes
        <5> QED BY <5>3, <5>4, <5>6
      <4> QED BY <4>4, <4>5
    <3>3. Together(s, r)'
      <4>1. Pos(r)' = Pos(s)' + 1 BY <1>4, <2>1, <2>3
      <4>2. \A low \in BOOLEAN, c \in Blocks : epochs'[r][low][c] = After(s, low, c)'
        BY <1>1, <2>1, <3>1
      <4>3. ASSUME Current(s)', NEW c \in DOMAIN run'[s].lanes
            PROVE  /\ Pc(s, c)' \in (IF Call(s)'.low THEN {"meet", "done"} ELSE {"leave", "done"})
                   /\ Call(s)'.low /\ Pc(s, c)' = "meet" =>
                        packets'[s][Parity(After(s, TRUE, c)')][r][c]
                          = [epoch |-> After(s, TRUE, c)', datum |-> Datum(s)']
        BY <1>1, <2>1, <3>2, <4>3
      <4>4. Pos(s)' \in Nat BY <2>1, <2>2
      <4>5. (Pos(r) <= Pos(s) + 1)' BY <4>1, <4>4
      <4>6. (Pos(r) # Pos(s))' BY <4>1, <4>4
      <4> QED BY <4>2, <4>3, <4>5, <4>6 DEF Together, Parity
    <3>4. Together(r, s)'
      <4>1. Pos(r)' = Pos(s)' + 1 /\ Pos(s)' \in Nat BY <1>4, <2>1, <2>2, <2>3
      <4>2. (Pos(s) <= Pos(r) + 1)' BY <4>1
      <4>3. (Pos(s) # Pos(r))' BY <4>1
      <4>4. (Pos(s) # Pos(r) + 1)' BY <4>1
      <4> QED BY <4>2, <4>3, <4>4 DEF Together
    <3> QED BY <3>3, <3>4
  <2>4. CASE Pos(s) = Pos(r) + 1
    <3>1. \A low \in BOOLEAN, c \in Blocks : epochs[s][low][c] = epochs[r][low][c]
      BY ZenonT(60), <1>6, <2>2, <2>4 DEF Together
    <3>2. Current(s) BY <1>4, <2>4 DEF Pos
    <3>3. Call(s) = Call(r)' /\ DOMAIN run[s].lanes = DOMAIN run'[r].lanes
      <4>1. run[s].at = run[r].at + 1 BY <2>4, <3>2 DEF Pos
      <4>2. run[s].calls = run[r].calls BY <3>2 DEF CurrentCalls
      <4>3. Call(s) = Call(r)' BY <1>2, <4>1, <4>2 DEF CallStep, Call
      <4>4. run[s].at > 0 BY <4>1, RunTypes
      <4> QED BY <1>2, <4>3, <4>4, CallTypes DEF CallStep
    <3>4. \A c \in DOMAIN run[s].lanes : Pc(s, c) # "done"
      <4>1. SUFFICES ASSUME NEW c \in DOMAIN run[s].lanes, Pc(s, c) = "done" PROVE FALSE OBVIOUS
      <4>2. Passed(r, s, c, IF Call(s).low THEN {"meet", "done"} ELSE {"leave", "done"})
        BY <1>3, <3>2, <4>1 DEF Lockstep, Says
      <4> QED BY <1>4, <2>4, <4>2 DEF Passed
    <3>5. \A low \in BOOLEAN, c \in Blocks : After(s, low, c)' = After(r, low, c)'
      <4>1. SUFFICES ASSUME NEW low \in BOOLEAN, NEW c \in Blocks
                     PROVE  After(s, low, c)' = After(r, low, c)'
        OBVIOUS
      <4>2. After(r, low, c)' = IF InCall(r, low, c)' THEN Succ(epochs[r][low][c])
                                ELSE epochs[r][low][c]
        BY <1>7
      <4>3. InCall(s, low, c) <=> InCall(r, low, c)' BY <3>3 DEF InCall
      <4>4. After(s, low, c) = IF InCall(s, low, c) THEN Succ(epochs[s][low][c])
                               ELSE epochs[s][low][c]
        BY <3>2, <3>4 DEF After, InCall
      <4> QED BY <2>1, <3>1, <4>2, <4>3, <4>4
    <3>6. Pos(s)' = Pos(r)' /\ Pos(r)' \in Nat BY <1>4, <2>1, <2>4
    <3>7. (Pos(s) <= Pos(r) + 1)' /\ (Pos(r) <= Pos(s) + 1)' BY <3>6
    <3>8. (Pos(s) # Pos(r) + 1)' /\ (Pos(r) # Pos(s) + 1)' BY <3>6
    <3> QED BY <3>5, <3>7, <3>8 DEF Together
  <2> QED BY <1>9, <1>19, <2>3, <2>4
<1>20. AllTogether'
  <2>1. SUFFICES ASSUME NEW q \in Ranks, NEW s \in Ranks, Sound(q)', Sound(s)'
                 PROVE  Together(q, s)'
    BY DEF AllTogether
  <2>2. Sound(q) /\ Sound(s) BY <1>2, <2>1 DEF CallStep
  <2>3. CASE q = r /\ s # r BY <1>19, <2>2, <2>3
  <2>4. CASE q # r /\ s = r BY <1>19, <2>2, <2>4
  <2>5. CASE q = s
    <3>1. Pos(q)' \in Nat BY <1>2, <1>4, PosType DEF CallStep
    <3>2. (Pos(q) <= Pos(q) + 1)' /\ (Pos(q) # Pos(q) + 1)' BY <3>1
    <3> QED BY <2>5, <3>2 DEF Together
  <2>6. CASE q # r /\ s # r
    <3>1. /\ Pos(q)' = Pos(q) /\ Pos(s)' = Pos(s) /\ Call(q)' = Call(q) /\ Datum(q)' = Datum(q)
          /\ (Current(q)' <=> Current(q)) /\ run'[q] = run[q]
          /\ \A low, c : /\ Pc(q, c)' = Pc(q, c) /\ After(q, low, c)' = After(q, low, c)
                         /\ After(s, low, c)' = After(s, low, c)
      BY <1>2, <2>6 DEF CallStep
    <3>2. Together(q, s) BY <2>2 DEF AllTogether
    <3> QED BY <1>1, <3>1, <3>2, TogetherSame
  <2> QED BY <2>3, <2>4, <2>5, <2>6
<1>21. OldArrivalsSeen'
  <2>1. WritesOnlyAs(r) BY <1>1, <1>2 DEF WritesOnlyAs, CallStep
  <2> QED BY <1>1, <2>1, OldArrivalsKept
<1>22. SumsExact' BY SMTT(30), <1>1, <1>2 DEF SumsExact, CallStep
<1> QED BY <1>12, <1>13, <1>14, <1>15, <1>16, <1>17, <1>18, <1>20, <1>21, <1>22

-----------------------------------------------------------------------------
(* The steps of a device. *)

\* Only a rank that executes the leader's iteration has a device that moves.
LEMMA DeviceRuns ==
    ASSUME Resting, DeviceTypes, RunsShaped, NEW r \in Ranks, Device(r)
    PROVE  Executing(r) /\ Current(r) /\ ~run[r].trapped
<1>1. ~run[r].trapped BY DEF Device, NextCall
<1>2. SUFFICES ASSUME ~Executing(r) PROVE FALSE BY <1>1 DEF Resting
<1>3. RunDone(r) BY <1>2 DEF Resting
<1>4. run[r].at = run[r].limit /\ CallDone(r) BY <1>1, <1>3 DEF RunDone
<1>5. \A b \in DOMAIN run[r].lanes : run[r].lanes[b].pc = "done" BY <1>4 DEF CallDone
<1>6. ~NextCall(r)
  <2>1. SUFFICES ASSUME NextCall(r) PROVE FALSE OBVIOUS
  <2>2. run[r].at < run[r].limit BY <2>1 DEF NextCall
  <2>3. ~(run[r].limit < run[r].limit) BY RunTypes
  <2> QED BY <1>4, <2>2, <2>3
<1>7. ~\E b \in DOMAIN run[r].lanes : \E s \in Ranks : Spins(r, b, s) BY <1>5 DEF Spins
<1> QED BY <1>5, <1>6, <1>7 DEF Device, Post, Sum, Leave, Meet, Trap

\* A trap stops a device and changes nothing that its peers can see.
LEMMA TrapKeeps ==
    ASSUME DeviceInv, NEW r \in Ranks, Trap(r)
    PROVE  /\ DeviceInv' /\ UNCHANGED host
           /\ \A q \in Ranks : q # r => run'[q] = run[q]
           /\ run'[r].iteration = run[r].iteration
<1> USE DEF DeviceInv
<1>1. /\ UNCHANGED <<leader, poisoned, epochs, start, end, staging, packets, mixed>>
      /\ UNCHANGED host
  BY DEF Trap, host, device
<1>2. run \in [Ranks -> Runs] BY DEF DeviceTypes
<1>3. run' = [run EXCEPT ![r].trapped = TRUE] BY DEF Trap
<1>4. run' \in [Ranks -> Runs] /\ \A q \in Ranks :
        /\ run'[q].iteration = run[q].iteration /\ run'[q].calls = run[q].calls
        /\ run'[q].limit = run[q].limit /\ run'[q].at = run[q].at
        /\ run'[q].lanes = run[q].lanes
        /\ q # r => run'[q] = run[q]
  <2>1. run'[r] = [run[r] EXCEPT !.trapped = TRUE] /\ run[r] \in Runs BY <1>2, <1>3
  <2>2. run'[r] \in Runs /\ run'[r].iteration = run[r].iteration /\ run'[r].calls = run[r].calls
        /\ run'[r].limit = run[r].limit /\ run'[r].at = run[r].at /\ run'[r].lanes = run[r].lanes
    BY <2>1 DEF Runs
  <2>3. \A q \in Ranks : q # r => run'[q] = run[q] BY <1>2, <1>3
  <2> QED BY <1>2, <1>3, <2>2, <2>3
<1>5. DeviceTypes' BY <1>1, <1>4 DEF DeviceTypes, Epochs
<1>6. \A q \in Ranks :
        /\ Call(q)' = Call(q) /\ Datum(q)' = Datum(q) /\ Pos(q)' = Pos(q)
        /\ (Current(q)' <=> Current(q)) /\ (Sound(q)' <=> Sound(q))
        /\ \A c : Pc(q, c)' = Pc(q, c) /\ Met(q, c)' = Met(q, c) /\ Ended(q, c)' = Ended(q, c)
        /\ \A low, c : /\ InCall(q, low, c)' <=> InCall(q, low, c)
                       /\ Sent(q, low, c)' = Sent(q, low, c)
                       /\ After(q, low, c)' = After(q, low, c)
  <2>1. SUFFICES ASSUME NEW q \in Ranks
        PROVE /\ Call(q)' = Call(q) /\ Datum(q)' = Datum(q) /\ Pos(q)' = Pos(q)
              /\ (Current(q)' <=> Current(q)) /\ (Sound(q)' <=> Sound(q))
              /\ \A c : Pc(q, c)' = Pc(q, c) /\ Met(q, c)' = Met(q, c) /\ Ended(q, c)' = Ended(q, c)
              /\ \A low, c : /\ InCall(q, low, c)' <=> InCall(q, low, c)
                             /\ Sent(q, low, c)' = Sent(q, low, c)
                             /\ After(q, low, c)' = After(q, low, c)
    OBVIOUS
  <2>2. Call(q)' = Call(q) /\ Datum(q)' = Datum(q) BY <1>4 DEF Call, Datum
  <2>3. Current(q)' <=> Current(q) BY <1>1, <1>4 DEF Current
  <2>4. Pos(q)' = Pos(q) BY <1>4, <2>3 DEF Pos
  <2>5. Sound(q)' <=> Sound(q) BY <1>1, <2>3 DEF Sound
  <2>6. \A c : Pc(q, c)' = Pc(q, c) /\ Met(q, c)' = Met(q, c) BY <1>4 DEF Pc, Met
  <2>7. \A low, c : InCall(q, low, c)' <=> InCall(q, low, c) BY <1>4, <2>2 DEF InCall
  <2>8. \A low, c : /\ Sent(q, low, c)' = Sent(q, low, c) /\ After(q, low, c)' = After(q, low, c)
                    /\ Ended(q, c)' = Ended(q, c)
    <3>1. SUFFICES ASSUME NEW low, NEW c
          PROVE  /\ Sent(q, low, c)' = Sent(q, low, c) /\ After(q, low, c)' = After(q, low, c)
                 /\ Ended(q, c)' = Ended(q, c)
      OBVIOUS
    <3>2. /\ InCall(q, low, c)' <=> InCall(q, low, c)
          /\ InCall(q, FALSE, c)' <=> InCall(q, FALSE, c)
          /\ Pc(q, c)' = Pc(q, c)
      BY <2>6, <2>7
    <3>3. Sent(q, low, c)' = Sent(q, low, c) BY <1>1, <3>2 DEF Sent, Succ
    <3>4. After(q, low, c)' = After(q, low, c) BY <1>1, <2>3, <3>2 DEF After, Succ
    <3>5. Ended(q, c)' = Ended(q, c) BY <1>1, <3>2 DEF Ended, Succ
    <3> QED BY <3>3, <3>4, <3>5
  <2> QED BY <2>2, <2>3, <2>4, <2>5, <2>6, <2>7, <2>8
<1>7. RunsShaped'
  <2>1. SUFFICES ASSUME NEW q \in Ranks PROVE RunShaped(q)' BY DEF RunsShaped
  <2>2. RunShaped(q) BY DEF RunsShaped
  <2> QED BY <1>4, <1>6, <2>2 DEF RunShaped
<1>8. FlagsWritten' BY <1>1, <1>6, FlagsKept
<1>9. PacketsWritten' BY <1>1, <1>6, PacketsKept
<1>10. StagingWritten' BY <1>1, <1>6 DEF StagingWritten
<1>11. CurrentCalls' BY <1>1, <1>4, CurrentCallsKept
<1>12. Lockstep'
  <2>1. SUFFICES ASSUME NEW q \in Ranks, NEW s \in Ranks, Current(q)', Sound(s)',
                        NEW c \in DOMAIN run'[q].lanes
                 PROVE  Says(s, q, c, Pc(q, c), Met(q, c))'
    BY DEF Lockstep
  <2>2. Current(q) /\ Sound(s) /\ c \in DOMAIN run[q].lanes BY <1>4, <1>6, <2>1
  <2>3. Says(s, q, c, Pc(q, c), Met(q, c)) BY <2>2 DEF Lockstep
  <2> QED BY <1>6, <2>3 DEF Says, Passed
<1>13. AllTogether'
  <2>1. SUFFICES ASSUME NEW q \in Ranks, NEW s \in Ranks, Sound(q)', Sound(s)'
                 PROVE  Together(q, s)'
    BY DEF AllTogether
  <2>2. Together(q, s) BY <1>6, <2>1 DEF AllTogether
  <2> QED BY <1>1, <1>4, <1>6, <2>2, TogetherSame
<1>14. OldArrivalsSeen'
  <2>1. SUFFICES ASSUME NEW q \in Ranks, NEW s \in Ranks, run'[q].iteration # leader'.iteration,
                        NEW b \in DOMAIN run'[q].lanes, Spins(q, b, s)', HasArrived(s, q, b)'
                 PROVE  Arrived(q, b, s)'
    BY DEF OldArrivalsSeen
  <2>2. Spins(q, b, s) /\ HasArrived(s, q, b) BY <1>4, <2>1 DEF Spins, HasArrived
  <2>3. Arrived(q, b, s) BY <1>1, <1>4, <2>1, <2>2 DEF OldArrivalsSeen
  <2>4. Epoch(q, b)' = Epoch(q, b) BY <1>1, <1>6 DEF Epoch
  <2>5. Packet(q, b, s)' = Packet(q, b, s) BY <1>1, <2>4 DEF Packet, Parity
  <2>6. run'[q].lanes[b].pc = run[q].lanes[b].pc /\ run[q].lanes[b].pc \in {"meet", "leave"}
    BY <1>4, <2>2 DEF Spins
  <2> QED BY <1>1, <1>6, <2>3, <2>4, <2>5, <2>6 DEF Arrived
<1>15. SumsExact' BY <1>1, <1>6 DEF SumsExact
<1> QED BY <1>1, <1>4, <1>5, <1>7, <1>8, <1>9, <1>10, <1>11, <1>12, <1>13, <1>14, <1>15

\* A device touches neither the hosts nor the runs of other devices.
LEMMA DeviceLocal ==
    ASSUME DeviceTypes, RunsShaped, NEW r \in Ranks, Device(r)
    PROVE  /\ UNCHANGED host
           /\ \A q \in Ranks : q # r => run'[q] = run[q]
           /\ run'[r].iteration = run[r].iteration
<1>1. CASE NextCall(r) BY <1>1, NextCallStep DEF CallStep, NextCall
<1>2. CASE Trap(r)
  <2>1. run \in [Ranks -> Runs] /\ run' = [run EXCEPT ![r].trapped = TRUE]
    BY <1>2 DEF Trap, DeviceTypes
  <2>2. run'[r] = [run[r] EXCEPT !.trapped = TRUE] /\ run[r] \in Runs BY <2>1
  <2>3. run'[r].iteration = run[r].iteration BY <2>2 DEF Runs
  <2> QED BY <1>2, <2>1, <2>3 DEF Trap
<1>3. ASSUME NEW b \in DOMAIN run[r].lanes, NEW pc, NEW met, SetLane(r, b, pc, met)
      PROVE  (\A q \in Ranks : q # r => run'[q] = run[q]) /\ run'[r].iteration = run[r].iteration
  <2>1. run \in [Ranks -> Runs] BY DEF DeviceTypes
  <2> DEFINE lanes == [run[r].lanes EXCEPT ![b] = [pc |-> pc, met |-> met]]
  <2>2. run' = [run EXCEPT ![r].lanes = lanes] BY <1>3 DEF SetLane
  <2> HIDE DEF lanes
  <2>3. run'[r] = [run[r] EXCEPT !.lanes = lanes] /\ run[r] \in Runs BY <2>1, <2>2
  <2>4. run'[r].iteration = run[r].iteration BY <2>3 DEF Runs
  <2> QED BY <2>1, <2>2, <2>4
<1>4. ASSUME NEW b \in DOMAIN run[r].lanes, Post(r, b) \/ Sum(r, b) \/ Leave(r, b)
      PROVE  /\ UNCHANGED host
             /\ \A q \in Ranks : q # r => run'[q] = run[q]
             /\ run'[r].iteration = run[r].iteration
  BY <1>3, <1>4 DEF Post, Sum, Leave
<1>5. ASSUME NEW b \in DOMAIN run[r].lanes, NEW s \in Ranks, Meet(r, b, s)
      PROVE  /\ UNCHANGED host
             /\ \A q \in Ranks : q # r => run'[q] = run[q]
             /\ run'[r].iteration = run[r].iteration
  BY <1>3, <1>5 DEF Meet
<1> QED BY SMTT(30), <1>1, <1>2, <1>4, <1>5 DEF Device

\* Every step of a device keeps the device's invariant.
LEMMA DeviceKeeps ==
    ASSUME IInv, NEW r \in Ranks, Device(r)
    PROVE  DeviceInv'
<1> USE DEF IInv, HostInv
<1>1. Current(r) BY DeviceRuns DEF DeviceInv
<1>2. CASE NextCall(r) BY <1>1, <1>2, NextCallKeeps
<1>3. CASE Trap(r) BY <1>3, TrapKeeps
<1>4. ASSUME NEW b \in DOMAIN run[r].lanes, Post(r, b) PROVE DeviceInv'
  BY <1>1, <1>4, PostLowKeeps, PostStagedKeeps
<1>5. ASSUME NEW b \in DOMAIN run[r].lanes, Sum(r, b) PROVE DeviceInv' BY <1>1, <1>5, SumKeeps
<1>6. ASSUME NEW b \in DOMAIN run[r].lanes, Leave(r, b) PROVE DeviceInv' BY <1>1, <1>6, LeaveKeeps
<1>7. ASSUME NEW b \in DOMAIN run[r].lanes, NEW s \in Ranks, Meet(r, b, s) PROVE DeviceInv'
  BY <1>1, <1>7, MeetKeeps
<1> QED BY <1>2, <1>3, <1>4, <1>5, <1>6, <1>7 DEF Device

-----------------------------------------------------------------------------
(* The steps of the hosts. *)

\* A host step that begins nothing keeps the device's invariant: it can only
\* poison ranks, of which the invariant says less.
LEMMA HostKeepsDevice ==
    ASSUME DeviceInv, run' = run, UNCHANGED device, leader'.iteration = leader.iteration,
           leader'.calls = leader.calls, poisoned \subseteq poisoned'
    PROVE  DeviceInv'
<1> USE DEF DeviceInv
<1>1. UNCHANGED <<epochs, start, end, staging, packets, mixed>> BY DEF device
<1>2. \A q \in Ranks :
        /\ Call(q)' = Call(q) /\ Datum(q)' = Datum(q) /\ Pos(q)' = Pos(q)
        /\ (Current(q)' <=> Current(q)) /\ (Sound(q)' => Sound(q))
        /\ \A c : Pc(q, c)' = Pc(q, c) /\ Met(q, c)' = Met(q, c) /\ Ended(q, c)' = Ended(q, c)
        /\ \A low, c : /\ InCall(q, low, c)' <=> InCall(q, low, c)
                       /\ Sent(q, low, c)' = Sent(q, low, c)
                       /\ After(q, low, c)' = After(q, low, c)
  <2>1. SUFFICES ASSUME NEW q \in Ranks
        PROVE /\ Call(q)' = Call(q) /\ Datum(q)' = Datum(q) /\ Pos(q)' = Pos(q)
              /\ (Current(q)' <=> Current(q)) /\ (Sound(q)' => Sound(q))
              /\ \A c : Pc(q, c)' = Pc(q, c) /\ Met(q, c)' = Met(q, c) /\ Ended(q, c)' = Ended(q, c)
              /\ \A low, c : /\ InCall(q, low, c)' <=> InCall(q, low, c)
                             /\ Sent(q, low, c)' = Sent(q, low, c)
                             /\ After(q, low, c)' = After(q, low, c)
    OBVIOUS
  <2>2. Call(q)' = Call(q) /\ Datum(q)' = Datum(q) BY DEF Call, Datum
  <2>3. Current(q)' <=> Current(q) BY DEF Current
  <2>4. Pos(q)' = Pos(q) BY <2>3 DEF Pos
  <2>5. Sound(q)' => Sound(q) BY <2>3 DEF Sound
  <2>6. \A c : Pc(q, c)' = Pc(q, c) /\ Met(q, c)' = Met(q, c) BY DEF Pc, Met
  <2>7. \A low, c : InCall(q, low, c)' <=> InCall(q, low, c) BY <2>2 DEF InCall
  <2>8. \A low, c : /\ Sent(q, low, c)' = Sent(q, low, c) /\ After(q, low, c)' = After(q, low, c)
                    /\ Ended(q, c)' = Ended(q, c)
    <3>1. SUFFICES ASSUME NEW low, NEW c
          PROVE  /\ Sent(q, low, c)' = Sent(q, low, c) /\ After(q, low, c)' = After(q, low, c)
                 /\ Ended(q, c)' = Ended(q, c)
      OBVIOUS
    <3>2. /\ InCall(q, low, c)' <=> InCall(q, low, c)
          /\ InCall(q, FALSE, c)' <=> InCall(q, FALSE, c)
          /\ Pc(q, c)' = Pc(q, c)
      BY <2>6, <2>7
    <3>3. Sent(q, low, c)' = Sent(q, low, c) BY <1>1, <3>2 DEF Sent, Succ
    <3>4. After(q, low, c)' = After(q, low, c) BY <1>1, <2>3, <3>2 DEF After, Succ
    <3>5. Ended(q, c)' = Ended(q, c) BY <1>1, <3>2 DEF Ended, Succ
    <3> QED BY <3>3, <3>4, <3>5
  <2> QED BY <2>2, <2>3, <2>4, <2>5, <2>6, <2>7, <2>8
<1>3. DeviceTypes' BY <1>1 DEF DeviceTypes, Epochs
<1>4. RunsShaped'
  <2>1. SUFFICES ASSUME NEW q \in Ranks PROVE RunShaped(q)' BY DEF RunsShaped
  <2>2. RunShaped(q) BY DEF RunsShaped
  <2> QED BY <1>2, <2>2 DEF RunShaped
<1>5. FlagsWritten' BY <1>1, <1>2, FlagsKept
<1>6. PacketsWritten' BY <1>1, <1>2, PacketsKept
<1>7. StagingWritten' BY <1>1, <1>2 DEF StagingWritten
<1>8. CurrentCalls' BY DEF CurrentCalls, Current
<1>9. Lockstep'
  <2>1. SUFFICES ASSUME NEW q \in Ranks, NEW s \in Ranks, Current(q)', Sound(s)',
                        NEW c \in DOMAIN run'[q].lanes
                 PROVE  Says(s, q, c, Pc(q, c), Met(q, c))'
    BY DEF Lockstep
  <2>2. Current(q) /\ Sound(s) /\ c \in DOMAIN run[q].lanes BY <1>2, <2>1
  <2>3. Says(s, q, c, Pc(q, c), Met(q, c)) BY <2>2 DEF Lockstep
  <2> QED BY <1>2, <2>3 DEF Says, Passed
<1>10. AllTogether'
  <2>1. SUFFICES ASSUME NEW q \in Ranks, NEW s \in Ranks, Sound(q)', Sound(s)'
                 PROVE  Together(q, s)'
    BY DEF AllTogether
  <2>2. Together(q, s) BY SMTT(30), <1>2, <2>1 DEF AllTogether
  <2> QED BY <1>1, <1>2, <2>2, TogetherSame
<1>11. OldArrivalsSeen'
  <2>1. SUFFICES ASSUME NEW q \in Ranks, NEW s \in Ranks, run'[q].iteration # leader'.iteration,
                        NEW b \in DOMAIN run'[q].lanes, Spins(q, b, s)', HasArrived(s, q, b)'
                 PROVE  Arrived(q, b, s)'
    BY DEF OldArrivalsSeen
  <2>2. Spins(q, b, s) /\ HasArrived(s, q, b) BY <2>1 DEF Spins, HasArrived
  <2>3. Arrived(q, b, s) BY <2>1, <2>2 DEF OldArrivalsSeen
  <2> QED BY <1>1, <2>3 DEF Arrived, Packet, Epoch, Call, Parity
<1>12. SumsExact' BY <1>1, <1>2 DEF SumsExact
<1> QED BY <1>3, <1>4, <1>5, <1>6, <1>7, <1>8, <1>9, <1>10, <1>11, <1>12

\* What a rank that begins an iteration changes: it has no lanes, and had only
\* blocks that were done.
BeginStep(r) ==
    /\ run' \in [Ranks -> Runs]
    /\ \A q \in Ranks : q # r => run'[q] = run[q]
    /\ run'[r].iteration = leader.iteration /\ run'[r].calls = leader.calls
    /\ run'[r].limit \in 0 .. Len(leader.calls) /\ run'[r].at = 0
    /\ run'[r].lanes = <<>> /\ run'[r].trapped = FALSE
    /\ DOMAIN run'[r].lanes = {}

\* What Begin changes.
LEMMA BeginIsStep ==
    ASSUME DeviceTypes, NEW r \in Ranks, Begin(r, Job), leader.iteration \in Nat,
           leader.calls \in Seq(Calls)
    PROVE  BeginStep(r)
<1>1. PICK limit \in 0 .. Len(leader.calls) :
        run' = [run EXCEPT ![r] = [NoRun EXCEPT !.iteration = leader.iteration,
                                     !.calls = leader.calls, !.limit = limit]]
  BY DEF Begin, Job
<1>2. run \in [Ranks -> Runs] BY DEF DeviceTypes
<1>3. run'[r] = [iteration |-> leader.iteration, calls |-> leader.calls, limit |-> limit,
                 at |-> 0, lanes |-> <<>>, trapped |-> FALSE]
  BY <1>1, <1>2 DEF NoRun
<1>4. <<>> \in LaneMaps
  <2>1. <<>> \in [1 .. 0 -> Lanes] OBVIOUS
  <2>2. 0 \in 0 .. MaxBlocks BY SizeAssumption
  <2> QED BY <2>1, <2>2 DEF LaneMaps
<1>5. limit \in Nat OBVIOUS
<1>6. run'[r] \in Runs BY <1>3, <1>4, <1>5 DEF Runs
<1>7. \A q \in Ranks : q # r => run'[q] = run[q] BY <1>1, <1>2
<1>8. run' \in [Ranks -> Runs] BY <1>1, <1>2, <1>6, <1>7
<1>9. DOMAIN run'[r].lanes = {} BY <1>3
<1> QED BY <1>3, <1>7, <1>8, <1>9 DEF BeginStep

\* A rank that begins the leader's iteration joins the others before their
\* first call, or within it.
LEMMA BeginKeeps ==
    ASSUME DeviceInv, Resting, NEW r \in Ranks, BeginStep(r), UNCHANGED <<device, poisoned>>,
           leader'.iteration = leader.iteration, leader'.calls = leader.calls,
           leader.iteration \in Nat, leader.calls \in Seq(Calls),
           r \notin poisoned, run[r].iteration < leader.iteration, ~Executing(r)
    PROVE  DeviceInv'
<1> USE DEF DeviceInv
<1>1. UNCHANGED <<epochs, start, end, staging, packets, mixed, poisoned>> BY DEF device
<1>2. ~Current(r) /\ Sound(r) BY RunTypes DEF Current, Sound
<1>3. \A c \in DOMAIN run[r].lanes : Pc(r, c) = "done" BY <1>2, RestedLanes
<1>4. \A low \in BOOLEAN, c \in Blocks :
        /\ Sent(r, low, c) = epochs[r][low][c] /\ After(r, low, c) = epochs[r][low][c]
        /\ Ended(r, c) = epochs[r][FALSE][c]
  BY <1>3 DEF Sent, After, Ended, InCall
<1>5. /\ Current(r)' /\ Sound(r)' /\ Pos(r) = 0 /\ Pos(r)' = 0
      /\ \A low, c : ~InCall(r, low, c)'
  BY <1>2 DEF BeginStep, Current, Sound, Pos, InCall
<1>6. \A low \in BOOLEAN, c \in Blocks :
        /\ Sent(r, low, c)' = epochs[r][low][c] /\ After(r, low, c)' = epochs[r][low][c]
        /\ Ended(r, c)' = epochs[r][FALSE][c]
  BY <1>1, <1>5 DEF Sent, After, Ended
<1>7. ASSUME NEW q \in Ranks, q # r
      PROVE  /\ Call(q)' = Call(q) /\ Datum(q)' = Datum(q) /\ Pos(q)' = Pos(q)
             /\ (Current(q)' <=> Current(q)) /\ (Sound(q)' <=> Sound(q)) /\ run'[q] = run[q]
             /\ \A c : Pc(q, c)' = Pc(q, c) /\ Met(q, c)' = Met(q, c) /\ Ended(q, c)' = Ended(q, c)
             /\ \A low, c : /\ InCall(q, low, c)' <=> InCall(q, low, c)
                            /\ Sent(q, low, c)' = Sent(q, low, c)
                            /\ After(q, low, c)' = After(q, low, c)
  <2>1. run'[q] = run[q] BY <1>7 DEF BeginStep
  <2>2. Call(q)' = Call(q) /\ Datum(q)' = Datum(q) BY <2>1 DEF Call, Datum
  <2>3. Current(q)' <=> Current(q) BY <2>1 DEF Current
  <2>4. Pos(q)' = Pos(q) BY <2>1, <2>3 DEF Pos
  <2>5. Sound(q)' <=> Sound(q) BY <1>1, <2>3 DEF Sound
  <2>6. \A c : Pc(q, c)' = Pc(q, c) /\ Met(q, c)' = Met(q, c) BY <2>1 DEF Pc, Met
  <2>7. \A low, c : InCall(q, low, c)' <=> InCall(q, low, c) BY <2>1, <2>2 DEF InCall
  <2>8. \A low, c : /\ Sent(q, low, c)' = Sent(q, low, c) /\ After(q, low, c)' = After(q, low, c)
                    /\ Ended(q, c)' = Ended(q, c)
    <3>1. SUFFICES ASSUME NEW low, NEW c
          PROVE  /\ Sent(q, low, c)' = Sent(q, low, c) /\ After(q, low, c)' = After(q, low, c)
                 /\ Ended(q, c)' = Ended(q, c)
      OBVIOUS
    <3>2. /\ InCall(q, low, c)' <=> InCall(q, low, c)
          /\ InCall(q, FALSE, c)' <=> InCall(q, FALSE, c)
          /\ Pc(q, c)' = Pc(q, c)
      BY <2>6, <2>7
    <3>3. Sent(q, low, c)' = Sent(q, low, c) BY <1>1, <3>2 DEF Sent, Succ
    <3>4. After(q, low, c)' = After(q, low, c) BY <1>1, <2>3, <3>2 DEF After, Succ
    <3>5. Ended(q, c)' = Ended(q, c) BY <1>1, <3>2 DEF Ended, Succ
    <3> QED BY <3>3, <3>4, <3>5
  <2> QED BY <2>1, <2>2, <2>3, <2>4, <2>5, <2>6, <2>7, <2>8
<1>8. DeviceTypes'
  <2>1. run' \in [Ranks -> Runs] BY DEF BeginStep
  <2> QED BY <1>1, <2>1 DEF DeviceTypes, Epochs
<1>9. RunsShaped'
  <2>1. SUFFICES ASSUME NEW q \in Ranks PROVE RunShaped(q)' BY DEF RunsShaped
  <2>2. RunShaped(q) BY DEF RunsShaped
  <2>3. CASE q = r
    <3>1. Len(leader.calls) \in Nat OBVIOUS
    <3> QED BY <2>3, <3>1 DEF RunShaped, BeginStep
  <2>4. CASE q # r BY <1>7, <2>2, <2>4 DEF RunShaped
  <2> QED BY <2>3, <2>4
<1>10. \A q \in Ranks, low \in BOOLEAN, c \in Blocks :
         Sent(q, low, c)' = Sent(q, low, c) /\ Ended(q, c)' = Ended(q, c)
  <2>1. SUFFICES ASSUME NEW q \in Ranks, NEW low \in BOOLEAN, NEW c \in Blocks
                 PROVE  Sent(q, low, c)' = Sent(q, low, c) /\ Ended(q, c)' = Ended(q, c)
    OBVIOUS
  <2>2. CASE q = r BY ZenonT(60), <1>4, <1>6, <2>2
  <2>3. CASE q # r BY <1>7, <2>3
  <2> QED BY <2>2, <2>3
<1>11. FlagsWritten' BY <1>1, <1>10, FlagsKept
<1>12. PacketsWritten'
  <2>1. ASSUME NEW s \in Ranks, NEW c \in Blocks, (InCall(s, TRUE, c) /\ Pc(s, c) \in {"meet", "done"})'
        PROVE  InCall(s, TRUE, c) /\ Pc(s, c) \in {"meet", "done"} /\ Datum(s)' = Datum(s)
    BY <1>5, <1>7, <2>1
  <2> QED BY <1>1, <1>10, <2>1, PacketsKept
<1>13. StagingWritten' BY ZenonT(60), <1>1, <1>5, <1>7 DEF StagingWritten
<1>14. CurrentCalls'
  <2>1. SUFFICES ASSUME NEW q \in Ranks
                 PROVE  /\ run'[q].iteration <= leader'.iteration
                        /\ Current(q)' => run'[q].calls = leader'.calls
    BY DEF CurrentCalls
  <2>2. CASE q = r BY <2>2 DEF BeginStep
  <2>3. CASE q # r BY <1>7, <2>3 DEF CurrentCalls
  <2> QED BY <2>2, <2>3
<1>15. Lockstep'
  <2>1. SUFFICES ASSUME NEW q \in Ranks, NEW s \in Ranks, Current(q)', Sound(s)',
                        NEW c \in DOMAIN run'[q].lanes
                 PROVE  Says(s, q, c, Pc(q, c), Met(q, c))'
    BY DEF Lockstep
  <2>2. q # r BY DEF BeginStep
  <2>3. Current(q) /\ Sound(s) /\ c \in DOMAIN run[q].lanes BY <1>2, <1>7, <2>1, <2>2
  <2>4. Says(s, q, c, Pc(q, c), Met(q, c)) BY <2>3 DEF Lockstep
  <2>5. Pos(q) > 0 BY <2>3, LaneCall DEF Pos
  <2>6. ASSUME NEW pcs, Passed(s, q, c, pcs) PROVE Passed(s, q, c, pcs)'
    <3>1. s # r BY <1>5, <2>5, <2>6, PosType DEF Passed
    <3> QED BY <1>7, <2>2, <2>6, <3>1 DEF Passed
  <2>7. Call(q)' = Call(q) /\ Pc(q, c)' = Pc(q, c) /\ Met(q, c)' = Met(q, c) BY <1>7, <2>2
  <2> QED BY <2>4, <2>6, <2>7 DEF Says
<1>16. AllTogether'
  <2>1. SUFFICES ASSUME NEW q \in Ranks, NEW s \in Ranks, Sound(q)', Sound(s)'
                 PROVE  Together(q, s)'
    BY DEF AllTogether
  <2>2. Sound(q) /\ Sound(s) BY <1>2, <1>7, <2>1
  <2>3. Together(q, s) BY <2>2 DEF AllTogether
  <2>4. Pos(q)' = Pos(q) /\ Pos(s)' = Pos(s) BY <1>5, <1>7
  <2>5. \A low \in BOOLEAN, c \in Blocks :
          After(q, low, c)' = After(q, low, c) /\ After(s, low, c)' = After(s, low, c)
    <3>1. ASSUME NEW t \in Ranks, NEW low \in BOOLEAN, NEW c \in Blocks
          PROVE  After(t, low, c)' = After(t, low, c)
      <4>1. CASE t = r BY <1>4, <1>6, <4>1
      <4>2. CASE t # r BY <1>7, <4>2
      <4> QED BY <4>1, <4>2
    <3> QED BY <3>1
  <2>6. CASE q = r
    <3>1. (Pos(s) <= Pos(q) + 1)' BY <2>3, <2>4 DEF Together
    <3>2. ASSUME (Pos(s) = Pos(q))'
          PROVE  \A low \in BOOLEAN, c \in Blocks : After(s, low, c)' = After(q, low, c)'
      BY <2>3, <2>4, <2>5, <3>2 DEF Together
    <3>3. ASSUME (Pos(s) = Pos(q) + 1)'
          PROVE  /\ \A low \in BOOLEAN, c \in Blocks : epochs'[s][low][c] = After(q, low, c)'
                 /\ DOMAIN run'[q].lanes = {}
      <4>1. Pos(s) = Pos(q) + 1 BY <2>4, <3>3
      <4>2. \A low \in BOOLEAN, c \in Blocks : epochs[s][low][c] = After(q, low, c)
        BY <2>3, <4>1 DEF Together
      <4> QED BY <1>1, <2>5, <2>6, <4>2 DEF BeginStep
    <3> QED BY <3>1, <3>2, <3>3 DEF Together
  <2>7. CASE q # r /\ s = r
    <3>1. Pos(s)' = 0 /\ Pos(q)' \in Nat BY <1>5, <1>7, <2>7, PosType
    <3>2. (Pos(s) <= Pos(q) + 1)' /\ (Pos(s) # Pos(q) + 1)' BY <3>1
    <3>3. ASSUME (Pos(s) = Pos(q))'
          PROVE  \A low \in BOOLEAN, c \in Blocks : After(s, low, c)' = After(q, low, c)'
      BY <2>3, <2>4, <2>5, <3>3 DEF Together
    <3> QED BY <3>2, <3>3 DEF Together
  <2>8. CASE q # r /\ s # r BY SMTT(30), <1>1, <1>7, <2>3, <2>8, TogetherSame
  <2> QED BY <2>6, <2>7, <2>8
<1>17. OldArrivalsSeen'
  <2>1. SUFFICES ASSUME NEW q \in Ranks, NEW s \in Ranks, run'[q].iteration # leader'.iteration,
                        NEW b \in DOMAIN run'[q].lanes, Spins(q, b, s)', HasArrived(s, q, b)'
                 PROVE  Arrived(q, b, s)'
    BY DEF OldArrivalsSeen
  <2>2. q # r BY <2>1 DEF BeginStep
  <2>3. s # r BY <2>1 DEF BeginStep, HasArrived
  <2>4. run'[q] = run[q] /\ run'[s] = run[s] BY <1>7, <2>2, <2>3
  <2>5. Spins(q, b, s) /\ HasArrived(s, q, b) BY <2>1, <2>4 DEF Spins, HasArrived
  <2>6. Arrived(q, b, s) BY <2>1, <2>4, <2>5 DEF OldArrivalsSeen
  <2> QED BY <1>1, <2>4, <2>6 DEF Arrived, Packet, Epoch, Call, Parity
<1>18. SumsExact'
  <2>1. SUFFICES ASSUME \A q \in Ranks : Sound(q)' PROVE mixed' = {} BY DEF SumsExact
  <2>2. \A q \in Ranks : Sound(q) BY <1>2, <1>7, <2>1
  <2> QED BY <1>1, <2>2 DEF SumsExact
<1> QED BY <1>8, <1>9, <1>11, <1>12, <1>13, <1>14, <1>15, <1>16, <1>17, <1>18

\* The ranks are the leader and the followers.
LEMMA RanksAre ==
    /\ FollowerRanks \subseteq Ranks /\ 0 \in Ranks /\ 0 \notin FollowerRanks
    /\ \A r \in Ranks : r # 0 => r \in FollowerRanks
    /\ 1 \in FollowerRanks /\ Followers \in FollowerRanks
  BY SizeAssumption DEF Ranks, FollowerRanks

\* The next iteration: every rank that has not failed has finished the last.
LEMMA ExecuteKeepsDevice ==
    ASSUME IInv, Execute
    PROVE  DeviceInv'
<1> USE DEF IInv, HostInv, DeviceInv
<1>1. /\ leader.at = "idle" /\ 0 \notin poisoned
      /\ UNCHANGED <<run, poisoned, epochs, start, end, staging, packets, mixed>>
  BY DEF Execute, device
<1>2. PICK calls \in Iterations :
        leader' = [Leader0 EXCEPT !.at = "dispatch", !.next = 1,
                                  !.iteration = leader.iteration + 1, !.calls = calls]
  BY DEF Execute
<1>3. leader'.iteration = leader.iteration + 1 /\ leader.iteration \in Nat
  BY <1>2 DEF Leader0, HostTypes
<1>4. \A r \in Ranks : ~Executing(r)
  BY <1>1, RanksAre DEF LeaderKnows, Quiet, Executing
<1>5. \A r \in Ranks : RunDone(r) /\ (Succeeded(r) \/ r \in poisoned) BY <1>4 DEF Resting
<1>6. \A r \in Ranks : r \notin poisoned =>
        /\ run[r].at = Len(run[r].calls)
        /\ CallDone(r) /\ \A b \in DOMAIN run[r].lanes : Pc(r, b) = "done"
  BY <1>5 DEF RunDone, Succeeded, CallDone, Pc
<1>7. \A r \in Ranks : run[r].iteration \in Nat /\ run[r].iteration <= leader.iteration
  BY RunTypes DEF CurrentCalls
<1>8. \A r \in Ranks : /\ ~Current(r)' /\ Pos(r)' = 0 /\ (Sound(r)' <=> r \notin poisoned)
                       /\ (Sound(r)' => Sound(r))
  <2>1. \A r \in Ranks : ~Current(r)' BY <1>1, <1>3, <1>7 DEF Current
  <2> QED BY <1>1, <2>1 DEF Pos, Sound
<1>9. \A r \in Ranks :
        /\ Call(r)' = Call(r) /\ Datum(r)' = Datum(r)
        /\ \A c : Pc(r, c)' = Pc(r, c) /\ Met(r, c)' = Met(r, c) /\ Ended(r, c)' = Ended(r, c)
        /\ \A low, c : /\ InCall(r, low, c)' <=> InCall(r, low, c)
                       /\ Sent(r, low, c)' = Sent(r, low, c)
                       /\ After(r, low, c)' = epochs[r][low][c]
  <2>1. SUFFICES ASSUME NEW q \in Ranks
        PROVE /\ Call(q)' = Call(q) /\ Datum(q)' = Datum(q)
              /\ \A c : Pc(q, c)' = Pc(q, c) /\ Met(q, c)' = Met(q, c) /\ Ended(q, c)' = Ended(q, c)
              /\ \A low, c : /\ InCall(q, low, c)' <=> InCall(q, low, c)
                             /\ Sent(q, low, c)' = Sent(q, low, c)
                             /\ After(q, low, c)' = epochs[q][low][c]
    OBVIOUS
  <2>2. Call(q)' = Call(q) /\ Datum(q)' = Datum(q) BY <1>1 DEF Call, Datum
  <2>3. \A c : Pc(q, c)' = Pc(q, c) /\ Met(q, c)' = Met(q, c) BY <1>1 DEF Pc, Met
  <2>4. \A low, c : InCall(q, low, c)' <=> InCall(q, low, c) BY <1>1, <2>2 DEF InCall
  <2>5. \A low, c : /\ Sent(q, low, c)' = Sent(q, low, c) /\ After(q, low, c)' = epochs[q][low][c]
                    /\ Ended(q, c)' = Ended(q, c)
    <3>1. SUFFICES ASSUME NEW low, NEW c
          PROVE  /\ Sent(q, low, c)' = Sent(q, low, c) /\ After(q, low, c)' = epochs[q][low][c]
                 /\ Ended(q, c)' = Ended(q, c)
      OBVIOUS
    <3>2. /\ InCall(q, low, c)' <=> InCall(q, low, c)
          /\ InCall(q, FALSE, c)' <=> InCall(q, FALSE, c)
          /\ Pc(q, c)' = Pc(q, c)
      BY <2>3, <2>4
    <3>3. Sent(q, low, c)' = Sent(q, low, c) BY <1>1, <3>2 DEF Sent, Succ
    <3>4. After(q, low, c)' = epochs[q][low][c] BY <1>1, <1>8 DEF After
    <3>5. Ended(q, c)' = Ended(q, c) BY <1>1, <3>2 DEF Ended, Succ
    <3> QED BY <3>3, <3>4, <3>5
  <2> QED BY <2>2, <2>3, <2>4, <2>5
<1>10. DeviceTypes' BY <1>1 DEF DeviceTypes, Epochs
<1>11. RunsShaped'
  <2>1. SUFFICES ASSUME NEW q \in Ranks PROVE RunShaped(q)' BY DEF RunsShaped
  <2>2. RunShaped(q) BY DEF RunsShaped
  <2> QED BY <1>1, <1>9, <2>2 DEF RunShaped
<1>12. FlagsWritten' BY <1>1, <1>9, FlagsKept
<1>13. PacketsWritten' BY <1>1, <1>9, PacketsKept
<1>14. StagingWritten' BY <1>1, <1>9 DEF StagingWritten
<1>15. CurrentCalls'
  <2>1. \A r \in Ranks : run'[r].iteration <= leader'.iteration BY <1>1, <1>3, <1>7
  <2> QED BY <1>8, <2>1 DEF CurrentCalls
<1>16. Lockstep' BY <1>8 DEF Lockstep
<1>17. Coherent BY DEF Coherent
<1>18. ASSUME NEW r \in Ranks, NEW s \in Ranks, r \notin poisoned, s \notin poisoned
       PROVE  Pos(s) >= Pos(r)
  <2>1. CASE Current(r) BY <1>6, <1>17, <1>18, <2>1, DonePassed DEF Sound
  <2>2. CASE ~Current(r) BY <2>2, PosType DEF Pos
  <2> QED BY <2>1, <2>2
<1>19. AllTogether'
  <2>1. SUFFICES ASSUME NEW q \in Ranks, NEW s \in Ranks, Sound(q)', Sound(s)'
                 PROVE  Together(q, s)'
    BY DEF AllTogether
  <2>2. q \notin poisoned /\ s \notin poisoned /\ Sound(q) /\ Sound(s) BY <1>8, <2>1
  <2>3. Together(q, s) BY <2>2 DEF AllTogether
  <2>4. Pos(s) = Pos(q) BY <1>18, <2>2, PosType
  <2>5. \A low \in BOOLEAN, c \in Blocks : epochs[s][low][c] = epochs[q][low][c]
    <3>1. \A low \in BOOLEAN, c \in Blocks : After(s, low, c) = After(q, low, c)
      BY <2>3, <2>4 DEF Together
    <3>2. \A low \in BOOLEAN, c \in Blocks :
            After(s, low, c) = epochs[s][low][c] /\ After(q, low, c) = epochs[q][low][c]
      BY <1>6, <2>2 DEF After, InCall
    <3> QED BY <3>1, <3>2
  <2>6. (Pos(s) <= Pos(q) + 1)' /\ (Pos(s) # Pos(q) + 1)' BY <1>8
  <2>7. \A low \in BOOLEAN, c \in Blocks : After(s, low, c)' = After(q, low, c)' BY SMTT(30), <1>9, <2>5
  <2> QED BY <2>6, <2>7 DEF Together
<1>20. OldArrivalsSeen'
  <2>1. SUFFICES ASSUME NEW q \in Ranks, NEW s \in Ranks, run'[q].iteration # leader'.iteration,
                        NEW b \in DOMAIN run'[q].lanes, Spins(q, b, s)', HasArrived(s, q, b)'
                 PROVE  Arrived(q, b, s)'
    BY DEF OldArrivalsSeen
  <2>2. b \in DOMAIN run[q].lanes /\ Spins(q, b, s) /\ HasArrived(s, q, b)
    BY <1>1, <2>1 DEF Spins, HasArrived
  <2>3. Arrived(q, b, s) BY <1>17, <2>2, SeenArrivals DEF ArrivalsAreSeen
  <2> QED BY <1>1, <2>3 DEF Arrived, Packet, Epoch, Call, Parity
<1>21. SumsExact'
  <2>1. SUFFICES ASSUME \A q \in Ranks : Sound(q)' PROVE mixed' = {} BY DEF SumsExact
  <2>2. \A q \in Ranks : Sound(q) BY <1>8, <2>1
  <2> QED BY <1>1, <2>2 DEF SumsExact
<1> QED BY <1>10, <1>11, <1>12, <1>13, <1>14, <1>15, <1>16, <1>19, <1>20, <1>21

\* The leader takes a new iteration: every rank that has not failed is done
\* with the one before.
LEMMA ExecuteKeeps ==
    ASSUME IInv, Execute
    PROVE  IInv'
<1> USE DEF IInv, HostInv
<1>1. /\ leader.at = "idle" /\ 0 \notin poisoned /\ pending = 0
      /\ \A f \in FollowerRanks : Quiet(f)
      /\ UNCHANGED <<pending, inbox, replies, thread, poisoned, run>>
  BY DEF Execute, LeaderKnows
<1>2. PICK calls \in Iterations :
        leader' = [Leader0 EXCEPT !.at = "dispatch", !.next = 1,
                                  !.iteration = leader.iteration + 1, !.calls = calls]
  BY DEF Execute
<1>3. calls \in Seq(Calls) BY CallAssumption DEF Calls, Blocks
<1>4. leader.iteration \in Nat BY DEF HostTypes
<1>5. leader' = [at |-> "dispatch", next |-> 1, iteration |-> leader.iteration + 1,
                 calls |-> calls, result |-> "none", failed |-> FALSE]
  BY <1>2 DEF Leader0
<1>6. HostTypes'
  <2>1. leader' \in [at : {"idle", "dispatch", "begin", "executing", "wait", "close", "join",
                           "closed"},
                     next : Nat, iteration : Nat, calls : Seq(Calls),
                     result : {"none", "ok", "error"}, failed : BOOLEAN]
    BY <1>3, <1>4, <1>5
  <2>2. inbox' \in [FollowerRanks -> {<<>>, <<Job'>>}] BY <1>1 DEF HostTypes, Quiet
  <2> QED BY <1>1, <2>1, <2>2 DEF HostTypes
<1>7. \A r \in Ranks : ~Executing(r) /\ ~Executing(r)'
  BY <1>1, <1>5, RanksAre DEF Quiet, Executing
<1>8. Resting'
  <2>1. \A r \in Ranks : RunDone(r) /\ (Succeeded(r) \/ r \in poisoned) BY <1>7 DEF Resting
  <2>2. \A r \in Ranks : RunDone(r)' /\ (Succeeded(r)' \/ r \in poisoned')
    BY <1>1, <2>1 DEF RunDone, Succeeded, CallDone
  <2> QED BY <1>7, <2>2 DEF Resting
<1>9. JobsOnce' BY <1>1 DEF JobsOnce, Quiet
<1>10. LeaderKnows'
  <2>1. \A r \in Ranks : run'[r].iteration < leader'.iteration
    <3>1. \A r \in Ranks : run[r].iteration \in Nat /\ run[r].iteration <= leader.iteration
      BY RunTypes DEF CurrentCalls, DeviceInv
    <3> QED BY <1>1, <1>4, <1>5, <3>1
  <2>2. \A f \in FollowerRanks : Quiet(f)' BY <1>1 DEF Quiet
  <2>3. leader'.next .. Followers \subseteq FollowerRanks BY <1>5 DEF FollowerRanks
  <2> QED BY <1>1, <1>5, <2>1, <2>2, <2>3, RanksAre DEF LeaderKnows
<1> QED BY <1>6, <1>8, <1>9, <1>10, ExecuteKeepsDevice

\* The followers that the leader still has to send to, or has collected from.
LEMMA CountedRanks ==
    ASSUME LeaderKnows
    PROVE  /\ leader.at = "dispatch" => \A g \in leader.next .. Followers : g \in FollowerRanks
           /\ leader.at = "wait" => \A g \in 1 .. leader.next - 1 : g \in FollowerRanks
<1>1. Followers \in Nat BY SizeAssumption
<1>2. ASSUME leader.at = "dispatch"
      PROVE  \A g \in leader.next .. Followers : g \in FollowerRanks
  <2>1. leader.next \in 1 .. Followers BY <1>2 DEF LeaderKnows, FollowerRanks
  <2> QED BY <1>1, <2>1 DEF FollowerRanks
<1>3. ASSUME leader.at = "wait"
      PROVE  \A g \in 1 .. leader.next - 1 : g \in FollowerRanks
  <2>1. leader.next \in 1 .. Followers + 1 BY <1>3 DEF LeaderKnows
  <2> QED BY <1>1, <2>1 DEF FollowerRanks
<1> QED BY <1>2, <1>3

\* A device that moves leaves what the hosts know about.
LEMMA DeviceKeepsHost ==
    ASSUME IInv, NEW r \in Ranks, Device(r)
    PROVE  HostInv'
<1> USE DEF IInv, HostInv, DeviceInv
<1>1. Executing(r) BY DeviceRuns
<1>2. /\ UNCHANGED <<leader, pending, inbox, replies, thread, poisoned>>
      /\ \A q \in Ranks : q # r => run'[q] = run[q]
      /\ run'[r].iteration = run[r].iteration
  BY DeviceLocal DEF host
<1>3. \A q \in Ranks : run'[q].iteration = run[q].iteration /\ (Executing(q)' <=> Executing(q))
  BY <1>2 DEF Executing
<1>4. HostTypes' BY <1>2 DEF HostTypes, Job
<1>5. Resting'
  <2>1. SUFFICES ASSUME NEW q \in Ranks
        PROVE (IF Executing(q) THEN Current(q) /\ q \notin poisoned /\ leader.iteration > 0
               ELSE RunDone(q) /\ (Succeeded(q) \/ q \in poisoned))'
    BY DEF Resting
  <2>2. CASE Executing(q)
    <3>1. Current(q) /\ q \notin poisoned /\ leader.iteration > 0 BY <2>2 DEF Resting
    <3> QED BY <1>2, <1>3, <2>2, <3>1 DEF Current
  <2>3. CASE ~Executing(q)
    <3>1. RunDone(q) /\ (Succeeded(q) \/ q \in poisoned) BY <2>3 DEF Resting
    <3>2. run'[q] = run[q] BY <1>1, <1>2, <2>3
    <3> QED BY <1>2, <1>3, <2>3, <3>1, <3>2 DEF RunDone, Succeeded, CallDone
  <2> QED BY <2>2, <2>3
<1>6. JobsOnce' BY <1>2, <1>3, RanksAre DEF JobsOnce, Current
<1>7. LeaderKnows'
  <2>1. \A q \in Ranks : Current(q)' <=> Current(q) BY <1>2, <1>3 DEF Current
  <2>2. \A q : Quiet(q)' <=> Quiet(q) BY <1>2 DEF Quiet
  <2>3. /\ leader.at = "dispatch" => \A f \in leader.next .. Followers : f \in Ranks
        /\ leader.at = "wait" => \A f \in 1 .. leader.next - 1 : f \in Ranks
    BY CountedRanks, RanksAre
  <2> QED BY <1>2, <1>3, <2>1, <2>2, <2>3, RanksAre DEF LeaderKnows
<1> QED BY <1>4, <1>5, <1>6, <1>7

\* What a follower's step leaves alone.
FollowerStep(f) ==
    /\ leader' = leader /\ pending' = pending
    /\ \A g \in FollowerRanks : g # f =>
         /\ inbox'[g] = inbox[g] /\ replies'[g] = replies[g] /\ thread'[g] = thread[g]
    /\ \A q \in Ranks : q # f => run'[q] = run[q] /\ (q \in poisoned' <=> q \in poisoned)

\* The rest of the host's invariant when a follower that has something of the
\* leader's acts: the leader does not count on it yet.
LEMMA FollowerKeeps ==
    ASSUME HostInv, NEW f \in FollowerRanks, FollowerStep(f), ~Quiet(f), HostTypes',
           (IF Executing(f) THEN Current(f) /\ f \notin poisoned /\ leader.iteration > 0
            ELSE RunDone(f) /\ (Succeeded(f) \/ f \in poisoned))',
           (inbox[f] = <<>>)', (thread[f] = "executing" => replies[f] = <<>>)',
           (replies[f] = <<"ok">> => Current(f) /\ f \notin poisoned /\ ~Executing(f))'
    PROVE  HostInv'
<1> USE DEF HostInv
<1>1. f \in Ranks /\ f # 0 BY RanksAre
<1>2. leader' = leader /\ pending' = pending BY DEF FollowerStep
<1>3. \A q \in Ranks : q # f =>
        /\ run'[q] = run[q] /\ (q \in poisoned' <=> q \in poisoned)
        /\ (Executing(q)' <=> Executing(q)) /\ (Current(q)' <=> Current(q))
  BY RanksAre DEF FollowerStep, Executing, Current
<1>4. Resting'
  <2>1. SUFFICES ASSUME NEW q \in Ranks
        PROVE (IF Executing(q) THEN Current(q) /\ q \notin poisoned /\ leader.iteration > 0
               ELSE RunDone(q) /\ (Succeeded(q) \/ q \in poisoned))'
    BY DEF Resting
  <2>2. CASE q = f BY <2>2
  <2>3. CASE q # f
    <3>1. IF Executing(q) THEN Current(q) /\ q \notin poisoned /\ leader.iteration > 0
          ELSE RunDone(q) /\ (Succeeded(q) \/ q \in poisoned)
      BY DEF Resting
    <3> QED BY <1>2, <1>3, <2>3, <3>1 DEF RunDone, Succeeded, CallDone
  <2> QED BY <2>2, <2>3
<1>5. JobsOnce'
  <2>1. SUFFICES ASSUME NEW g \in FollowerRanks
        PROVE  (/\ inbox[g] # <<>> =>
                     replies[g] = <<>> /\ thread[g] = "waiting" /\ run[g].iteration < leader.iteration
                /\ thread[g] = "executing" => replies[g] = <<>>
                /\ replies[g] = <<"ok">> => Current(g) /\ g \notin poisoned /\ ~Executing(g))'
    BY DEF JobsOnce
  <2>2. CASE g = f BY <2>2
  <2>3. CASE g # f
    <3>1. inbox'[g] = inbox[g] /\ replies'[g] = replies[g] /\ thread'[g] = thread[g]
      BY <2>3 DEF FollowerStep
    <3>2. /\ run'[g] = run[g] /\ (g \in poisoned' <=> g \in poisoned)
          /\ (Executing(g)' <=> Executing(g)) /\ (Current(g)' <=> Current(g))
      BY <1>3, <2>3, RanksAre
    <3> QED BY <1>2, <3>1, <3>2 DEF JobsOnce
  <2> QED BY <2>2, <2>3
<1>6. \A g \in FollowerRanks : g # f => (Quiet(g)' <=> Quiet(g))
  BY DEF FollowerStep, Quiet
<1>7. /\ leader.at = "dispatch" => \A g \in leader.next .. Followers : g \in FollowerRanks
      /\ leader.at = "wait" => \A g \in 1 .. leader.next - 1 : g \in FollowerRanks
  BY CountedRanks
<1>8. LeaderKnows'
  <2>1. ~(leader.at = "idle" /\ 0 \notin poisoned) BY DEF LeaderKnows
  <2>2. 0 \in poisoned' <=> 0 \in poisoned BY <1>1, <1>3, RanksAre
  <2>3. leader.at = "dispatch" =>
          /\ leader.next \in FollowerRanks /\ pending = leader.next - 1
          /\ \A g \in leader.next .. Followers : Quiet(g)' /\ run'[g].iteration < leader.iteration
    <3>1. SUFFICES ASSUME leader.at = "dispatch"
          PROVE  /\ leader.next \in FollowerRanks /\ pending = leader.next - 1
                 /\ \A g \in leader.next .. Followers :
                        Quiet(g)' /\ run'[g].iteration < leader.iteration
      OBVIOUS
    <3>2. /\ leader.next \in FollowerRanks /\ pending = leader.next - 1
          /\ \A g \in leader.next .. Followers : Quiet(g) /\ run[g].iteration < leader.iteration
      BY <3>1 DEF LeaderKnows
    <3>3. \A g \in leader.next .. Followers : g # f BY <3>2
    <3> QED BY <1>3, <1>6, <1>7, <3>1, <3>2, <3>3, RanksAre
  <2>4. leader.at \in {"dispatch", "begin"} => 0 \notin poisoned /\ run'[0].iteration < leader.iteration
    BY <1>1, <1>3, RanksAre DEF LeaderKnows
  <2>5. leader.at = "wait" =>
          /\ leader.next \in 1 .. Followers + 1 /\ pending = Followers + 1 - leader.next
          /\ leader.result \in {"ok", "error"}
          /\ leader.result = "ok" => Current(0)' /\ 0 \notin poisoned
          /\ \A g \in 1 .. leader.next - 1 :
               Quiet(g)' /\ (leader.failed \/ (Current(g)' /\ g \notin poisoned'))
    <3>1. SUFFICES ASSUME leader.at = "wait"
          PROVE  /\ leader.next \in 1 .. Followers + 1 /\ pending = Followers + 1 - leader.next
                 /\ leader.result \in {"ok", "error"}
                 /\ leader.result = "ok" => Current(0)' /\ 0 \notin poisoned
                 /\ \A g \in 1 .. leader.next - 1 :
                      Quiet(g)' /\ (leader.failed \/ (Current(g)' /\ g \notin poisoned'))
      OBVIOUS
    <3>2. /\ leader.next \in 1 .. Followers + 1 /\ pending = Followers + 1 - leader.next
          /\ leader.result \in {"ok", "error"}
          /\ leader.result = "ok" => Current(0) /\ 0 \notin poisoned
          /\ \A g \in 1 .. leader.next - 1 :
               Quiet(g) /\ (leader.failed \/ (Current(g) /\ g \notin poisoned))
      BY <3>1 DEF LeaderKnows
    <3>3. \A g \in 1 .. leader.next - 1 : g # f BY <3>2
    <3>4. Current(0)' <=> Current(0) BY <1>1, <1>3, RanksAre
    <3> QED BY <1>3, <1>6, <1>7, <3>1, <3>2, <3>3, <3>4, RanksAre
  <2>6. ~(leader.at = "idle" /\ leader.result = "ok")
    <3>1. leader.at = "idle" /\ leader.result = "ok" => 0 \notin poisoned
      BY RanksAre DEF LeaderKnows
    <3> QED BY <2>1, <3>1
  <2>7. /\ leader.at \in {"begin", "executing"} => pending = Followers
        /\ leader.at \in {"dispatch", "begin", "executing"} =>
             leader.result = "none" /\ ~leader.failed
        /\ leader.at = "close" => leader.next # 0
    BY DEF LeaderKnows
  <2> QED BY ONLY <1>2, <2>1, <2>2, <2>3, <2>4, <2>5, <2>6, <2>7 DEF LeaderKnows
<1> QED BY <1>4, <1>5, <1>8

\* A follower that is done answers, and is poisoned if it failed.
LEMMA FollowerRepliesKeeps ==
    ASSUME IInv, NEW f \in FollowerRanks, FollowerReplies(f)
    PROVE  IInv'
<1> USE DEF IInv, HostInv
<1>1. /\ thread[f] = "executing" /\ RunDone(f)
      /\ UNCHANGED <<leader, pending, inbox, run, device, faults>>
      /\ poisoned' = IF Succeeded(f) THEN poisoned ELSE poisoned \cup {f}
  BY DEF FollowerReplies, PoisonIfFailed
<1>2. f \in Ranks /\ f # 0 BY RanksAre
<1>3. replies[f] = <<>> /\ inbox[f] = <<>> /\ Executing(f) /\ ~Quiet(f)
  BY <1>1, <1>2 DEF JobsOnce, Executing, Quiet
<1>4. Current(f) /\ f \notin poisoned BY <1>2, <1>3 DEF Resting
<1>5. PICK result \in {"ok", "error"} :
        /\ result = "ok" <=> Succeeded(f)
        /\ replies' = [replies EXCEPT ![f] = <<result>>]
        /\ thread' = [thread EXCEPT ![f] = "waiting"]
  <2>1. /\ replies' = [replies EXCEPT ![f] = Append(@, IF Succeeded(f) THEN "ok" ELSE "error")]
        /\ thread' = [thread EXCEPT ![f] = "waiting"]
    BY DEF FollowerReplies, Reply
  <2>2. Append(<<>>, "ok") = <<"ok">> /\ Append(<<>>, "error") = <<"error">> OBVIOUS
  <2>3. CASE Succeeded(f)
    <3>1. replies' = [replies EXCEPT ![f] = <<"ok">>] BY <1>3, <2>1, <2>2, <2>3 DEF HostTypes
    <3> QED BY <2>1, <2>3, <3>1
  <2>4. CASE ~Succeeded(f)
    <3>1. replies' = [replies EXCEPT ![f] = <<"error">>] BY <1>3, <2>1, <2>2, <2>4 DEF HostTypes
    <3> QED BY <2>1, <2>4, <3>1
  <2> QED BY <2>3, <2>4
<1>6. HostTypes'
  <2>1. replies' \in [FollowerRanks -> {<<>>, <<"ok">>, <<"error">>}] BY <1>5 DEF HostTypes
  <2>2. thread' \in [FollowerRanks -> {"waiting", "executing", "stopped"}] BY <1>5 DEF HostTypes
  <2> QED BY <1>1, <1>2, <2>1, <2>2 DEF HostTypes, Job
<1>7. FollowerStep(f)
  <2>1. \A g \in FollowerRanks : g # f => replies'[g] = replies[g] /\ thread'[g] = thread[g]
    BY <1>5 DEF HostTypes
  <2>2. \A q \in Ranks : q # f => (q \in poisoned' <=> q \in poisoned) BY <1>1
  <2> QED BY <1>1, <2>1, <2>2 DEF FollowerStep
<1>8. thread'[f] = "waiting" /\ replies'[f] = <<result>> BY <1>5 DEF HostTypes
<1>9. ~Executing(f)' BY <1>2, <1>8 DEF Executing
<1>10. RunDone(f)' /\ (Succeeded(f)' <=> Succeeded(f)) /\ Current(f)'
  BY <1>1, <1>4 DEF RunDone, CallDone, Succeeded, Current
<1>11. Succeeded(f)' \/ f \in poisoned' BY <1>1, <1>10
<1>12. result = "ok" => f \notin poisoned' BY <1>1, <1>4, <1>5
<1>13. HostInv'
  <2>1. (IF Executing(f) THEN Current(f) /\ f \notin poisoned /\ leader.iteration > 0
         ELSE RunDone(f) /\ (Succeeded(f) \/ f \in poisoned))'
    BY <1>9, <1>10, <1>11
  <2>2. (inbox[f] = <<>>)' /\ (thread[f] = "executing" => replies[f] = <<>>)' BY <1>1, <1>3, <1>8
  <2>3. (replies[f] = <<"ok">> => Current(f) /\ f \notin poisoned /\ ~Executing(f))'
    BY <1>8, <1>9, <1>10, <1>12
  <2> QED BY <1>3, <1>6, <1>7, <2>1, <2>2, <2>3, FollowerKeeps
<1>14. DeviceInv'
  <2>1. poisoned \subseteq poisoned' BY <1>1
  <2> QED BY <1>1, <2>1, HostKeepsDevice
<1> QED BY <1>13, <1>14

\* A follower takes the job: refuses it, begins it or dies.
LEMMA FollowerTakesKeeps ==
    ASSUME IInv, NEW f \in FollowerRanks, FollowerTakes(f)
    PROVE  IInv'
<1> USE DEF IInv, HostInv
<1>1. /\ thread[f] = "waiting" /\ inbox[f] # <<>>
      /\ UNCHANGED <<leader, pending, poisoned, device>>
      /\ inbox' = [inbox EXCEPT ![f] = Tail(@)]
  BY DEF FollowerTakes
<1>2. f \in Ranks /\ f # 0 BY RanksAre
<1>3. /\ inbox[f] = <<Job>> /\ replies[f] = <<>> /\ run[f].iteration < leader.iteration
      /\ ~Executing(f) /\ ~Quiet(f)
  BY <1>1, <1>2 DEF JobsOnce, HostTypes, Executing, Quiet
<1>4. inbox' = [inbox EXCEPT ![f] = <<>>]
  <2>1. Tail(<<Job>>) = <<>> OBVIOUS
  <2> QED BY <1>1, <1>3, <2>1 DEF HostTypes
<1>5. /\ inbox' \in [FollowerRanks -> {<<>>, <<Job'>>}] /\ inbox'[f] = <<>>
      /\ \A g \in FollowerRanks : g # f => inbox'[g] = inbox[g]
  BY <1>1, <1>4 DEF HostTypes, Job
<1>6. RunDone(f) /\ (Succeeded(f) \/ f \in poisoned) BY <1>2, <1>3 DEF Resting
<1>7. ASSUME run' = run, replies' = [replies EXCEPT ![f] = Append(@, "error")],
             thread' = [thread EXCEPT ![f] = "waiting"]
      PROVE  IInv'
  <2>1. Append(<<>>, "error") = <<"error">> OBVIOUS
  <2>2. replies' = [replies EXCEPT ![f] = <<"error">>] BY <1>3, <1>7, <2>1 DEF HostTypes
  <2>3. /\ replies' \in [FollowerRanks -> {<<>>, <<"ok">>, <<"error">>}]
        /\ replies'[f] = <<"error">> /\ thread'[f] = "waiting"
        /\ thread' \in [FollowerRanks -> {"waiting", "executing", "stopped"}]
        /\ \A g \in FollowerRanks : g # f => replies'[g] = replies[g] /\ thread'[g] = thread[g]
    BY <1>7, <2>2 DEF HostTypes
  <2>4. HostTypes' BY <1>1, <1>5, <2>3 DEF HostTypes
  <2>5. FollowerStep(f) BY <1>1, <1>5, <1>7, <2>3 DEF FollowerStep
  <2>6. ~Executing(f)' BY <1>2, <2>3 DEF Executing
  <2>7. RunDone(f)' /\ (Succeeded(f)' \/ f \in poisoned')
    BY <1>1, <1>6, <1>7 DEF RunDone, Succeeded, CallDone
  <2>8. HostInv' BY <1>3, <1>5, <2>3, <2>4, <2>5, <2>6, <2>7, FollowerKeeps
  <2>9. DeviceInv' BY <1>1, <1>7, HostKeepsDevice
  <2> QED BY <2>8, <2>9
<1>8. ASSUME run' = run, replies' = replies, thread' = [thread EXCEPT ![f] = "stopped"]
      PROVE  IInv'
  <2>3. /\ thread'[f] = "stopped"
        /\ thread' \in [FollowerRanks -> {"waiting", "executing", "stopped"}]
        /\ \A g \in FollowerRanks : g # f => thread'[g] = thread[g]
    BY <1>8 DEF HostTypes
  <2>4. HostTypes' BY <1>1, <1>5, <1>8, <2>3 DEF HostTypes
  <2>5. FollowerStep(f) BY <1>1, <1>5, <1>8, <2>3 DEF FollowerStep
  <2>6. ~Executing(f)' BY <1>2, <2>3 DEF Executing
  <2>7. RunDone(f)' /\ (Succeeded(f)' \/ f \in poisoned')
    BY <1>1, <1>6, <1>8 DEF RunDone, Succeeded, CallDone
  <2>8. HostInv' BY <1>3, <1>5, <1>8, <2>3, <2>4, <2>5, <2>6, <2>7, FollowerKeeps
  <2>9. DeviceInv' BY <1>1, <1>8, HostKeepsDevice
  <2> QED BY <2>8, <2>9
<1>9. ASSUME f \notin poisoned, Begin(f, Job), thread' = [thread EXCEPT ![f] = "executing"],
             replies' = replies
      PROVE  IInv'
  <2>1. leader.iteration \in Nat /\ leader.calls \in Seq(Calls) BY DEF HostTypes
  <2>2. BeginStep(f) BY <1>2, <1>9, <2>1, BeginIsStep DEF DeviceInv
  <2>3. /\ thread'[f] = "executing"
        /\ thread' \in [FollowerRanks -> {"waiting", "executing", "stopped"}]
        /\ \A g \in FollowerRanks : g # f => thread'[g] = thread[g]
    BY <1>9 DEF HostTypes
  <2>4. HostTypes' BY <1>1, <1>5, <1>9, <2>3 DEF HostTypes
  <2>5. FollowerStep(f)
    BY <1>1, <1>5, <1>9, <2>2, <2>3 DEF FollowerStep, BeginStep
  <2>6. Executing(f)' BY <1>2, <2>3 DEF Executing
  <2>7. Current(f)' BY <1>1, <2>2 DEF Current, BeginStep
  <2>8. leader'.iteration > 0
    <3>1. run[f].iteration \in Nat BY <1>2, RunTypes DEF DeviceInv
    <3> QED BY <1>1, <1>3, <2>1, <3>1
  <2>9. HostInv'
    <3>1. (IF Executing(f) THEN Current(f) /\ f \notin poisoned /\ leader.iteration > 0
           ELSE RunDone(f) /\ (Succeeded(f) \/ f \in poisoned))'
      BY <1>1, <1>9, <2>6, <2>7, <2>8
    <3>2. (inbox[f] = <<>>)' /\ (thread[f] = "executing" => replies[f] = <<>>)'
      BY <1>3, <1>5, <1>9
    <3>3. (replies[f] = <<"ok">> => Current(f) /\ f \notin poisoned /\ ~Executing(f))'
      BY <1>3, <1>9
    <3> QED BY <1>3, <2>4, <2>5, <3>1, <3>2, <3>3, FollowerKeeps
  <2>10. DeviceInv' BY <1>1, <1>2, <1>3, <1>9, <2>1, <2>2, BeginKeeps
  <2> QED BY <2>9, <2>10
<1>10. Head(inbox[f]) = Job BY <1>3
<1> QED BY <1>7, <1>8, <1>9, <1>10 DEF FollowerTakes, Reply

\* A follower stops when the leader has hung up.
LEMMA FollowerEndsKeeps ==
    ASSUME IInv, NEW f \in FollowerRanks, FollowerEnds(f)
    PROVE  IInv'
<1> USE DEF IInv, HostInv
<1>1. /\ thread[f] = "waiting" /\ inbox[f] = <<>> /\ leader.at = "join"
      /\ thread' = [thread EXCEPT ![f] = "stopped"]
      /\ UNCHANGED <<leader, pending, inbox, replies, poisoned, run, device, faults>>
  BY DEF FollowerEnds
<1>2. HostTypes' BY <1>1 DEF HostTypes, Job
<1>3. \A g \in FollowerRanks : thread'[g] = IF g = f THEN "stopped" ELSE thread[g]
  BY <1>1 DEF HostTypes
<1>4. \A r \in Ranks : Executing(r)' <=> Executing(r) BY <1>1, <1>3, RanksAre DEF Executing
<1>5. Resting' BY <1>1, <1>4 DEF Resting, RunDone, Succeeded, CallDone, Current
<1>6. JobsOnce' BY <1>1, <1>3, <1>4, RanksAre DEF JobsOnce, Current
<1>7. LeaderKnows' BY <1>1 DEF LeaderKnows
<1>8. DeviceInv' BY <1>1, HostKeepsDevice
<1> QED BY <1>2, <1>5, <1>6, <1>7, <1>8

\* What a rank that executes nothing leaves in place.
LEMMA RestingKept ==
    ASSUME Resting, run' = run, poisoned \subseteq poisoned', leader'.iteration = leader.iteration,
           NEW r \in Ranks, Executing(r)' <=> Executing(r), Executing(r) => r \notin poisoned'
    PROVE  (IF Executing(r) THEN Current(r) /\ r \notin poisoned /\ leader.iteration > 0
            ELSE RunDone(r) /\ (Succeeded(r) \/ r \in poisoned))'
<1>1. IF Executing(r) THEN Current(r) /\ r \notin poisoned /\ leader.iteration > 0
      ELSE RunDone(r) /\ (Succeeded(r) \/ r \in poisoned)
  BY DEF Resting
<1> QED BY <1>1 DEF Current, RunDone, Succeeded, CallDone

\* The leader sends the job to the next follower, or gives up and is poisoned.
LEMMA DispatchKeeps ==
    ASSUME IInv, Dispatch
    PROVE  IInv'
<1> USE DEF IInv, HostInv
<1>1. leader.at = "dispatch" /\ UNCHANGED <<replies, thread, run, device, faults>>
  BY DEF Dispatch
<1>2. PICK f \in FollowerRanks : f = leader.next BY <1>1 DEF LeaderKnows
<1>3. /\ Quiet(f) /\ pending = f - 1 /\ leader.result = "none" /\ ~leader.failed
      /\ 0 \notin poisoned /\ run[0].iteration < leader.iteration
      /\ \A g \in f .. Followers : Quiet(g) /\ run[g].iteration < leader.iteration
      /\ f \in f .. Followers
  BY <1>1, <1>2 DEF LeaderKnows, FollowerRanks
<1>4. \A g \in FollowerRanks : g # 0 /\ g \in Ranks BY RanksAre
<1>5. CASE thread[f] = "stopped"
  <2>1. /\ leader' = [leader EXCEPT !.at = "idle", !.result = "error"]
        /\ poisoned' = poisoned \cup {0} /\ UNCHANGED <<pending, inbox>>
    BY <1>2, <1>5 DEF Dispatch
  <2>2. /\ leader'.at = "idle" /\ leader'.result = "error"
        /\ leader'.iteration = leader.iteration /\ leader'.calls = leader.calls
    BY <2>1 DEF HostTypes
  <2>3. HostTypes' BY <1>1, <2>1, RanksAre DEF HostTypes, Job
  <2>4. \A r \in Ranks : (Executing(r)' <=> Executing(r)) /\ (Executing(r) => r # 0)
    BY <1>1, <2>2 DEF Executing
  <2>5. Resting'
    <3>1. ASSUME NEW r \in Ranks
          PROVE  (IF Executing(r) THEN Current(r) /\ r \notin poisoned /\ leader.iteration > 0
                  ELSE RunDone(r) /\ (Succeeded(r) \/ r \in poisoned))'
      <4>1. Executing(r) => r \notin poisoned' BY <2>1, <2>4 DEF Resting
      <4> QED BY <1>1, <2>1, <2>2, <2>4, <4>1, RestingKept
    <3> QED BY <3>1 DEF Resting
  <2>6. JobsOnce' BY <1>1, <1>4, <2>1, <2>2, <2>4 DEF JobsOnce, Current
  <2>7. LeaderKnows' BY <2>1, <2>2 DEF LeaderKnows
  <2>8. DeviceInv' BY <1>1, <2>1, <2>2, HostKeepsDevice
  <2> QED BY <2>3, <2>5, <2>6, <2>7, <2>8
<1>6. CASE thread[f] # "stopped"
  <2>1. /\ inbox[f] = <<>> /\ inbox' = [inbox EXCEPT ![f] = <<Job>>] /\ pending' = pending + 1
        /\ leader' = IF f = Followers THEN [leader EXCEPT !.at = "begin"]
                     ELSE [leader EXCEPT !.next = f + 1]
        /\ poisoned' = poisoned
    BY <1>2, <1>6 DEF Dispatch
  <2>2. f \in Nat /\ f <= Followers /\ Followers \in Nat BY SizeAssumption DEF FollowerRanks
  <2>3. /\ leader'.iteration = leader.iteration /\ leader'.calls = leader.calls
        /\ leader'.result = "none" /\ leader'.failed = FALSE
        /\ IF f = Followers THEN leader'.at = "begin"
           ELSE leader'.at = "dispatch" /\ leader'.next = f + 1
    BY <1>1, <1>3, <2>1 DEF HostTypes
  <2>4. Job' = Job BY <2>3 DEF Job
  <2>5. inbox' \in [FollowerRanks -> {<<>>, <<Job'>>}]
    BY <2>1, <2>4 DEF HostTypes
  <2>6. HostTypes' BY SMTT(30), <1>1, <2>1, <2>2, <2>5 DEF HostTypes
  <2>7. \A r \in Ranks : Executing(r)' <=> Executing(r) BY <1>1, <2>3 DEF Executing
  <2>8. Resting'
    <3>1. ASSUME NEW r \in Ranks
          PROVE  (IF Executing(r) THEN Current(r) /\ r \notin poisoned /\ leader.iteration > 0
                  ELSE RunDone(r) /\ (Succeeded(r) \/ r \in poisoned))'
      <4>1. Executing(r) => r \notin poisoned' BY <2>1 DEF Resting
      <4> QED BY <1>1, <2>1, <2>3, <2>7, <4>1, RestingKept
    <3> QED BY <3>1 DEF Resting
  <2>9. \A g \in FollowerRanks : g # f => inbox'[g] = inbox[g] BY <2>1 DEF HostTypes
  <2>10. replies[f] = <<>> /\ thread[f] = "waiting"
    BY <1>3, <1>6 DEF Quiet, HostTypes
  <2>11. JobsOnce'
    <3>1. SUFFICES ASSUME NEW g \in FollowerRanks
        PROVE  (/\ inbox[g] # <<>> =>
                     replies[g] = <<>> /\ thread[g] = "waiting" /\ run[g].iteration < leader.iteration
                /\ thread[g] = "executing" => replies[g] = <<>>
                /\ replies[g] = <<"ok">> => Current(g) /\ g \notin poisoned /\ ~Executing(g))'
      BY DEF JobsOnce
    <3>2. CASE g = f
      <4>1. run'[f].iteration < leader'.iteration BY <1>1, <1>3, <2>3
      <4>2. replies'[f] = <<>> /\ thread'[f] = "waiting" /\ <<>> # <<"ok">> BY <1>1, <2>10
      <4> QED BY <3>2, <4>1, <4>2
    <3>3. CASE g # f BY <1>1, <1>4, <2>1, <2>3, <2>7, <2>9, <3>3 DEF JobsOnce, Current
    <3> QED BY <3>2, <3>3
  <2>12. LeaderKnows'
    <3>1. CASE f = Followers
      <4>1. pending' = Followers /\ leader'.at = "begin" BY <1>3, <2>1, <2>2, <2>3, <3>1
      <4> QED BY <1>1, <1>3, <2>1, <2>3, <4>1 DEF LeaderKnows
    <3>2. CASE f # Followers
      <4>1. /\ leader'.at = "dispatch" /\ leader'.next = f + 1 /\ pending' = f
            /\ f + 1 \in FollowerRanks
        BY <1>3, <2>1, <2>2, <2>3, <3>2 DEF FollowerRanks
      <4>2. ASSUME NEW g \in f + 1 .. Followers
            PROVE  Quiet(g)' /\ run'[g].iteration < leader'.iteration
        <5>1. g \in f .. Followers /\ g # f /\ g \in FollowerRanks BY <2>2 DEF FollowerRanks
        <5> QED BY <1>1, <1>3, <2>3, <2>9, <5>1 DEF Quiet
      <4>3. pending' = leader'.next - 1 BY <2>2, <4>1
      <4> QED BY <1>1, <1>3, <2>1, <2>3, <4>1, <4>2, <4>3 DEF LeaderKnows
    <3> QED BY <3>1, <3>2
  <2>13. DeviceInv' BY <1>1, <2>1, <2>3, HostKeepsDevice
  <2> QED BY <2>6, <2>8, <2>11, <2>12, <2>13
<1> QED BY <1>5, <1>6

\* The leader begins its own share, when every follower has the job.
LEMMA LeaderBeginsKeeps ==
    ASSUME IInv, LeaderBegins
    PROVE  IInv'
<1> USE DEF IInv, HostInv
<1>1. /\ leader.at = "begin" /\ 0 \notin poisoned /\ run[0].iteration < leader.iteration
      /\ pending = Followers /\ leader.result = "none" /\ ~leader.failed
      /\ UNCHANGED <<pending, inbox, replies, thread, poisoned, device>>
  BY DEF LeaderBegins, LeaderKnows
<1>2. \A g \in FollowerRanks : g # 0 /\ g \in Ranks BY RanksAre
<1>3. leader.iteration \in Nat /\ leader.calls \in Seq(Calls) /\ Followers \in Nat
  BY SizeAssumption DEF HostTypes
<1>4. CASE Begin(0, Job) /\ leader' = [leader EXCEPT !.at = "executing"]
  <2>1. /\ leader'.at = "executing" /\ leader'.iteration = leader.iteration
        /\ leader'.calls = leader.calls /\ leader'.result = "none" /\ leader'.failed = FALSE
    BY <1>1, <1>4 DEF HostTypes
  <2>2. BeginStep(0) BY <1>3, <1>4, BeginIsStep, RanksAre DEF DeviceInv
  <2>3. HostTypes' BY <1>1, <1>4 DEF HostTypes, Job
  <2>4. ~Executing(0) /\ Executing(0)' BY <1>1, <2>1 DEF Executing
  <2>5. \A f \in FollowerRanks : Executing(f)' <=> Executing(f) BY <1>1, <1>2 DEF Executing
  <2>6. \A f \in FollowerRanks : run'[f] = run[f] BY <1>2, <2>2 DEF BeginStep
  <2>7. Current(0)' BY <2>1, <2>2 DEF Current, BeginStep
  <2>8. leader'.iteration > 0
    <3>1. run[0].iteration \in Nat BY RunTypes, RanksAre DEF DeviceInv
    <3> QED BY <1>1, <1>3, <2>1, <3>1
  <2>9. Resting'
    <3>1. ASSUME NEW r \in Ranks
          PROVE  (IF Executing(r) THEN Current(r) /\ r \notin poisoned /\ leader.iteration > 0
                  ELSE RunDone(r) /\ (Succeeded(r) \/ r \in poisoned))'
      <4>1. CASE r = 0 BY <1>1, <2>4, <2>7, <2>8, <4>1
      <4>2. CASE r # 0
        <5>1. r \in FollowerRanks BY <4>2, RanksAre
        <5>2. IF Executing(r) THEN Current(r) /\ r \notin poisoned /\ leader.iteration > 0
              ELSE RunDone(r) /\ (Succeeded(r) \/ r \in poisoned)
          BY DEF Resting
        <5> QED BY <1>1, <2>1, <2>5, <2>6, <5>1, <5>2
              DEF Current, RunDone, Succeeded, CallDone
      <4> QED BY <4>1, <4>2
    <3> QED BY <3>1 DEF Resting
  <2>10. JobsOnce' BY <1>1, <2>1, <2>5, <2>6 DEF JobsOnce, Current
  <2>11. LeaderKnows' BY <1>1, <2>1 DEF LeaderKnows
  <2>12. DeviceInv' BY <1>1, <1>3, <2>1, <2>2, <2>4, BeginKeeps, RanksAre
  <2> QED BY <2>3, <2>9, <2>10, <2>11, <2>12
<1>5. CASE /\ leader' = [leader EXCEPT !.at = "wait", !.next = 1, !.result = "error"]
           /\ UNCHANGED run
  <2>1. /\ leader'.at = "wait" /\ leader'.iteration = leader.iteration /\ leader'.next = 1
        /\ leader'.calls = leader.calls /\ leader'.result = "error" /\ leader'.failed = FALSE
    BY <1>1, <1>5 DEF HostTypes
  <2>2. HostTypes' BY <1>1, <1>5 DEF HostTypes, Job
  <2>3. \A r \in Ranks : Executing(r)' <=> Executing(r) BY <1>1, <2>1 DEF Executing
  <2>4. Resting'
    <3>1. ASSUME NEW r \in Ranks
          PROVE  (IF Executing(r) THEN Current(r) /\ r \notin poisoned /\ leader.iteration > 0
                  ELSE RunDone(r) /\ (Succeeded(r) \/ r \in poisoned))'
      <4>1. Executing(r) => r \notin poisoned' BY <1>1 DEF Resting
      <4> QED BY <1>1, <1>5, <2>1, <2>3, <4>1, RestingKept
    <3> QED BY <3>1 DEF Resting
  <2>5. JobsOnce' BY <1>1, <1>2, <1>5, <2>1, <2>3 DEF JobsOnce, Current
  <2>6. LeaderKnows'
    <3>1. leader'.next \in 1 .. Followers + 1 /\ pending' = Followers + 1 - leader'.next
      BY <1>1, <1>3, <2>1
    <3>2. 1 .. leader'.next - 1 = {} BY <2>1
    <3> QED BY <2>1, <3>1, <3>2 DEF LeaderKnows
  <2>7. DeviceInv' BY <1>1, <1>5, <2>1, HostKeepsDevice
  <2> QED BY <2>2, <2>4, <2>5, <2>6, <2>7
<1> QED BY <1>4, <1>5 DEF LeaderBegins

\* The leader's share is done.
LEMMA LeaderExecutedKeeps ==
    ASSUME IInv, LeaderExecuted
    PROVE  IInv'
<1> USE DEF IInv, HostInv
<1>1. /\ leader.at = "executing" /\ RunDone(0) /\ pending = Followers
      /\ leader.result = "none" /\ ~leader.failed
      /\ UNCHANGED <<pending, inbox, replies, thread, run, device>>
      /\ poisoned' = IF Succeeded(0) THEN poisoned ELSE poisoned \cup {0}
  BY DEF LeaderExecuted, LeaderKnows, PoisonIfFailed
<1>2. \A g \in FollowerRanks : g # 0 /\ g \in Ranks BY RanksAre
<1>3. PICK result \in {"ok", "error"} :
        /\ result = "ok" <=> Succeeded(0)
        /\ leader' = [leader EXCEPT !.at = "wait", !.next = 1, !.result = result]
  BY DEF LeaderExecuted
<1>4. /\ leader'.at = "wait" /\ leader'.iteration = leader.iteration /\ leader'.next = 1
      /\ leader'.calls = leader.calls /\ leader'.result = result /\ leader'.failed = FALSE
  BY <1>1, <1>3 DEF HostTypes
<1>5. Executing(0) /\ ~Executing(0)' BY <1>1, <1>4 DEF Executing
<1>6. Current(0) /\ 0 \notin poisoned BY <1>5, RanksAre DEF Resting
<1>7. HostTypes' BY <1>1, <1>3, RanksAre DEF HostTypes, Job
<1>8. \A f \in FollowerRanks : Executing(f)' <=> Executing(f) BY <1>1, <1>2 DEF Executing
<1>9. \A f \in FollowerRanks : f \in poisoned' <=> f \in poisoned BY <1>1, <1>2
<1>10. Resting'
  <2>1. ASSUME NEW r \in Ranks
        PROVE  (IF Executing(r) THEN Current(r) /\ r \notin poisoned /\ leader.iteration > 0
                ELSE RunDone(r) /\ (Succeeded(r) \/ r \in poisoned))'
    <3>1. CASE r = 0
      <4>1. RunDone(0)' /\ (Succeeded(0)' <=> Succeeded(0)) BY <1>1 DEF RunDone, CallDone, Succeeded
      <4> QED BY <1>1, <1>5, <3>1, <4>1
    <3>2. CASE r # 0
      <4>1. r \in FollowerRanks BY <3>2, RanksAre
      <4>2. Executing(r) => r \notin poisoned' BY <1>9, <4>1 DEF Resting
      <4>3. poisoned \subseteq poisoned' BY <1>1
      <4> QED BY <1>1, <1>4, <1>8, <4>1, <4>2, <4>3, RestingKept
    <3> QED BY <3>1, <3>2
  <2> QED BY <2>1 DEF Resting
<1>11. JobsOnce' BY <1>1, <1>4, <1>8, <1>9 DEF JobsOnce, Current
<1>12. LeaderKnows'
  <2>1. Followers \in Nat BY SizeAssumption
  <2>2. leader'.next \in 1 .. Followers + 1 /\ pending' = Followers + 1 - leader'.next
    BY <1>1, <1>4, <2>1
  <2>3. 1 .. leader'.next - 1 = {} BY <1>4
  <2>4. leader'.result = "ok" => Current(0)' /\ 0 \notin poisoned'
    BY <1>1, <1>3, <1>4, <1>6 DEF Current
  <2> QED BY <1>3, <1>4, <2>2, <2>3, <2>4 DEF LeaderKnows
<1>13. DeviceInv'
  <2>1. poisoned \subseteq poisoned' BY <1>1
  <2> QED BY <1>1, <1>4, <2>1, HostKeepsDevice
<1> QED BY <1>7, <1>10, <1>11, <1>12, <1>13

\* The leader collects one answer, or finds the thread dead.
LEMMA CollectKeeps ==
    ASSUME IInv, Collect
    PROVE  IInv'
<1> USE DEF IInv, HostInv
<1>1. /\ leader.at \in {"wait", "close"} /\ leader.next <= Followers /\ pending > 0
      /\ pending' = pending - 1
      /\ UNCHANGED <<inbox, thread, poisoned, run, device, faults>>
  BY DEF Collect
<1>2. Followers \in Nat /\ leader.next \in Nat /\ pending \in Nat BY SizeAssumption DEF HostTypes
<1>3. \A g \in FollowerRanks : g # 0 /\ g \in Ranks BY RanksAre
<1>4. PICK f : f = leader.next OBVIOUS
<1>5. \/ /\ replies[f] # <<>> /\ replies' = [replies EXCEPT ![f] = Tail(@)]
         /\ leader' = [leader EXCEPT !.next = f + 1,
                          !.failed = @ \/ Head(replies[f]) = "error"]
      \/ /\ replies[f] = <<>> /\ thread[f] = "stopped"
         /\ leader' = [leader EXCEPT !.next = f + 1, !.failed = TRUE]
         /\ UNCHANGED replies
  BY <1>4 DEF Collect
<1>6. /\ leader'.at = leader.at /\ leader'.iteration = leader.iteration
      /\ leader'.calls = leader.calls /\ leader'.result = leader.result /\ leader'.next = f + 1
  BY <1>5 DEF HostTypes
<1>7. CASE f \in FollowerRanks
  <2>1. \/ /\ replies[f] \in {<<"ok">>, <<"error">>} /\ replies' = [replies EXCEPT ![f] = <<>>]
           /\ leader'.failed = (leader.failed \/ replies[f] = <<"error">>)
        \/ replies[f] = <<>> /\ thread[f] = "stopped" /\ leader'.failed = TRUE /\ replies' = replies
    <3>1. CASE replies[f] = <<>> BY <1>5, <3>1 DEF HostTypes
    <3>2. CASE replies[f] # <<>>
      <4>1. replies[f] \in {<<"ok">>, <<"error">>} BY <1>7, <3>2 DEF HostTypes
      <4>2. Tail(replies[f]) = <<>> /\ (Head(replies[f]) = "error" <=> replies[f] = <<"error">>)
        <5>1. CASE replies[f] = <<"ok">>
          <6>1. Tail(<<"ok">>) = <<>> /\ Head(<<"ok">>) = "ok" OBVIOUS
          <6>2. <<"ok">> # <<"error">>
            <7>1. <<"ok">>[1] = "ok" /\ <<"error">>[1] = "error" OBVIOUS
            <7> QED BY <7>1
          <6> QED BY <5>1, <6>1, <6>2
        <5>2. CASE replies[f] = <<"error">>
          <6>1. Tail(<<"error">>) = <<>> /\ Head(<<"error">>) = "error" OBVIOUS
          <6> QED BY <5>2, <6>1
        <5> QED BY <4>1, <5>1, <5>2
      <4>3. leader'.failed = (leader.failed \/ replies[f] = <<"error">>)
        BY <1>5, <3>2, <4>2 DEF HostTypes
      <4>4. replies' = [replies EXCEPT ![f] = <<>>] BY <1>5, <1>7, <3>2, <4>2 DEF HostTypes
      <4> QED BY <4>1, <4>3, <4>4
    <3> QED BY <3>1, <3>2
  <2>2. /\ replies' \in [FollowerRanks -> {<<>>, <<"ok">>, <<"error">>}] /\ replies'[f] = <<>>
        /\ \A g \in FollowerRanks : g # f => replies'[g] = replies[g]
    BY <1>7, <2>1 DEF HostTypes
  <2>3. inbox[f] = <<>> /\ thread[f] # "executing"
    BY <1>7, <2>1 DEF JobsOnce
  <2>4. HostTypes'
    <3>1. leader'.failed \in BOOLEAN BY <2>1 DEF HostTypes
    <3>2. f + 1 \in Nat /\ pending' \in Nat BY <1>1, <1>2, <1>4
    <3>3. leader' = [leader EXCEPT !.next = f + 1, !.failed = leader'.failed]
      BY <1>5 DEF HostTypes
    <3>4. leader' \in [at : {"idle", "dispatch", "begin", "executing", "wait", "close", "join",
                             "closed"},
                       next : Nat, iteration : Nat, calls : Seq(Calls),
                       result : {"none", "ok", "error"}, failed : BOOLEAN]
      BY <3>1, <3>2, <3>3 DEF HostTypes
    <3>5. Job' = Job BY <1>6 DEF Job
    <3> QED BY <1>1, <2>2, <3>2, <3>4, <3>5 DEF HostTypes
  <2>5. \A r \in Ranks : Executing(r)' <=> Executing(r) BY <1>1, <1>6 DEF Executing
  <2>6. Resting'
    <3>1. ASSUME NEW r \in Ranks
          PROVE  (IF Executing(r) THEN Current(r) /\ r \notin poisoned /\ leader.iteration > 0
                  ELSE RunDone(r) /\ (Succeeded(r) \/ r \in poisoned))'
      <4>1. Executing(r) => r \notin poisoned' BY <1>1 DEF Resting
      <4> QED BY <1>1, <1>6, <2>5, <4>1, RestingKept
    <3> QED BY <3>1 DEF Resting
  <2>7. \A r \in Ranks : Current(r)' <=> Current(r) BY <1>1, <1>6 DEF Current
  <2>8. JobsOnce'
    <3>1. SUFFICES ASSUME NEW g \in FollowerRanks
        PROVE  (/\ inbox[g] # <<>> =>
                     replies[g] = <<>> /\ thread[g] = "waiting" /\ run[g].iteration < leader.iteration
                /\ thread[g] = "executing" => replies[g] = <<>>
                /\ replies[g] = <<"ok">> => Current(g) /\ g \notin poisoned /\ ~Executing(g))'
      BY DEF JobsOnce
    <3>2. CASE g = f
      <4>1. inbox'[f] = <<>> /\ replies'[f] = <<>> /\ <<>> # <<"ok">> BY <1>1, <2>2, <2>3
      <4> QED BY <3>2, <4>1
    <3>3. CASE g # f BY <1>1, <1>3, <1>6, <2>2, <2>5, <2>7, <3>3 DEF JobsOnce
    <3> QED BY <3>2, <3>3
  <2>9. LeaderKnows'
    <3>1. CASE leader.at = "close"
      <4>1. leader'.at = "close" /\ leader'.next # 0 BY <1>2, <1>4, <1>6, <3>1
      <4> QED BY <4>1 DEF LeaderKnows
    <3>2. CASE leader.at = "wait"
      <4>1. /\ leader.next \in 1 .. Followers + 1 /\ pending = Followers + 1 - leader.next
            /\ leader.result \in {"ok", "error"}
            /\ leader.result = "ok" => Current(0) /\ 0 \notin poisoned
            /\ \A g \in 1 .. leader.next - 1 :
                 Quiet(g) /\ (leader.failed \/ (Current(g) /\ g \notin poisoned))
        BY <3>2 DEF LeaderKnows
      <4>2. leader'.next \in 1 .. Followers + 1 /\ pending' = Followers + 1 - leader'.next
        BY <1>1, <1>2, <1>4, <1>6, <4>1
      <4>3. ASSUME NEW g \in 1 .. leader'.next - 1
            PROVE  Quiet(g)' /\ (leader'.failed \/ (Current(g)' /\ g \notin poisoned'))
        <5>1. CASE g = f
          <6>1. Quiet(f)' BY <1>1, <2>2, <2>3 DEF Quiet
          <6>2. ~leader'.failed => replies[f] = <<"ok">> BY <2>1
          <6>3. ~leader'.failed => Current(f) /\ f \notin poisoned BY <1>7, <6>2 DEF JobsOnce
          <6> QED BY <1>1, <1>3, <1>7, <2>7, <5>1, <6>1, <6>3
        <5>2. CASE g # f
          <6>1. g \in 1 .. leader.next - 1 BY <1>2, <1>4, <1>6, <5>2
          <6>2. g \in FollowerRanks BY <3>2, <6>1, CountedRanks
          <6>3. leader.failed => leader'.failed BY <2>1 DEF HostTypes
          <6> QED BY <1>1, <1>3, <2>2, <2>7, <4>1, <5>2, <6>1, <6>2, <6>3 DEF Quiet
        <5> QED BY <5>1, <5>2
      <4>4. leader'.result = "ok" => Current(0)' /\ 0 \notin poisoned'
        BY <1>1, <1>6, <2>7, <4>1, RanksAre
      <4> QED BY <1>6, <3>2, <4>1, <4>2, <4>3, <4>4 DEF LeaderKnows
    <3> QED BY <1>1, <3>1, <3>2
  <2>10. DeviceInv' BY <1>1, <1>6, HostKeepsDevice
  <2> QED BY <2>4, <2>6, <2>8, <2>9, <2>10
<1>8. CASE f \notin FollowerRanks
  <2>1. leader.at = "close" /\ leader.next = 0
    <3>1. leader.next = 0 BY <1>1, <1>2, <1>4, <1>8 DEF FollowerRanks
    <3>2. leader.at # "wait" BY <3>1 DEF LeaderKnows
    <3> QED BY <1>1, <3>1, <3>2
  <2> QED BY <2>1 DEF LeaderKnows
<1> QED BY <1>7, <1>8

\* The steps of the leader that change only where it stands.
LEMMA LeaderMoves ==
    ASSUME IInv, leader.at \in {"idle", "close", "join"},
           leader'.at \in {"close", "join", "closed"}, leader'.at = "close" => leader'.next # 0,
           leader' \in [at : {"idle", "dispatch", "begin", "executing", "wait", "close", "join",
                              "closed"},
                        next : Nat, iteration : Nat, calls : Seq(Calls),
                        result : {"none", "ok", "error"}, failed : BOOLEAN],
           leader'.iteration = leader.iteration, leader'.calls = leader.calls,
           UNCHANGED <<pending, inbox, replies, thread, poisoned, run, device>>
    PROVE  IInv'
<1> USE DEF IInv, HostInv
<1>1. HostTypes' BY DEF HostTypes, Job
<1>2. \A r \in Ranks : Executing(r)' <=> Executing(r) BY DEF Executing
<1>3. Resting' BY <1>2 DEF Resting, RunDone, Succeeded, CallDone, Current
<1>4. JobsOnce' BY <1>2, RanksAre DEF JobsOnce, Current
<1>5. LeaderKnows' BY DEF LeaderKnows
<1>6. DeviceInv' BY HostKeepsDevice
<1> QED BY <1>1, <1>3, <1>4, <1>5, <1>6

\* The leader reports success only if no rank failed.
LEMMA SettleKeeps ==
    ASSUME IInv, Settle
    PROVE  IInv'
<1> USE DEF IInv, HostInv
<1>1. /\ leader.at = "wait" /\ (leader.next > Followers \/ pending = 0)
      /\ UNCHANGED <<pending, inbox, replies, thread, run, device, faults>>
      /\ IF leader.result = "ok" /\ leader.failed
         THEN /\ poisoned' = poisoned \cup {0}
              /\ leader' = [leader EXCEPT !.at = "idle", !.result = "error"]
         ELSE /\ leader' = [leader EXCEPT !.at = "idle"]
              /\ UNCHANGED poisoned
  BY DEF Settle
<1>2. /\ leader.next \in 1 .. Followers + 1 /\ pending = Followers + 1 - leader.next
      /\ leader.result \in {"ok", "error"}
      /\ leader.result = "ok" => Current(0) /\ 0 \notin poisoned
      /\ \A g \in 1 .. leader.next - 1 :
           Quiet(g) /\ (leader.failed \/ (Current(g) /\ g \notin poisoned))
  BY <1>1 DEF LeaderKnows
<1>3. leader.next = Followers + 1 /\ pending = 0 BY <1>1, <1>2, SizeAssumption
<1>4. \A g \in FollowerRanks : Quiet(g) /\ (leader.failed \/ (Current(g) /\ g \notin poisoned))
  BY <1>2, <1>3, SizeAssumption DEF FollowerRanks
<1>5. /\ leader'.at = "idle" /\ leader'.iteration = leader.iteration
      /\ leader'.calls = leader.calls /\ leader'.failed = leader.failed
      /\ leader'.result = IF leader.failed THEN "error" ELSE leader.result
  BY <1>1, <1>2 DEF HostTypes
<1>6. /\ poisoned \subseteq poisoned' /\ \A r \in Ranks : r \in poisoned' => r = 0 \/ r \in poisoned
      /\ ~leader.failed => poisoned' = poisoned
  BY <1>1
<1>7. HostTypes'
  <2>1. leader' = [[leader EXCEPT !.at = "idle"] EXCEPT !.result = leader'.result]
    <3>1. CASE leader.result = "ok" /\ leader.failed BY <1>1, <3>1 DEF HostTypes
    <3>2. CASE ~(leader.result = "ok" /\ leader.failed) BY <1>1, <3>2 DEF HostTypes
    <3> QED BY <3>1, <3>2
  <2>2. leader'.result \in {"none", "ok", "error"} BY <1>2, <1>5
  <2>3. leader' \in [at : {"idle", "dispatch", "begin", "executing", "wait", "close", "join",
                           "closed"},
                     next : Nat, iteration : Nat, calls : Seq(Calls),
                     result : {"none", "ok", "error"}, failed : BOOLEAN]
    BY <2>1, <2>2 DEF HostTypes
  <2>4. poisoned' \subseteq Ranks BY <1>1, RanksAre DEF HostTypes
  <2>5. Job' = Job BY <1>5 DEF Job
  <2> QED BY <1>1, <2>3, <2>4, <2>5 DEF HostTypes
<1>8. \A r \in Ranks : (Executing(r)' <=> Executing(r)) /\ (Executing(r) => r # 0)
  BY <1>1, <1>5 DEF Executing
<1>9. Resting'
  <2>1. ASSUME NEW r \in Ranks
        PROVE  (IF Executing(r) THEN Current(r) /\ r \notin poisoned /\ leader.iteration > 0
                ELSE RunDone(r) /\ (Succeeded(r) \/ r \in poisoned))'
    <3>1. Executing(r) => r \notin poisoned' BY <1>6, <1>8 DEF Resting
    <3> QED BY <1>1, <1>5, <1>6, <1>8, <3>1, RestingKept
  <2> QED BY <2>1 DEF Resting
<1>10. JobsOnce' BY <1>1, <1>5, <1>6, <1>8, RanksAre DEF JobsOnce, Current
<1>11. \A r \in Ranks : Current(r)' <=> Current(r) BY <1>1, <1>5 DEF Current
<1>12. LeaderKnows'
  <2>1. \A g \in FollowerRanks : Quiet(g)' BY <1>1, <1>4 DEF Quiet
  <2>2. ASSUME leader'.result = "ok", NEW r \in Ranks PROVE Current(r)' /\ r \notin poisoned'
    <3>1. ~leader.failed /\ leader.result = "ok" BY <1>5, <2>2
    <3>2. CASE r = 0 BY <1>2, <1>6, <1>11, <3>1, <3>2
    <3>3. CASE r # 0 BY <1>4, <1>6, <1>11, <3>1, <3>3, RanksAre
    <3> QED BY <3>2, <3>3
  <2> QED BY <1>1, <1>3, <1>5, <2>1, <2>2 DEF LeaderKnows
<1>13. DeviceInv' BY <1>1, <1>5, <1>6, HostKeepsDevice
<1> QED BY <1>7, <1>9, <1>10, <1>12, <1>13

\* Closing, hanging up and joining move the leader and nothing else.
LEMMA CloseKeeps ==
    ASSUME IInv, Close \/ HangUp \/ Join
    PROVE  IInv'
<1> DEFINE Leaders == [at : {"idle", "dispatch", "begin", "executing", "wait", "close", "join",
                             "closed"},
                       next : Nat, iteration : Nat, calls : Seq(Calls),
                       result : {"none", "ok", "error"}, failed : BOOLEAN]
<1>1. leader \in Leaders BY DEF IInv, HostInv, HostTypes
<1>2. CASE Close
  <2>1. PICK at \in {"close", "join"} :
          leader' = [leader EXCEPT !.at = at, !.next = 1, !.result = "none"]
    BY <1>2 DEF Close
  <2>2. /\ leader' \in Leaders /\ leader'.at = at /\ leader'.next = 1
        /\ leader'.iteration = leader.iteration /\ leader'.calls = leader.calls
    BY <1>1, <2>1
  <2> QED BY <1>2, <2>2, LeaderMoves DEF Close, device
<1>3. CASE HangUp
  <2>1. /\ leader' \in Leaders /\ leader'.at = "join"
        /\ leader'.iteration = leader.iteration /\ leader'.calls = leader.calls
    BY <1>1, <1>3 DEF HangUp
  <2> QED BY <1>3, <2>1, LeaderMoves DEF HangUp, device
<1>4. CASE Join
  <2>1. /\ leader' \in Leaders /\ leader'.at = "closed"
        /\ leader'.iteration = leader.iteration /\ leader'.calls = leader.calls
    BY <1>1, <1>4 DEF Join
  <2> QED BY <1>4, <2>1, LeaderMoves DEF Join, device
<1> QED BY <1>2, <1>3, <1>4

\* A step that changes nothing.
LEMMA StutterKeeps ==
    ASSUME IInv, UNCHANGED vars
    PROVE  IInv'
<1>1. UNCHANGED <<leader, pending, inbox, replies, thread, poisoned, run>> BY DEF vars, host
<1>2. UNCHANGED <<epochs, start, end, staging, packets, mixed>> BY DEF vars, device
<1>3. HostInv'
  BY <1>1 DEF IInv, HostInv, HostTypes, Job, Resting, Executing, Current, RunDone, CallDone,
              Succeeded, JobsOnce, LeaderKnows, Quiet
<1>4. DeviceInv' BY <1>1, <1>2, HostKeepsDevice DEF IInv, device
<1> QED BY <1>3, <1>4 DEF IInv

\* At the start nobody works on anything and every epoch and flag is 0.
LEMMA InitInv == Init => IInv
<1> SUFFICES ASSUME Init PROVE IInv OBVIOUS
<1>1. /\ leader = Leader0 /\ pending = 0 /\ poisoned = {} /\ mixed = {} /\ end = start
      /\ inbox = [f \in FollowerRanks |-> <<>>] /\ replies = [f \in FollowerRanks |-> <<>>]
      /\ thread \in [FollowerRanks -> {"waiting", "stopped"}]
      /\ run = [r \in Ranks |-> NoRun]
      /\ epochs = [r \in Ranks |-> [low \in BOOLEAN |-> [b \in Blocks |-> 0]]]
      /\ start = [r \in Ranks |-> [b \in Blocks |-> [s \in Ranks |-> 0]]]
      /\ staging = [r \in Ranks |-> [b \in Blocks |-> <<0, 0>>]]
      /\ packets = [r \in Ranks |-> [p \in 0 .. 1 |-> [s \in Ranks |->
                      [b \in Blocks |-> [epoch |-> 0, datum |-> <<0, 0>>]]]]]
  BY DEF Init
<1>2. /\ leader.at = "idle" /\ leader.next = 0 /\ leader.iteration = 0 /\ leader.calls = <<>>
      /\ leader.result = "none" /\ leader.failed = FALSE
  BY <1>1 DEF Leader0
<1>3. \A r \in Ranks : /\ run[r].iteration = 0 /\ run[r].calls = <<>> /\ run[r].limit = 0
                       /\ run[r].at = 0 /\ run[r].lanes = <<>> /\ run[r].trapped = FALSE
  BY <1>1 DEF NoRun
<1>4. 0 \in Epochs /\ <<>> \in LaneMaps /\ <<>> \in Seq(Calls) /\ Len(<<>>) = 0 /\ DOMAIN <<>> = {}
  <2>1. 0 \in Epochs BY EpochAssumption DEF Epochs
  <2>2. <<>> \in [1 .. 0 -> Lanes] OBVIOUS
  <2>3. 0 \in 0 .. MaxBlocks BY SizeAssumption
  <2> QED BY <2>1, <2>2, <2>3 DEF LaneMaps
<1>5. HostTypes
  <2>1. leader \in [at : {"idle", "dispatch", "begin", "executing", "wait", "close", "join",
                          "closed"},
                    next : Nat, iteration : Nat, calls : Seq(Calls),
                    result : {"none", "ok", "error"}, failed : BOOLEAN]
    BY <1>1, <1>4 DEF Leader0
  <2> QED BY <1>1, <2>1 DEF HostTypes
<1>6. \A r \in Ranks : CallDone(r) /\ RunDone(r) /\ Succeeded(r)
  BY <1>3, <1>4 DEF CallDone, RunDone, Succeeded
<1>7. \A f \in FollowerRanks : inbox[f] = <<>> /\ replies[f] = <<>> /\ thread[f] # "executing"
  BY <1>1
<1>8. \A r \in Ranks : ~Executing(r) BY <1>2, <1>7, RanksAre DEF Executing
<1>9. Resting BY <1>6, <1>8 DEF Resting
<1>10. <<>> # <<"ok">> OBVIOUS
<1>11. JobsOnce BY <1>7, <1>10 DEF JobsOnce
<1>12. LeaderKnows BY <1>1, <1>2, <1>7 DEF LeaderKnows, Quiet
<1>13. DeviceTypes
  <2>1. NoRun \in Runs BY <1>4 DEF NoRun, Runs
  <2>2. run \in [Ranks -> Runs] BY <1>1, <2>1
  <2> QED BY <1>1, <1>4, <2>2 DEF DeviceTypes
<1>14. RunsShaped BY <1>3, <1>4 DEF RunsShaped, RunShaped
<1>15. \A r \in Ranks, low \in BOOLEAN, b \in Blocks : ~InCall(r, low, b)
  BY <1>3, <1>4 DEF InCall
<1>16. \A r \in Ranks, low \in BOOLEAN, b \in Blocks :
         epochs[r][low][b] = 0 /\ Sent(r, low, b) = 0 /\ After(r, low, b) = 0
  BY <1>1, <1>15 DEF Sent, After
<1>17. \A r \in Ranks, b \in Blocks : Ended(r, b) = 0 BY <1>1, <1>15 DEF Ended
<1>18. FlagsWritten BY <1>1, <1>16, <1>17 DEF FlagsWritten
<1>19. PacketsWritten
  <2>1. SUFFICES ASSUME NEW s \in Ranks, NEW q \in Ranks, NEW b \in Blocks, s # q
      PROVE  LET e == Sent(s, TRUE, b)
             IN  /\ packets[q][Parity(e)][s][b].epoch = e
                 /\ LET other == packets[q][1 - Parity(e)][s][b].epoch
                    IN  Succ(other) = e \/ (other = 0 /\ Parity(e) = 0)
                 /\ InCall(s, TRUE, b) /\ Pc(s, b) \in {"meet", "done"} =>
                       packets[q][Parity(e)][s][b].datum = Datum(s)
    BY DEF PacketsWritten
  <2>2. Sent(s, TRUE, b) = 0 /\ Parity(0) = 0 /\ 1 - 0 = 1
    <3>1. 0 % 2 = 0 /\ 1 - 0 = 1 OBVIOUS
    <3>2. Parity(0) = 0 BY <3>1 DEF Parity
    <3>3. TRUE \in BOOLEAN OBVIOUS
    <3>4. Sent(s, TRUE, b) = 0 BY <1>16, <3>3
    <3> QED BY <3>1, <3>2, <3>4
  <2>3. packets[q][0][s][b].epoch = 0 /\ packets[q][1][s][b].epoch = 0 BY <1>1
  <2> QED BY <1>15, <2>2, <2>3
<1>20. StagingWritten BY <1>15 DEF StagingWritten
<1>21. CurrentCalls BY <1>2, <1>3 DEF CurrentCalls, Current
<1>22. Lockstep BY <1>3, <1>4 DEF Lockstep
<1>23. AllTogether
  <2>1. SUFFICES ASSUME NEW r \in Ranks, NEW s \in Ranks PROVE Together(r, s) BY DEF AllTogether
  <2>2. Pos(s) = 0 /\ Pos(r) = 0 BY <1>3 DEF Pos
  <2> QED BY <1>16, <2>2 DEF Together
<1>24. SumsExact BY <1>1 DEF SumsExact
<1>25. OldArrivalsSeen BY <1>2, <1>3 DEF OldArrivalsSeen
<1> QED
  BY <1>5, <1>9, <1>11, <1>12, <1>13, <1>14, <1>18, <1>19, <1>20, <1>21, <1>22, <1>23, <1>24, <1>25
  DEF IInv, HostInv, DeviceInv

\* Every step of every rank keeps the invariant.
LEMMA NextKeeps ==
    ASSUME IInv, [Next]_vars
    PROVE  IInv'
<1>1. CASE Execute BY <1>1, ExecuteKeeps
<1>2. CASE Close BY <1>2, CloseKeeps
<1>3. CASE Leader
  BY <1>3, DispatchKeeps, LeaderBeginsKeeps, LeaderExecutedKeeps, CollectKeeps, SettleKeeps,
     CloseKeeps DEF Leader
<1>4. ASSUME NEW f \in FollowerRanks, Follower(f) PROVE IInv'
  BY <1>4, FollowerTakesKeeps, FollowerRepliesKeeps, FollowerEndsKeeps DEF Follower
<1>5. ASSUME NEW r \in Ranks, Device(r) PROVE IInv'
  <2>1. DeviceInv' BY <1>5, DeviceKeeps DEF IInv
  <2>2. HostInv' BY <1>5, DeviceKeepsHost
  <2> QED BY <2>1, <2>2 DEF IInv
<1>6. CASE UNCHANGED vars BY <1>6, StutterKeeps
<1> QED BY <1>1, <1>2, <1>3, <1>4, <1>5, <1>6 DEF Next

\* What the leader reports as executed was: nobody had failed before, so no
\* rank is apart from the others and no sum is spoilt.
LEMMA InvReported == IInv => ReportedSumsAreExact
<1> SUFFICES ASSUME IInv, leader.at = "idle", leader.result = "ok"
             PROVE  /\ mixed = {}
                    /\ \A r \in Ranks : run[r].iteration = leader.iteration /\ RunDone(r)
                                        /\ Succeeded(r)
  BY DEF ReportedSumsAreExact
<1>1. \A r \in Ranks : Current(r) /\ r \notin poisoned
  BY DEF IInv, HostInv, LeaderKnows
<1>2. mixed = {} BY <1>1 DEF IInv, DeviceInv, SumsExact, Sound
<1>3. \A f \in FollowerRanks : Quiet(f) BY <1>1, RanksAre DEF IInv, HostInv, LeaderKnows
<1>4. \A r \in Ranks : ~Executing(r) BY <1>3, RanksAre DEF Executing, Quiet
<1>5. \A r \in Ranks : RunDone(r) /\ Succeeded(r) BY <1>1, <1>4 DEF IInv, HostInv, Resting
<1> QED BY <1>1, <1>2, <1>5 DEF Current

\* No arrival is overlooked, whoever has failed.
LEMMA InvSeen == IInv => ArrivalsAreSeen
  BY SeenArrivals DEF IInv, HostInv, DeviceInv, Coherent

-----------------------------------------------------------------------------
(* The theorems.                                                           *)

\* The invariant holds in every state of every run: the flags, packets and
\* staging buffers hold what their writers posted last, and the ranks that
\* have not failed are at most one all-reduce call apart.
THEOREM InvariantHolds == Spec => []IInv
<1>1. IInv /\ [Next]_vars => IInv' BY NextKeeps
<1> QED BY InitInv, <1>1, PTL DEF Spec

\* An iteration execute_output reports as executed was executed to the end by
\* every rank and no rank summed a datum of another call or iteration, and no
\* epoch a peer posted is overwritten before the block that spins on it can
\* see it: for any number of ranks and blocks, any mix of low-latency and
\* staged calls, any even epoch range, so across its wrap, and any failures.
THEOREM AllReduceCorrect == Spec => []AllReduceExact
<1>1. IInv => AllReduceExact BY InvReported, InvSeen DEF AllReduceExact
<1> QED BY InvariantHolds, <1>1, PTL

\* A rank of the leader's iteration is never more than one call ahead of
\* another that has not failed.
Abreast == \A r, s \in Ranks : Sound(r) /\ Sound(s) => Pos(s) <= Pos(r) + 1

\* Ranks that have not failed stay within one all-reduce call of each other:
\* two parities of packets are enough for the low-latency kernel, which has
\* no barrier at its end.
THEOREM RanksAbreast == Spec => []Abreast
<1>1. IInv => Abreast BY DEF IInv, DeviceInv, AllTogether, Together, Abreast
<1> QED BY InvariantHolds, <1>1, PTL

=============================================================================
