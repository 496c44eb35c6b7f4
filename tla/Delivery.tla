------------------------------ MODULE Delivery ------------------------------
(***************************************************************************)
(* An HTTP worker delivers one submitted completion to its client          *)
(* (service.rs: stream_completion and collect_completion; the SSE encoder  *)
(* and the token collector of openai.rs).  It polls the channel of the     *)
(* request, whose events are those module RequestStream promises, while    *)
(* the client may leave, the request deadline may pass and the server may  *)
(* begin to stop, at any point between two accesses to shared state.       *)
(*                                                                         *)
(* A frame is the token it shows, or its kind.  A write reaches the socket *)
(* whole or not at all; it may fail while the client is there (a write     *)
(* timeout) and succeed although the client is gone (the kernel buffers).  *)
(***************************************************************************)
EXTENDS Integers, Sequences, SequencesExt

CONSTANTS
    Limit,        \* bound: tokens the engine sends
    MaximumOutputTokens, \* max_new_tokens of the request
    MaximumBytes, \* maximum_non_streaming_bytes; every token has one byte of text
    ProbeInterval \* NON_STREAMING_PROBE_DELTA_INTERVAL

\* ServerConfig::validate and the checks of a CompletionRequest.
ASSUME DeliveryAssumption ==
    {Limit, MaximumOutputTokens, MaximumBytes, ProbeInterval} \subseteq Nat \ {0}

VARIABLES
    events, sender, \* the channel of the request
    mode,      \* [stream, ids]: what the request asked for, fixed at submission
    taken,     \* events the worker has received
    seen,      \* tokens CompletionTokenCollector has observed
    text,      \* bytes collect_completion has gathered
    response,  \* frames written to the socket
    cancelled, \* the cancellation was requested from the backend
    log,       \* the observations recorded by RequestTracker::finish
    pc,        \* where the worker is
    stopping,  \* the server's stop flag
    late,      \* the request deadline has passed
    peer       \* FALSE once the client left or the socket was shut down

channelVars == <<events, sender>>
deliveringVars == <<taken, seen, text, response, cancelled, log, pc>>
deliveryVars == <<channelVars, mode, deliveringVars, stopping, late, peer>>

Engine == INSTANCE RequestStream

Token(n) == [token |-> n]
Mark(kind) == [mark |-> kind]

\* The encoder is open until its terminal frame, and encode_done follows that.
WithDone(kind) == <<Mark(kind), Mark("done")>>

-----------------------------------------------------------------------------
(* CompletionTokenCollector. *)

\* observe accepts a token.
Observes(e) == ~mode.ids \/ (e.n = seen + 1 /\ seen < MaximumOutputTokens)

\* Mutant: usage is not compared with the tokens observed.
AnyUsage(e) == TRUE

\* validate_usage.
UsageValid(e) == ~mode.ids \/ (seen = e.n /\ seen > 0)

-----------------------------------------------------------------------------
(* Steps of the worker. *)

\* The first k of the frames reach the socket.
Written(frames, k) == response' = response \o SubSeq(frames, 1, k)

\* tracker.finish, and the drop of the submission, which cancels the request unless
\* it was disarmed before.
Settle(status, disarmed) ==
    /\ log' = Append(log, status)
    /\ pc' = "done"
    /\ cancelled' = ~disarmed

Finish(status) == Settle(status, FALSE)

\* peek reports a client that is gone, unless bytes it sent before are unread.
Disconnected(answer) == answer \in BOOLEAN /\ (answer => ~peer)

\* An error response: write_stream_error or write_api_error.
ErrorFrames == IF mode.stream THEN WithDone("error") ELSE <<Mark("error")>>

WriteError == \E k \in 0..Len(ErrorFrames) : Written(ErrorFrames, k)

\* stream_completion begins with the head of the response.
Start ==
    /\ pc = "submitted"
    /\ \E ok \in BOOLEAN :
          IF mode.stream
          THEN IF ok THEN Written(<<Mark("head")>>, 1) /\ pc' = "poll" /\ UNCHANGED <<cancelled, log>>
                     ELSE Finish("disconnected") /\ UNCHANGED response
          ELSE ok /\ pc' = "poll" /\ UNCHANGED <<response, cancelled, log>>
    /\ UNCHANGED <<channelVars, mode, taken, seen, text, stopping, late, peer>>

\* Mutant: only shutdown ends the wait.
EventWaitForever ==
    /\ pc = "poll"
    /\ pc' = IF stopping THEN "expired" ELSE "recv"
    /\ UNCHANGED <<channelVars, mode, taken, seen, text, response, cancelled, log,
                   stopping, late, peer>>

\* event_wait: no wait is left once the server stops or the deadline passed.
EventWait ==
    /\ pc = "poll"
    /\ pc' = IF stopping \/ late THEN "expired" ELSE "recv"
    /\ UNCHANGED <<channelVars, mode, taken, seen, text, response, cancelled, log,
                   stopping, late, peer>>

\* Mutant: the submission is disarmed before the error is written.
ExpireDisarmed ==
    /\ pc = "expired"
    /\ WriteError /\ Settle("failed", TRUE)
    /\ UNCHANGED <<channelVars, mode, taken, seen, text, stopping, late, peer>>

\* The request ends without its terminal event.
Expire ==
    /\ pc = "expired"
    /\ \E gone \in BOOLEAN :
          /\ Disconnected(gone)
          /\ IF gone THEN Finish("disconnected") /\ UNCHANGED response
             ELSE WriteError /\ Finish("failed")
    /\ UNCHANGED <<channelVars, mode, taken, seen, text, stopping, late, peer>>

\* recv_timeout returns an event.
Receives(e) ==
    /\ pc = "recv" /\ taken < Len(events) /\ e = events[taken + 1]
    /\ taken' = taken + 1

\* The server began to stop while the worker waited: the event is not shown.
RefuseEvent ==
    /\ stopping
    /\ \E e \in ToSet(events) : Receives(e)
    /\ \E gone \in BOOLEAN :
          /\ Disconnected(gone)
          /\ IF gone THEN Finish("disconnected") /\ UNCHANGED response
             ELSE \E k \in 0..Len(ErrorFrames) :
                     /\ Written(ErrorFrames, k)
                     /\ Finish(IF k = Len(ErrorFrames) THEN "failed" ELSE "disconnected")
    /\ UNCHANGED <<channelVars, mode, seen, text, stopping, late, peer>>

\* The token does not continue those observed.
TokenInvalid ==
    /\ ~stopping
    /\ \E e \in ToSet(events) : Receives(e) /\ e.kind = "token" /\ ~Observes(e)
    /\ WriteError
    /\ Finish("failed")
    /\ UNCHANGED <<channelVars, mode, seen, text, stopping, late, peer>>

\* encode_event of a token, and its frame.
StreamToken ==
    /\ mode.stream /\ ~stopping
    /\ \E e \in ToSet(events), ok \in BOOLEAN :
          /\ Receives(e) /\ e.kind = "token" /\ Observes(e)
          /\ IF ok THEN Written(<<Token(e.n)>>, 1) /\ pc' = "poll" /\ UNCHANGED <<cancelled, log>>
             ELSE Finish("disconnected") /\ UNCHANGED response
    /\ seen' = seen + 1
    /\ UNCHANGED <<channelVars, mode, text, stopping, late, peer>>

\* A token is added to the text of a JSON response, which has a limit; the client
\* is probed every few tokens only.
CollectToken ==
    /\ ~mode.stream /\ ~stopping
    /\ \E e \in ToSet(events) : Receives(e) /\ e.kind = "token" /\ Observes(e)
    /\ seen' = seen + 1
    /\ \/ /\ taken' % ProbeInterval = 0 /\ ~peer
          /\ Finish("disconnected")
          /\ UNCHANGED <<text, response>>
       \/ /\ text + 1 > MaximumBytes
          /\ WriteError
          /\ Finish("failed")
          /\ UNCHANGED text
       \/ /\ text + 1 <= MaximumBytes
          /\ text' = text + 1
          /\ pc' = "poll"
          /\ UNCHANGED <<response, cancelled, log>>
    /\ UNCHANGED <<channelVars, mode, stopping, late, peer>>

\* The frames that end a stream: finish, or the sanitized error.
TerminalFrames(e) ==
    IF e.kind = "finished" /\ UsageValid(e) THEN WithDone("finish") ELSE WithDone("error")

\* The terminal event of a stream: its frame, then [DONE].  The submission is
\* disarmed only when both are written.
StreamTerminal ==
    /\ mode.stream /\ ~stopping
    /\ \E e \in ToSet(events), k \in 0..3 :
          /\ Receives(e) /\ e.kind # "token"
          /\ LET frames == TerminalFrames(e)
                 rejected == e.kind = "finished" /\ ~UsageValid(e)
             IN  /\ k <= Len(frames)
                 /\ Written(frames, k)
                 /\ Settle(IF rejected THEN "failed"
                           ELSE IF k < Len(frames) THEN "disconnected"
                           ELSE IF e.kind = "finished" THEN "completed" ELSE "failed",
                           ~rejected /\ k = Len(frames))
    /\ UNCHANGED <<channelVars, mode, seen, text, stopping, late, peer>>

\* The terminal event of a JSON response.  With token ids the serialized body may
\* be over the limit although its text is not.
CollectTerminal ==
    /\ ~mode.stream /\ ~stopping
    /\ \E e \in ToSet(events), ok \in BOOLEAN, oversized \in BOOLEAN :
          /\ Receives(e) /\ e.kind # "token"
          /\ oversized => mode.ids
          /\ LET good == e.kind = "finished"
                 rejected == good /\ (~UsageValid(e) \/ oversized)
                 body == IF good /\ ~rejected THEN [body |-> text] ELSE Mark("error")
             IN  /\ Written(<<body>>, IF ok THEN 1 ELSE 0)
                 /\ Settle(IF rejected THEN "failed" ELSE IF ~ok THEN "disconnected"
                           ELSE IF good THEN "completed" ELSE "failed",
                           ~rejected /\ ok)
    /\ UNCHANGED <<channelVars, mode, seen, text, stopping, late, peer>>

\* recv_timeout times out: the client is probed.
RecvTimeout ==
    /\ pc = "recv" /\ taken = Len(events)
    /\ \E gone \in BOOLEAN :
          /\ Disconnected(gone)
          /\ IF gone THEN Finish("disconnected") ELSE pc' = "poll" /\ UNCHANGED <<cancelled, log>>
    /\ UNCHANGED <<channelVars, mode, taken, seen, text, response, stopping, late, peer>>

\* The channel was hung up without a terminal event.
ChannelDisconnected ==
    /\ pc = "recv" /\ taken = Len(events) /\ sender = "gone"
    /\ WriteError
    /\ Finish("failed")
    /\ UNCHANGED <<channelVars, mode, taken, seen, text, stopping, late, peer>>

Worker ==
    \/ Start \/ EventWait \/ Expire \/ RefuseEvent \/ TokenInvalid
    \/ StreamToken \/ CollectToken \/ StreamTerminal \/ CollectTerminal
    \/ RecvTimeout \/ ChannelDisconnected

-----------------------------------------------------------------------------
(* Everything else. *)

\* The engine sends what RequestStream lets it send, up to the bound.
Produce ==
    /\ (Engine!Emit /\ Len(events) < Limit) \/ Engine!End \/ Engine!HangUp
    /\ UNCHANGED <<mode, deliveringVars, stopping, late, peer>>

Stop == ~stopping /\ stopping' = TRUE /\ UNCHANGED <<channelVars, mode, deliveringVars, late, peer>>
PassDeadline == ~late /\ late' = TRUE /\ UNCHANGED <<channelVars, mode, deliveringVars, stopping, peer>>
Leave == peer /\ peer' = FALSE /\ UNCHANGED <<channelVars, mode, deliveringVars, stopping, late>>

DeliveryInit ==
    /\ events = <<>> /\ sender = "alive"
    /\ mode \in [stream : BOOLEAN, ids : BOOLEAN]
    /\ taken = 0 /\ seen = 0 /\ text = 0 /\ response = <<>>
    /\ cancelled = FALSE /\ log = <<>> /\ pc = "submitted"
    /\ stopping = FALSE /\ late = FALSE /\ peer = TRUE

DeliveryNext == Worker \/ Produce \/ Stop \/ PassDeadline \/ Leave

\* The worker never blocks for longer than a poll interval or a write timeout, and
\* time passes; nothing is assumed of the engine, the client or the server.
DeliverySpec ==
    /\ DeliveryInit /\ [][DeliveryNext]_deliveryVars
    /\ WF_deliveryVars(Worker) /\ WF_deliveryVars(PassDeadline)

-----------------------------------------------------------------------------
(* Properties. *)

Tokens(n) == [i \in 1..n |-> Token(i)]

\* Whatever interleaves, a client reads a prefix of one well-formed response: the
\* head, the first tokens of its request, one terminal frame and [DONE] ("Stateful
\* SSE encoder enforcing delta -> finish -> [DONE] ordering"), or one JSON body;
\* never a finish frame and an error, never two bodies.
ResponseWellFormed ==
    IF mode.stream
    THEN \E n \in 0..seen, kind \in {"finish", "error"} :
            IsPrefix(response, <<Mark("head")>> \o Tokens(n) \o WithDone(kind))
    ELSE Len(response) <= 1

\* A request is observed as completed only if the response has everything the
\* engine sent, down to [DONE], and, where token ids are delivered, as many as the
\* usage reports: a token lost to a full channel is never passed off as success.
CompletedIsComplete ==
    log = <<"completed">> =>
        LET n == Len(events) - 1 IN
        /\ Engine!HasEnded /\ Last(events).kind = "finished"
        /\ response = IF mode.stream
                      THEN <<Mark("head")>> \o Tokens(n) \o WithDone("finish")
                      ELSE <<[body |-> n]>>
        /\ mode.ids => Last(events).n = n

\* What the client reads is at every moment a prefix of a valid response, and
\* what is counted as a success is one.
ResponseFaithful == ResponseWellFormed /\ CompletedIsComplete

\* A worker leaves a request behind with exactly one observation, and either the
\* engine was told to cancel it or the client got the answer to its terminal
\* event: no early return leaks a running request.
RequestsSettled ==
    pc = "done" =>
        /\ Len(log) = 1
        /\ cancelled \/ (/\ Engine!HasEnded /\ taken = Len(events)
                         /\ response # <<>> /\ Last(response) # Mark("head"))

\* The worker is done with every request, although its engine and its client may
\* fall silent for ever.
DeliveryEnds == pc = "submitted" ~> pc = "done"
=============================================================================
