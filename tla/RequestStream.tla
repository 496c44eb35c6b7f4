---------------------------- MODULE RequestStream ----------------------------
(***************************************************************************)
(* What the engine promises the consumer of one request: the events of its *)
(* channel are the request's first tokens in order, none left out, then at *)
(* most one terminal event, and nothing follows it.  A channel may be hung *)
(* up at any point, with or without a terminal event (the channel was full *)
(* when it ended).  module Engine implements this for every request, and   *)
(* module Delivery, the HTTP worker that consumes it, relies on it.        *)
(***************************************************************************)
EXTENDS Naturals, Sequences, SequencesExt

CONSTANT Limit \* bound: tokens of a request

VARIABLES
    events, \* every event the channel ever took
    sender  \* "none" before submission, "alive" while an end to send with exists

streamVars == <<events, sender>>

Token(n) == [kind |-> "token", n |-> n]
Terminals == {"finished", "cancelled", "failed"}
HasEnded == events # <<>> /\ Last(events).kind \in Terminals

Init == events = <<>> /\ sender = "none"

Submit == sender = "none" /\ sender' = "alive" /\ UNCHANGED events

\* The next token, and no other.
Emit ==
    /\ sender = "alive" /\ ~HasEnded
    /\ events' = Append(events, Token(Len(events) + 1))
    /\ UNCHANGED sender

\* One terminal event; a success reports at least as many tokens as were emitted
\* (a request ended by shutdown may have shown text that is no token).  The last
\* sender may go with it.
End ==
    /\ sender = "alive" /\ ~HasEnded
    /\ \E kind \in Terminals, n \in 0..Limit :
          /\ kind = "finished" => n >= Len(events)
          /\ events' = Append(events, [kind |-> kind, n |-> n])
    /\ sender' \in {"alive", "gone"}

\* Senders are dropped once; also before the request was ever sent.
HangUp == sender # "gone" /\ sender' = "gone" /\ UNCHANGED events

Next == Submit \/ Emit \/ End \/ HangUp

Spec == Init /\ [][Next]_streamVars
=============================================================================
