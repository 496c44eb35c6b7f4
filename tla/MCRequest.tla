------------------------------ MODULE MCRequest ------------------------------
(***************************************************************************)
(* An instance for TLC of the two ends of a request's event stream: the    *)
(* engine that sends and the HTTP worker that delivers.  What lies between *)
(* them is module RequestStream: Engine implements it, Delivery consumes   *)
(* whatever it allows.  A behaviour therefore exercises one of them, its   *)
(* subject, and leaves the other where it starts.                          *)
(***************************************************************************)
EXTENDS EngineChannel, Delivery

VARIABLE subject

RequestInit ==
    /\ subject \in {"engine", "delivery"}
    /\ Init /\ (subject = "delivery" => ~worker.staging)
    /\ DeliveryInit /\ (subject = "engine" => mode = [stream |-> TRUE, ids |-> TRUE])

Engines(A) == subject = "engine" /\ A /\ UNCHANGED <<subject, deliveryVars>>
Delivers(A) == subject = "delivery" /\ A /\ UNCHANGED <<subject, vars>>

RequestNext == Engines(Next) \/ Delivers(DeliveryNext)

\* The fairness of Engine and of Delivery.
RequestSpec ==
    /\ RequestInit /\ [][RequestNext]_<<subject, vars, deliveryVars>>
    /\ WF_vars(Engines(WorkerNext))
    /\ WF_deliveryVars(Delivers(Worker)) /\ WF_deliveryVars(Delivers(PassDeadline))

-----------------------------------------------------------------------------

\* A worker gets done with its request, whatever engine and client do.
DeliveryReturns == subject = "delivery" => DeliveryEnds
==============================================================================
