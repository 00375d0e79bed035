------------------------------ MODULE MCOutbox ------------------------------
(* Instances of Outbox for TLC. *)
EXTENDS OutboxDelivery

CONSTANTS h1, h2

MCHandlersFor  == [e \in Events |-> IF e = 1 THEN {h1, h2} ELSE {h2}]
MCOneHandler   == [e \in Events |-> {h1}]
=============================================================================
