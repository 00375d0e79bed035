--------------------------- MODULE OutboxDelivery ---------------------------
(* Outbox implements EventDelivery until a process dies, a statement       *)
(* fails, a worker stalls or an acknowledgement is lost: the promise covers *)
(* pushes that fail.                                                       *)
EXTENDS Outbox

StageOf(status) ==
  CASE status = "ABSENT" -> "absent"
    [] status \in {"PENDING", "PROCESSING"} -> "accepted"
    [] status = "DONE" -> "done"
    [] status = "DEAD" -> "dead"

Delivery == INSTANCE EventDelivery WITH
  stage    <- [e \in Events |-> StageOf(row[e].status)],
  reported <- fulfilled,
  tries    <- [e \in Events |-> row[e].attempts],
  covered  <- faults.pushOnly

(* The outbox delivers as promised: exactly one outcome per event, DONE    *)
(* only with every handler's success, DEAD only after the whole quota, and *)
(* one of the two in the end.                                              *)
DeliversAsPromised == Delivery!Spec
=============================================================================
