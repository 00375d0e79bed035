------------------------------ MODULE Checklist ------------------------------
(***************************************************************************)
(* consumptionPlan of modules/inventory/inventory.service.ts: a checklist  *)
(* becomes a Map from SKU to total quantity, in order of first occurrence. *)
(* An item counts when it is done and names a SKU; a quantity that is not  *)
(* a positive integer counts as 1.                                         *)
(***************************************************************************)
EXTENDS Integers, Sequences, Functions

CONSTANTS NoSku, NotInteger

(* item.sku is a non-empty string and item.done is true *)
Counts(item) == item.done /\ item.sku # NoSku
Quantity(item) == IF item.qty # NotInteger /\ item.qty > 0 THEN item.qty ELSE 1

(* mutant: the last quantity of a SKU wins *)
MAddTo(plan, item) ==
  IF ~Counts(item) THEN plan
  ELSE IF \E k \in DOMAIN plan : plan[k][1] = item.sku
  THEN [k \in DOMAIN plan |->
          IF plan[k][1] = item.sku THEN <<item.sku, Quantity(item)>> ELSE plan[k]]
  ELSE Append(plan, <<item.sku, Quantity(item)>>)

(* plan.set(sku, (plan.get(sku) ?? 0) + qty): an existing key keeps its    *)
(* place, a new one goes last.                                             *)
AddTo(plan, item) ==
  IF ~Counts(item) THEN plan
  ELSE IF \E k \in DOMAIN plan : plan[k][1] = item.sku
  THEN [k \in DOMAIN plan |->
          IF plan[k][1] = item.sku THEN <<item.sku, plan[k][2] + Quantity(item)>>
                                   ELSE plan[k]]
  ELSE Append(plan, <<item.sku, Quantity(item)>>)

(* for (const item of checklist): Plans(checklist)[n] is the plan of the   *)
(* first n items.                                                          *)
Plans(checklist) ==
  LET PlanOf[n \in 0..Len(checklist)] ==
        IF n = 0 THEN <<>> ELSE AddTo(PlanOf[n - 1], checklist[n])
  IN  PlanOf

ConsumptionPlan(checklist) == Plans(checklist)[Len(checklist)]

-----------------------------------------------------------------------------
(* What the plan is checked against: the items of a SKU, and their total. *)

Counting(checklist, sku) ==
  {k \in DOMAIN checklist : Counts(checklist[k]) /\ checklist[k].sku = sku}

Total(checklist, sku) ==
  SumFunction([k \in Counting(checklist, sku) |-> Quantity(checklist[k])])
=============================================================================
