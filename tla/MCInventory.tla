---------------------------- MODULE MCInventory ----------------------------
(* Instances of Inventory for TLC, with plans made from checklists, and    *)
(* its abstract specification; and of Lists, in behaviours of their own.   *)
EXTENDS Inventory, Lists, TLC

CONSTANTS a, b, t1, t2

Item(s, n) == [done |-> TRUE, sku |-> s, qty |-> n]

(* Both tasks use both SKUs, in opposite orders, t1 one of them twice; one *)
(* item is not done, one names no SKU, some quantities do not count.       *)
MCChecklist ==
  (t1 :> <<Item(a, 0), Item(NoSku, 2), Item(b, 1), Item(a, NotInteger)>>) @@
  (t2 :> <<Item(b, -1), [Item(a, 3) EXCEPT !.done = FALSE], Item(a, 1)>>)

MCLosses == {-1}

MCRowName == <<1, 2, 2>>

VARIABLE scene

inventorySceneVars == <<vars, listVars, scene>>

InventoryInit ==
  /\ Init /\ ListInit /\ scene \in {"stock", "lists"}
  /\ scene = "stock" => kind = "numbered" /\ level = <<>>

AboutStock(A) == scene = "stock" /\ A /\ UNCHANGED <<listVars, scene>>
AboutLists(A) == scene = "lists" /\ A /\ UNCHANGED <<vars, scene>>

InventoryNext == AboutStock(Next) \/ AboutLists(ListNext)

InventorySpec ==
  /\ InventoryInit /\ [][InventoryNext]_inventorySceneVars
  /\ \A c \in Consumers : WF_vars(Step(c))
=============================================================================
