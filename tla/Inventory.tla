------------------------------ MODULE Inventory ------------------------------
(***************************************************************************)
(* Stock consumption: modules/inventory/inventory.service.ts.  The outbox  *)
(* delivers task.closed at least once, possibly twice at the same time; a  *)
(* consumer deducts every SKU of the task's checklist in one transaction,  *)
(* each UPDATE taking the row lock of its item until the end of the        *)
(* transaction, and then writes one low_stock row per alert, each in a     *)
(* transaction of its own.  Managers create items and adjust quantities.   *)
(* Isolation is READ COMMITTED: qty and ledger are the committed values,   *)
(* and an UPDATE reads the latest committed value once it has the lock.    *)
(***************************************************************************)
EXTENDS Integers, Sequences, FiniteSets, Checklist

CONSTANTS
  Items, Tasks, Consumers,
  Initially,       \* items that exist from the start
  StartQty,        \* their quantity
  ChecklistOf,     \* ChecklistOf[t]: the checklist of task t
  Threshold,       \* lowStockThreshold, the same for every item
  Deltas,          \* deltas a manager may enter
  MaxQty,          \* bound: largest quantity (the column is an int4)
  MaxMovements,    \* bound: movements of an item
  MaxDeliveries,   \* bound: deliveries of one task.closed event
  Faulty,          \* whether statements fail and processes die
  NoTask, NoConsumer

ChecklistItem == [done : BOOLEAN, sku : Items \cup {NoSku}, qty : Int \cup {NotInteger}]

ASSUME InventoryAssumption ==
  /\ Initially \subseteq Items
  /\ StartQty \in 0..MaxQty
  /\ ChecklistOf \in [Tasks -> Seq(ChecklistItem)]
  /\ Threshold \in Nat
  /\ Deltas \subseteq Int
  /\ MaxQty \in Nat /\ MaxMovements \in Nat /\ MaxDeliveries \in Nat
  /\ Faulty \in BOOLEAN
  /\ NoTask \notin Tasks /\ NoConsumer \notin Consumers

(* As <<item, qty>> pairs. *)
Plan == [t \in Tasks |-> ConsumptionPlan(ChecklistOf[t])]
PlanItems(t) == {Plan[t][k][1] : k \in DOMAIN Plan[t]}

VARIABLES
  exists,     \* items in the table
  qty,        \* qty[i]: committed quantity
  ledger,     \* ledger[i]: committed stock_movements of i, in order
  lock,       \* lock[i]: the consumer whose transaction holds the row lock
  pc,         \* pc[c]: where consumer c is in consumeForTask
  task,       \* task[c]: the task it consumes for
  known,      \* known[c]: items its findMany returned
  todo,       \* todo[c]: entries of its plan not deducted yet
  wrote,      \* wrote[c]: its uncommitted movements
  owed,       \* owed[c]: low_stock rows it has not written yet
  deliveries, \* deliveries[t]: how often task.closed was delivered
  hit,        \* history: tasks for which a fault has prevented low_stock rows
  lowStock    \* inventory.low_stock rows of the outbox: <<item, task>>

txVars == <<pc, task, known, todo, wrote, owed>>
vars == <<exists, qty, ledger, lock, txVars, deliveries, hit, lowStock>>

Movement == [delta : Int, after : Int, task : Tasks \cup {NoTask}]
Pending  == [item : Items, delta : Int, after : Int]
Entry    == [at : Nat, item : Items, qty : Nat \ {0}]
Pcs == {"idle", "items", "recorded", "deducting", "alerting"}

TypeOK ==
  /\ exists \subseteq Items
  /\ qty \in [Items -> Int]
  /\ ledger \in [Items -> Seq(Movement)]
  /\ lock \in [Items -> Consumers \cup {NoConsumer}]
  /\ pc \in [Consumers -> Pcs]
  /\ task \in [Consumers -> Tasks \cup {NoTask}]
  /\ known \in [Consumers -> SUBSET Items]
  /\ todo \in [Consumers -> SUBSET Entry]
  /\ wrote \in [Consumers -> SUBSET Pending]
  /\ owed \in [Consumers -> SUBSET Items]
  /\ deliveries \in [Tasks -> 0..MaxDeliveries]
  /\ hit \subseteq Tasks
  /\ lowStock \subseteq Items \X Tasks

Opening(q) == IF q = 0 THEN <<>> ELSE <<[delta |-> q, after |-> q, task |-> NoTask]>>

Init ==
  /\ exists = Initially
  /\ qty = [i \in Items |-> IF i \in Initially THEN StartQty ELSE 0]
  /\ ledger = [i \in Items |-> IF i \in Initially THEN Opening(StartQty) ELSE <<>>]
  /\ lock = [i \in Items |-> NoConsumer]
  /\ pc = [c \in Consumers |-> "idle"]
  /\ task = [c \in Consumers |-> NoTask]
  /\ known = [c \in Consumers |-> {}]
  /\ todo = [c \in Consumers |-> {}]
  /\ wrote = [c \in Consumers |-> {}]
  /\ owed = [c \in Consumers |-> {}]
  /\ deliveries = [t \in Tasks |-> 0]
  /\ hit = {}
  /\ lowStock = {}

(* Items for which a TASK_CONSUMPTION movement of t is committed. *)
Moved(t) == {i \in Items : \E k \in DOMAIN ledger[i] : ledger[i][k].task = t}

-----------------------------------------------------------------------------
(* Managers: create and adjustQuantity, each one transaction on one row.   *)

Create(i, q) ==
  /\ i \notin exists
  /\ exists' = exists \cup {i}
  /\ qty' = [qty EXCEPT ![i] = q]
  /\ ledger' = [ledger EXCEPT ![i] = Opening(q)]
  /\ UNCHANGED <<lock, txVars, deliveries, hit, lowStock>>

Adjust(i, d) ==
  /\ i \in exists /\ lock[i] = NoConsumer
  /\ qty[i] + d >= 0
  /\ qty[i] + d <= MaxQty /\ Len(ledger[i]) < MaxMovements
  /\ qty' = [qty EXCEPT ![i] = @ + d]
  /\ ledger' = [ledger EXCEPT ![i] =
                  Append(@, [delta |-> d, after |-> qty[i] + d, task |-> NoTask])]
  /\ UNCHANGED <<exists, lock, txVars, deliveries, hit, lowStock>>

-----------------------------------------------------------------------------
(* handleTaskClosed and consumeForTask of consumer c. *)

Deliver(c, t) ==
  /\ pc[c] = "idle" /\ deliveries[t] < MaxDeliveries
  /\ deliveries' = [deliveries EXCEPT ![t] = @ + 1]
  /\ pc' = [pc EXCEPT ![c] = "items"]
  /\ task' = [task EXCEPT ![c] = t]
  /\ UNCHANGED <<exists, qty, ledger, lock, known, todo, wrote, owed, hit, lowStock>>

ReadItems(c) ==
  /\ pc[c] = "items"
  /\ known' = [known EXCEPT ![c] = exists \cap PlanItems(task[c])]
  /\ pc' = [pc EXCEPT ![c] = "recorded"]
  /\ UNCHANGED <<exists, qty, ledger, lock, task, todo, wrote, owed, deliveries,
                 hit, lowStock>>

(* alreadyDeducted: what is recorded now is skipped, as is an unknown SKU. *)
ReadRecorded(c) ==
  /\ pc[c] = "recorded"
  /\ todo' = [todo EXCEPT ![c] =
       LET p == Plan[task[c]] IN
       {[at |-> k, item |-> p[k][1], qty |-> p[k][2]] :
          k \in {j \in DOMAIN p : p[j][1] \in known[c] \ Moved(task[c])}}]
  /\ pc' = [pc EXCEPT ![c] = "deducting"]
  /\ UNCHANGED <<exists, qty, ledger, lock, task, known, wrote, owed, deliveries,
                 hit, lowStock>>

(* The loop over the plan has come to its entry e. *)
At(c, e) == pc[c] = "deducting" /\ \A f \in todo[c] : e.at <= f.at

(* mutant: the row is not locked until the commit *)
MDecrement(c) ==
  \E e \in todo[c] : LET left == qty[e.item] - e.qty IN
    /\ At(c, e) /\ lock[e.item] = NoConsumer /\ left >= 0
    /\ wrote' = [wrote EXCEPT ![c] =
                   @ \cup {[item |-> e.item, delta |-> 0 - e.qty, after |-> left]}]
    /\ owed' = [owed EXCEPT ![c] = IF left <= Threshold THEN @ \cup {e.item} ELSE @]
    /\ todo' = [todo EXCEPT ![c] = @ \ {e}]
    /\ UNCHANGED <<exists, qty, ledger, lock, pc, task, known, deliveries, hit, lowStock>>

(* decrementOrFail: one UPDATE with its own floor, in checklist order. *)
Decrement(c) ==
  \E e \in todo[c] : LET left == qty[e.item] - e.qty IN
    /\ At(c, e) /\ lock[e.item] = NoConsumer /\ left >= 0
    /\ lock' = [lock EXCEPT ![e.item] = c]
    /\ wrote' = [wrote EXCEPT ![c] =
                   @ \cup {[item |-> e.item, delta |-> 0 - e.qty, after |-> left]}]
    /\ owed' = [owed EXCEPT ![c] = IF left <= Threshold THEN @ \cup {e.item} ELSE @]
    /\ todo' = [todo EXCEPT ![c] = @ \ {e}]
    /\ UNCHANGED <<exists, qty, ledger, pc, task, known, deliveries, hit, lowStock>>

(* mutant: the locks outlive the transaction *)
MUnlocked(c) == lock

Unlocked(c) == [i \in Items |-> IF lock[i] = c THEN NoConsumer ELSE lock[i]]

Leave(c) ==
  /\ pc' = [pc EXCEPT ![c] = "idle"]
  /\ task' = [task EXCEPT ![c] = NoTask]
  /\ known' = [known EXCEPT ![c] = {}]
  /\ todo' = [todo EXCEPT ![c] = {}]
  /\ wrote' = [wrote EXCEPT ![c] = {}]
  /\ owed' = [owed EXCEPT ![c] = {}]

(* The transaction rolls back.  handleTaskClosed swallows the error, so    *)
(* that the event counts as handled; whether it is delivered again, as     *)
(* after the death of the process, is left to Deliver.                     *)
GiveUp(c) ==
  /\ lock' = Unlocked(c)
  /\ Leave(c)
  /\ hit' = IF pc[c] = "alerting" /\ owed[c] # {} THEN hit \cup {task[c]} ELSE hit
  /\ UNCHANGED <<exists, qty, ledger, deliveries, lowStock>>

Insufficient(c) ==
  /\ \E e \in todo[c] : At(c, e) /\ lock[e.item] = NoConsumer /\ qty[e.item] < e.qty
  /\ GiveUp(c)

(* The transaction that holds the row c waits for, if it waits. *)
Awaited(c) == {lock[e.item] : e \in {f \in todo[c] : At(c, f)}} \ {NoConsumer}

(* PostgreSQL aborts one transaction of a cycle of lock waits (40P01). *)
InCycle(c) ==
  \E C \in SUBSET Consumers :
    c \in C /\ (\A d \in C : Awaited(d) # {}) /\ UNION {Awaited(d) : d \in C} = C

DeadlockVictim(c) == InCycle(c) /\ GiveUp(c)

(* mutant: the unique index is missing *)
MClashes(c) == FALSE

(* stockMovement.createMany meets @@unique([taskId, inventoryItemId, reason]). *)
Clashes(c) == \E m \in wrote[c] : m.item \in Moved(task[c])

Duplicate(c) ==
  /\ pc[c] = "deducting" /\ todo[c] = {} /\ Clashes(c)
  /\ GiveUp(c)

After(c, i) == CHOOSE m \in wrote[c] : m.item = i

CommitTx(c) ==
  /\ pc[c] = "deducting" /\ todo[c] = {} /\ ~Clashes(c)
  /\ LET S == {m.item : m \in wrote[c]}
     IN  /\ qty' = [i \in Items |-> IF i \in S THEN After(c, i).after ELSE qty[i]]
         /\ ledger' = [i \in Items |->
              IF i \in S THEN Append(ledger[i], [delta |-> After(c, i).delta,
                                                 after |-> After(c, i).after,
                                                 task  |-> task[c]])
                         ELSE ledger[i]]
  /\ lock' = Unlocked(c)
  /\ wrote' = [wrote EXCEPT ![c] = {}]
  /\ pc' = [pc EXCEPT ![c] = "alerting"]
  /\ UNCHANGED <<exists, task, known, todo, owed, deliveries, hit, lowStock>>

WriteLowStock(c) ==
  /\ pc[c] = "alerting"
  /\ \E i \in owed[c] :
       /\ lowStock' = lowStock \cup {<<i, task[c]>>}
       /\ owed' = [owed EXCEPT ![c] = @ \ {i}]
  /\ UNCHANGED <<exists, qty, ledger, lock, pc, task, known, todo, wrote, deliveries,
                 hit>>

Return(c) ==
  /\ pc[c] = "alerting" /\ owed[c] = {}
  /\ Leave(c)
  /\ UNCHANGED <<exists, qty, ledger, lock, deliveries, hit, lowStock>>

(* A statement fails for another reason, or the process dies. *)
Fail(c) == Faulty /\ pc[c] # "idle" /\ GiveUp(c)

Step(c) ==
  \/ ReadItems(c) \/ ReadRecorded(c) \/ Decrement(c) \/ Insufficient(c)
  \/ DeadlockVictim(c) \/ Duplicate(c) \/ CommitTx(c) \/ WriteLowStock(c) \/ Return(c)

Next ==
  \/ \E i \in Items : \/ \E q \in {0, StartQty} : Create(i, q)
                      \/ \E d \in Deltas : Adjust(i, d)
  \/ \E c \in Consumers : \/ \E t \in Tasks : Deliver(c, t)
                          \/ Step(c) \/ Fail(c)

Spec == Init /\ [][Next]_vars

(* A running handler is never suspended for ever, and PostgreSQL resolves  *)
(* every cycle of waits; nothing forces deliveries, managers or faults.    *)
FairSpec == Spec /\ \A c \in Consumers : WF_vars(Step(c))

(* The stock as one would describe it without transactions and locks.      *)
Ledger == INSTANCE StockLedger

-----------------------------------------------------------------------------
(* Properties. *)

(* The movements of an item replay to its quantity: every quantityAfter is *)
(* the previous one plus delta, and the last one is the current quantity.  *)
LedgerReplays ==
  \A i \in Items :
    /\ \A k \in DOMAIN ledger[i] :
         ledger[i][k].after = ledger[i][k].delta
                              + IF k = 1 THEN 0 ELSE ledger[i][k - 1].after
    /\ qty[i] = IF ledger[i] = <<>> THEN 0 ELSE ledger[i][Len(ledger[i])].after

(* No interleaving of deductions and corrections takes a quantity below 0. *)
NeverNegative == \A i \in Items : qty[i] >= 0

(* A task deducts an item at most once, however often and however          *)
(* concurrently its event is delivered.                                    *)
DeductedOnce ==
  \A i \in Items : \A j, k \in DOMAIN ledger[i] :
    ledger[i][j].task = ledger[i][k].task /\ ledger[i][j].task # NoTask => j = k

(* What an accountant asks of the stock, all three at once. *)
StockIsSound == LedgerReplays /\ NeverNegative /\ DeductedOnce

(* A deduction that reaches the threshold leaves an inventory.low_stock    *)
(* row in the outbox, or its handler is still about to write it, unless    *)
(* that handler was hit by a fault between its transactions.               *)
LowStockIsRecorded ==
  \A i \in Items : \A k \in DOMAIN ledger[i] :
    LET t == ledger[i][k].task IN
    t # NoTask /\ ledger[i][k].after <= Threshold =>
      \/ <<i, t>> \in lowStock \/ t \in hit
      \/ \E c \in Consumers : pc[c] = "alerting" /\ task[c] = t /\ i \in owed[c]

(* A task that deducts anything takes of every item that existed from the  *)
(* start just what its checklist says in total, all or nothing, and        *)
(* nothing of an item that does not count.                                 *)
DeductsChecklist ==
  \A t \in Tasks :
    /\ \A i \in Moved(t) : \A k \in DOMAIN ledger[i] :
         ledger[i][k].task = t =>
           /\ Counting(ChecklistOf[t], i) # {}
           /\ ledger[i][k].delta = 0 - Total(ChecklistOf[t], i)
    /\ Moved(t) # {} =>
         \A i \in Initially : i \in Moved(t) <=> Counting(ChecklistOf[t], i) # {}

(* The books: well formed, sound, and low stock is in the outbox.          *)
BooksAreSound == TypeOK /\ StockIsSound /\ LowStockIsRecorded

(* The transactions of all consumers and managers behave as single atomic  *)
(* deductions and corrections of the stock.                                *)
ActsAtomically == Ledger!Spec

(* Every delivery comes to an end: row locks are never waited for for ever. *)
EveryDeliveryEnds == \A c \in Consumers : pc[c] # "idle" ~> pc[c] = "idle"
=============================================================================
