----------------------------- MODULE StockLedger -----------------------------
(***************************************************************************)
(* What inventory promises: closing a task deducts its whole plan in one   *)
(* atomic step, at most once per item, and never below zero; a manager's   *)
(* correction is one atomic step too.  Transactions, locks and deliveries  *)
(* are not visible here.                                                   *)
(***************************************************************************)
EXTENDS Integers, Sequences

CONSTANTS Items, Tasks, Initially, StartQty, Plan, Deltas, NoTask

VARIABLES qty, ledger, exists

vars == <<qty, ledger, exists>>

Entry(d, a, t) == [delta |-> d, after |-> a, task |-> t]
Opening(q) == IF q = 0 THEN <<>> ELSE <<Entry(q, q, NoTask)>>
PlanItems(t) == {Plan[t][k][1] : k \in DOMAIN Plan[t]}
Need(t, i) == Plan[t][CHOOSE k \in DOMAIN Plan[t] : Plan[t][k][1] = i][2]
Deducted(t) == {i \in Items : \E k \in DOMAIN ledger[i] : ledger[i][k].task = t}

Init ==
  /\ exists = Initially
  /\ qty = [i \in Items |-> IF i \in Initially THEN StartQty ELSE 0]
  /\ ledger = [i \in Items |-> IF i \in Initially THEN Opening(StartQty) ELSE <<>>]

Create(i) ==
  \E q \in {0, StartQty} :
    /\ i \notin exists
    /\ exists' = exists \cup {i}
    /\ qty' = [qty EXCEPT ![i] = q]
    /\ ledger' = [ledger EXCEPT ![i] = Opening(q)]

Correct(i) ==
  \E d \in Deltas :
    /\ i \in exists /\ qty[i] + d >= 0
    /\ qty' = [qty EXCEPT ![i] = @ + d]
    /\ ledger' = [ledger EXCEPT ![i] = Append(@, Entry(d, qty[i] + d, NoTask))]
    /\ UNCHANGED exists

(* Every item of the plan that exists and is still open, except perhaps    *)
(* items created while the task was being handled.                         *)
Consume(t) ==
  \E S \in SUBSET ((PlanItems(t) \cap exists) \ Deducted(t)) :
    /\ S # {} /\ (PlanItems(t) \cap Initially) \ Deducted(t) \subseteq S
    /\ \A i \in S : qty[i] >= Need(t, i)
    /\ qty' = [i \in Items |-> IF i \in S THEN qty[i] - Need(t, i) ELSE qty[i]]
    /\ ledger' = [i \in Items |->
         IF i \in S THEN Append(ledger[i], Entry(0 - Need(t, i), qty[i] - Need(t, i), t))
                    ELSE ledger[i]]
    /\ UNCHANGED exists

Next ==
  \/ \E i \in Items : Create(i) \/ Correct(i)
  \/ \E t \in Tasks : Consume(t)

Spec == Init /\ [][Next]_vars
=============================================================================
