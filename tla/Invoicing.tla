------------------------------ MODULE Invoicing ------------------------------
(***************************************************************************)
(* generateInvoice of modules/invoicing/invoicing.service.ts: a first      *)
(* transaction reads what is to be billed, a second one allocates the next *)
(* number under an advisory lock and writes the invoice with all its       *)
(* lines, and then the PDF is uploaded and the invoice finalised, outside  *)
(* of any transaction.  Several requests run at the same time; managers    *)
(* close tasks and edit the price list meanwhile.  Isolation is READ       *)
(* COMMITTED, so that every statement sees what is committed when it runs. *)
(***************************************************************************)
EXTENDS Naturals, Sequences, FiniteSets

CONSTANTS
  Tenants, Customers, Tasks, Codes,
  TenantOf,    \* TenantOf[u]: the tenant of customer u
  CustomerOf,  \* CustomerOf[t]: the customer of task t
  Checklist,   \* Checklist[t]: the price codes of its done items, in order
  Prices,      \* prices a manager may set; NoPrice: no active price
  LockKey,     \* tenantLockKey: 32 bits of hash, so that tenants may share it
  Runs,        \* calls of generateInvoice
  Asks,        \* Asks[r]: the customer run r bills
  Period,      \* Period[r]: tasks whose closedAt lies in the period of r
  MaxEdits,    \* bound: edits of the price list
  Faults,      \* subset of {"crash", "drive", "db"}
  NoPrice, NoRun, NoInvoice

(* A line is one done item of a checklist: pos is its place there. *)
Line == [task : Tasks, pos : Nat, code : Codes, amount : Prices]
Invoice == [number : Nat \ {0}, lines : SUBSET Line, status : {"DRAFT", "FINALIZED"}]

Keys == {LockKey[n] : n \in Tenants}

ASSUME InvoicingAssumption ==
  /\ TenantOf \in [Customers -> Tenants]
  /\ CustomerOf \in [Tasks -> Customers]
  /\ Checklist \in [Tasks -> Seq(Codes)]
  /\ Asks \in [Runs -> Customers]
  /\ Period \in [Runs -> SUBSET Tasks]
  /\ MaxEdits \in Nat
  /\ NoPrice \notin Prices /\ NoRun \notin Runs /\ NoInvoice \notin Invoice

VARIABLES
  closed,    \* tasks in status CLOSED
  price,     \* price[n][c]: active price of code c at tenant n
  edits,     \* edits of the price list so far, at most MaxEdits
  invoice,   \* invoice[r]: the invoice run r created, or NoInvoice
  lock,      \* lock[k]: the run whose transaction holds advisory lock k
  pc,        \* pc[r]: where run r is
  excluded,  \* excluded[r]: tasks it found already invoiced
  picked,    \* picked[r]: tasks it is going to bill
  lines,     \* lines[r]: the lines it has prepared
  next,      \* next[r]: the number it has allocated
  looked     \* history: looked[r]: whose invoices it found when it read them

runVars == <<excluded, picked, lines, next, looked>>
vars == <<closed, price, edits, invoice, lock, pc, runVars>>

(* How a run can end: answered with a final invoice, answered with a DRAFT, *)
(* refused with 409 or with 400, failed with 500, killed.                  *)
Ended == {"finalized", "draft", "conflict", "nothing", "failed", "killed"}
Pcs == {"idle", "tasks", "prices", "lock", "number", "insert", "upload",
        "finalize"} \cup Ended

TypeOK ==
  /\ closed \subseteq Tasks
  /\ price \in [Tenants -> [Codes -> Prices \cup {NoPrice}]]
  /\ edits \in 0..MaxEdits
  /\ invoice \in [Runs -> Invoice \cup {NoInvoice}]
  /\ lock \in [Keys -> Runs \cup {NoRun}]
  /\ pc \in [Runs -> Pcs]
  /\ excluded \in [Runs -> SUBSET Tasks]
  /\ picked \in [Runs -> SUBSET Tasks]
  /\ lines \in [Runs -> SUBSET Line]
  /\ next \in [Runs -> Nat]
  /\ looked \in [Runs -> SUBSET Runs]

Init ==
  /\ closed = {}
  /\ price \in [Tenants -> [Codes -> Prices \cup {NoPrice}]]
  /\ edits = 0
  /\ invoice = [r \in Runs |-> NoInvoice]
  /\ lock = [k \in Keys |-> NoRun]
  /\ pc = [r \in Runs |-> "idle"]
  /\ excluded = [r \in Runs |-> {}]
  /\ picked = [r \in Runs |-> {}]
  /\ lines = [r \in Runs |-> {}]
  /\ next = [r \in Runs |-> 0]
  /\ looked = [r \in Runs |-> {}]

Tenant(r)   == TenantOf[Asks[r]]
Key(r)      == LockKey[Tenant(r)]
Created     == {r \in Runs : invoice[r] # NoInvoice}
BilledLines == UNION {invoice[r].lines : r \in Created}
Billed(t, c) == \E l \in BilledLines : l.task = t /\ l.code = c
Numbers(n)  == {invoice[r].number : r \in {x \in Created : Tenant(x) = n}}

Goto(r, l) == pc' = [pc EXCEPT ![r] = l]

-----------------------------------------------------------------------------
(* The rest of the system: tasks are closed, the price list is edited.     *)

Close(t) ==
  /\ t \notin closed
  /\ closed' = closed \cup {t}
  /\ UNCHANGED <<price, edits, invoice, lock, pc, runVars>>

EditPrice(n, c, p) ==
  /\ edits < MaxEdits /\ price[n][c] # p
  /\ price' = [price EXCEPT ![n][c] = p]
  /\ edits' = edits + 1
  /\ UNCHANGED <<closed, invoice, lock, pc, runVars>>

-----------------------------------------------------------------------------
(* Phase 1: three reads in one READ COMMITTED transaction. *)

InvoicesOf(u) == {q \in Created : Asks[q] = u}

(* mutant: the lines are left to the unique index alone *)
MReadBilled(r) ==
  /\ pc[r] = "idle"
  /\ looked' = [looked EXCEPT ![r] = InvoicesOf(Asks[r])]
  /\ Goto(r, "tasks")
  /\ UNCHANGED <<closed, price, edits, invoice, lock, excluded, picked, lines, next>>

(* excludeTaskIds: tasks of this customer with at least one invoice line. *)
ReadBilled(r) ==
  /\ pc[r] = "idle"
  /\ looked' = [looked EXCEPT ![r] = InvoicesOf(Asks[r])]
  /\ excluded' = [excluded EXCEPT ![r] =
       {t \in Tasks : \E q \in InvoicesOf(Asks[r]) : \E l \in invoice[q].lines : l.task = t}]
  /\ Goto(r, "tasks")
  /\ UNCHANGED <<closed, price, edits, invoice, lock, picked, lines, next>>

ReadTasks(r) ==
  /\ pc[r] = "tasks"
  /\ LET found == {t \in closed \cap Period[r] : CustomerOf[t] = Asks[r]} \ excluded[r]
     IN  /\ picked' = [picked EXCEPT ![r] = found]
         /\ Goto(r, IF found = {} THEN "nothing" ELSE "prices")
  /\ UNCHANGED <<closed, price, edits, invoice, lock, excluded, lines, next, looked>>

(* Every done item with an active price becomes a line; the others are     *)
(* skipped.                                                                *)
Priced(r) ==
  LET of == price[Tenant(r)] IN
  UNION {{[task |-> t, pos |-> k, code |-> Checklist[t][k], amount |-> of[Checklist[t][k]]] :
             k \in {j \in DOMAIN Checklist[t] : of[Checklist[t][j]] # NoPrice}} :
         t \in picked[r]}

ReadPrices(r) ==
  /\ pc[r] = "prices"
  /\ lines' = [lines EXCEPT ![r] = Priced(r)]
  /\ Goto(r, IF Priced(r) = {} THEN "nothing" ELSE "lock")
  /\ UNCHANGED <<closed, price, edits, invoice, lock, excluded, picked, next, looked>>

-----------------------------------------------------------------------------
(* Phase 2: one transaction, from the advisory lock to the commit. *)

Lock(r) ==
  /\ pc[r] = "lock" /\ lock[Key(r)] = NoRun
  /\ lock' = [lock EXCEPT ![Key(r)] = r]
  /\ Goto(r, "number")
  /\ UNCHANGED <<closed, price, edits, invoice, runVars>>

(* The largest number of the tenant, or 0: COALESCE(MAX("invoiceNumber"), 0) *)
MaxNumber(n, m) ==
  /\ m \in Numbers(n) \cup {0}
  /\ \A k \in Numbers(n) : k <= m

(* mutant: the number comes from a sequence, which never goes back *)
MNumber(r) ==
  /\ pc[r] = "number"
  /\ next' = [next EXCEPT ![r] =
       1 + Cardinality({q \in Runs \ {r} : Tenant(q) = Tenant(r) /\ next[q] # 0})]
  /\ Goto(r, "insert")
  /\ UNCHANGED <<closed, price, edits, invoice, lock, excluded, picked, lines, looked>>

Number(r) ==
  /\ pc[r] = "number"
  /\ \E m \in Numbers(Tenant(r)) \cup {0} :
       MaxNumber(Tenant(r), m) /\ next' = [next EXCEPT ![r] = m + 1]
  /\ Goto(r, "insert")
  /\ UNCHANGED <<closed, price, edits, invoice, lock, excluded, picked, lines, looked>>

(* mutant: a session lock, which outlives the transaction *)
MUnlocked(r) == lock

Unlocked(r) == [k \in Keys |-> IF lock[k] = r THEN NoRun ELSE lock[k]]

(* mutant: no unique constraint on the lines *)
MUnconstrained(r) == FALSE
(* mutant: the constraint is on taskId alone *)
MPerTask(r) ==
  \E l \in lines[r] : \/ \E m \in BilledLines : m.task = l.task
                      \/ \E m \in lines[r] : l # m /\ l.task = m.task

(* @@unique([taskId, priceCode]), among the new lines too *)
Violates(r) ==
  \/ \E l \in lines[r] : Billed(l.task, l.code)
  \/ \E l, m \in lines[r] : l # m /\ l.task = m.task /\ l.code = m.code

(* @@unique([tenantId, invoiceNumber]) *)
NumberTaken(r) == next[r] \in Numbers(Tenant(r))

Refused(r) ==
  /\ pc[r] = "insert" /\ (Violates(r) \/ NumberTaken(r))
  /\ lock' = Unlocked(r)
  /\ Goto(r, IF NumberTaken(r) THEN "failed" ELSE "conflict")
  /\ UNCHANGED <<closed, price, edits, invoice, runVars>>

(* The transaction commits; the answer of the commit may get lost. *)
Insert(r) ==
  /\ pc[r] = "insert" /\ ~Violates(r) /\ ~NumberTaken(r)
  /\ invoice' = [invoice EXCEPT ![r] =
                    [number |-> next[r], lines |-> lines[r], status |-> "DRAFT"]]
  /\ lock' = Unlocked(r)
  /\ \/ Goto(r, "upload")
     \/ "db" \in Faults /\ Goto(r, "failed")
  /\ UNCHANGED <<closed, price, edits, runVars>>

-----------------------------------------------------------------------------
(* Phase 3: PDF and Drive, then the invoice is final; no transaction. *)

Upload(r) ==
  /\ pc[r] = "upload"
  /\ \/ Goto(r, "finalize")
     \/ "drive" \in Faults /\ Goto(r, "draft")
  /\ UNCHANGED <<closed, price, edits, invoice, lock, runVars>>

Finalize(r) ==
  /\ pc[r] = "finalize"
  /\ invoice' = [invoice EXCEPT ![r] = [number |-> invoice[r].number,
                       lines |-> invoice[r].lines, status |-> "FINALIZED"]]
  /\ Goto(r, "finalized")
  /\ UNCHANGED <<closed, price, edits, lock, runVars>>

(* A statement fails or a transaction reaches its ten seconds: rolled back *)
(* and answered with 500.                                                  *)
DbError(r) ==
  /\ "db" \in Faults
  /\ pc[r] \in Pcs \ (Ended \cup {"upload"})
  /\ lock' = Unlocked(r)
  /\ Goto(r, "failed")
  /\ UNCHANGED <<closed, price, edits, invoice, runVars>>

Crash(r) ==
  /\ "crash" \in Faults
  /\ pc[r] \in Pcs \ Ended
  /\ lock' = Unlocked(r)
  /\ Goto(r, "killed")
  /\ UNCHANGED <<closed, price, edits, invoice, runVars>>

-----------------------------------------------------------------------------
Step(r) ==
  \/ ReadTasks(r) \/ ReadPrices(r) \/ Lock(r) \/ Number(r) \/ Refused(r) \/ Insert(r)
  \/ Upload(r) \/ Finalize(r)

Next ==
  \/ \E t \in Tasks : Close(t)
  \/ \E n \in Tenants, c \in Codes, p \in Prices \cup {NoPrice} : EditPrice(n, c, p)
  \/ \E r \in Runs : ReadBilled(r) \/ Step(r) \/ DbError(r) \/ Crash(r)

Spec == Init /\ [][Next]_vars

(* A request that has started is never suspended for ever.  PostgreSQL     *)
(* queues the waiters of a lock, so that none of them is overtaken for     *)
(* ever; each run asks for it once, and weak fairness is enough.           *)
FairSpec == Spec /\ \A r \in Runs : WF_vars(Step(r))

-----------------------------------------------------------------------------
(* Properties. *)

(* The invoice numbers of a tenant are 1, 2, ..., without a repetition and *)
(* without a gap, whatever runs at the same time, fails or is killed.      *)
NumbersAreDense ==
  /\ \A q, r \in Created :
       Tenant(q) = Tenant(r) /\ invoice[q].number = invoice[r].number => q = r
  /\ \A r \in Created : 1..invoice[r].number \subseteq Numbers(Tenant(r))

(* No item of work is billed twice: a price code of a task is on at most   *)
(* one line of all invoices.                                               *)
BilledOnce ==
  \A q, r \in Created : \A l \in invoice[q].lines, m \in invoice[r].lines :
    l.task = m.task /\ l.code = m.code => q = r /\ l = m

NamesCodesOnce(t) ==
  \A j, k \in DOMAIN Checklist[t] : Checklist[t][j] = Checklist[t][k] => j = k

(* 409 means the first two things its text says: a run whose invoice was   *)
(* not there when this one looked has billed one of the very items that    *)
(* this one was going to bill, and this one has made no invoice.  A task   *)
(* whose checklist names a price code twice is not covered: its lines      *)
(* violate the unique index among themselves, and every run meets 409.     *)
ConflictMeansRace ==
  \A r \in Runs : pc[r] = "conflict" /\ (\A t \in picked[r] : NamesCodesOnce(t)) =>
    /\ invoice[r] = NoInvoice
    /\ \E q \in Created \ looked[r] : \E l \in lines[r], m \in invoice[q].lines :
         l.task = m.task /\ l.code = m.code

(* What the tax law asks of the numbers, in states of the right type.      *)
NumbersAreSound == TypeOK /\ NumbersAreDense

(* Every request is answered: nobody waits for the advisory lock for ever, *)
(* whoever dies while holding it.                                          *)
EveryRunEnds == \A r \in Runs : pc[r] # "idle" ~> pc[r] \in Ended
=============================================================================
