---------------------------- MODULE MCInvoicing ----------------------------
(* Instances of Invoicing, Brief and InvoiceText for TLC: one tenant with  *)
(* two customers; what the behaviour is about is chosen at its start.      *)
EXTENDS Brief, InvoiceText, TLC

CONSTANTS n1, u1, u2, t1, t2, a, b, r1, r2, r3, e1, e2

MCTenantOf   == [u \in Customers |-> n1]
MCLockKey    == [n \in Tenants |-> 1]
MCCustomerOf == (t1 :> u1) @@ (t2 :> u2)
MCChecklist  == (t1 :> <<a, b>>) @@ (t2 :> <<b>>)
MCAsks       == [r \in Runs |-> IF r = r3 THEN u2 ELSE u1]
MCPeriod     == [r \in Runs |-> Tasks]

(* The first task comes from a quote, the second is a visit to a unit; the *)
(* other unit is never visited.                                            *)
MCWorth      == t1 :> 9
MCValidUntil == t1 :> 1
MCUnitOf     == t2 :> e1
MCParts      == (t1 :> [cost |-> 4, unknown |-> 0]) @@ (t2 :> [cost |-> 0, unknown |-> 1])
MCLimit      == [s \in {"today", "moves", "quotes", "unbilled", "facts", "list"} |->
                   IF s = "facts" THEN 2 ELSE 1]
MCGroupings  == {MCCustomerOf, [t \in Tasks |-> Never]}

Waits == <<"approved", "unbilled", "due">>
Bills == <<"unbilled", "estimate">>
Upkeep == <<"due", "value">>
Talk  == <<"today", "moves", "quotes", "week">>
Report == <<"facts", "report">>
Counters == <<"stats">>
MCPlans == {Waits, Bills, Upkeep, Talk, Report, Counters}

(* Every line of up to five characters, of every kind the code tells apart. *)
MCLines == UNION {[1..n -> {"hebrew", "latin", "digit", "glue", "space", "(", ")"}] : n \in 1..5}

VARIABLE scene

invoicingSceneVars == <<briefVars, textVars, scene>>

InvoicingInit ==
  /\ TextInit
  /\ \/ scene = "line"
     \/ scene \in {"sheet", "invoices", "brief"} /\ line = <<"space">> /\ align = "right"
  /\ Init /\ (scene \in {"line", "sheet"} => \A n \in Tenants, c \in Codes : price[n][c] = NoPrice)
  /\ BriefInit
  /\ IF scene = "brief"
       THEN kept = {e1, e2} /\ \A n \in Tenants, c \in Codes : price[n][c] # NoPrice
       ELSE kept = {} /\ brief.plan = Talk

AboutInvoices(A) == scene = "invoices" /\ A /\ UNCHANGED <<bookVars, readVars, textVars, scene>>
AboutText ==
  /\ \/ scene = "line" /\ (ResolveDirections \/ Write)
     \/ scene = "sheet" /\ (WriteRow \/ WriteTotal)
  /\ UNCHANGED <<briefVars, scene>>

(* In the brief's scene the visit is never given a time, nothing is        *)
(* followed once the brief is answered, and what no statement of the plan  *)
(* reads does not change.                                                  *)
AboutBrief(A) ==
  /\ scene = "brief" /\ brief.page = "loading"
  /\ A
  /\ fixed'[t2] = Never /\ t2 \notin moving'
  /\ brief.plan # Talk => moving' = {}
  /\ fixed'[t1] \in CASE brief.plan = Waits -> {Never, 1} [] brief.plan = Talk -> Days [] OTHER -> {Never}
  /\ brief.plan \notin {Bills, Report} => price' = price
  /\ \A r \in Runs : pc'[r] # "idle" => <<brief.plan, r>> \in {<<Waits, r1>>, <<Bills, r1>>, <<Upkeep, r3>>, <<Report, r1>>}
  /\ UNCHANGED <<textVars, scene>>

InvoicingSpec ==
  /\ InvoicingInit
  /\ [][AboutInvoices(Next) \/ AboutBrief(BriefNext) \/ AboutText]_invoicingSceneVars
  /\ \A r \in Runs : WF_vars(Step(r))
=============================================================================
