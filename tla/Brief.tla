-------------------------------- MODULE Brief --------------------------------
(***************************************************************************)
(* What the owner is told of the business: the morning brief and the       *)
(* counters of the dashboard, the list of equipment that is due, and the   *)
(* profitability report, all computed by SQL of their own from the rows    *)
(* that invoicing, quotes, bookings and closes write.  The brief is one    *)
(* READ COMMITTED transaction of nine statements, each of which sees what  *)
(* is committed when it runs; the report has two, the counters one.        *)
(* A behaviour follows some of them, in their order: a statement           *)
(* changes nothing that another one reads, except that the estimate is of  *)
(* the unbilled jobs, the value is of the equipment that is due, and the   *)
(* report is of the jobs found.                                            *)
(* Invoicing supplies the closes, the price list and the invoices; tasks   *)
(* come from an approved quote or from a booking.  Time is counted in days.*)
(***************************************************************************)
EXTENDS Invoicing, FiniteSetsExt, Functions

CONSTANTS
  Home,        \* the tenant whose owner reads
  Worth,       \* Worth[t]: totalAmount of the quote task t comes from
  ValidUntil,  \* ValidUntil[t]: the last day of that quote
  Units,       \* pieces of equipment, all created on day 0
  UnitOf,      \* UnitOf[t]: the equipment of a visit t that was booked
  Interval,    \* serviceIntervalMonths, in days
  DueWithin, ExpiryWarning, Lookback, Year, WeekLength,
  Limit,       \* Limit[s]: the most rows of statement s, if it has a LIMIT
  MonthStarts, \* first days of months
  Parts,       \* Parts[t]: what t consumed: cost, and items whose cost is unknown
  Plans,       \* statements of one answer to follow, or some of them
  Urgent,      \* tasks of priority 1
  Groupings,   \* set of functions from tasks to what a report groups them by
  MaxDay,      \* bound: the last day
  Never

Quoted == DOMAIN Worth
Visits == DOMAIN UnitOf
Days == 0..MaxDay

(* The statements of the brief in their order, those of the report, that   *)
(* of the counters; and which answer an answer is about.                   *)
StatementNames ==
  {"today", "moves", "quotes", "approved", "unbilled", "estimate", "due", "value", "week",
   "facts", "report", "stats"}
Needs == [estimate |-> "unbilled", value |-> "due", report |-> "facts"]

ASSUME BriefAssumption ==
  /\ Home \in Tenants /\ Never \notin Nat /\ Prices \subseteq Nat
  /\ Quoted \cup Visits = Tasks /\ Quoted \cap Visits = {} /\ DOMAIN ValidUntil = Quoted /\ IsFiniteSet(Quoted)
  /\ UnitOf \in [Visits -> Units] /\ IsFiniteSet(Units)
  /\ 0 \in MonthStarts /\ MonthStarts \subseteq Nat
  /\ {Interval, DueWithin, Lookback, Year, WeekLength} \subseteq Nat /\ WeekLength < Lookback
  /\ Limit \in [{"today", "moves", "quotes", "unbilled", "facts", "list"} -> Nat \ {0}]
  /\ Parts \in [Tasks -> [cost : Nat, unknown : Nat]]
  /\ \A plan \in Plans :
       /\ plan \in Seq(StatementNames)
       /\ \A j, k \in DOMAIN plan : plan[j] = plan[k] => j = k
       /\ \A s \in DOMAIN Needs : \A k \in DOMAIN plan :
            plan[k] = s => \E j \in 1 .. k - 1 : plan[j] = Needs[s]

VARIABLES
  day,
  made,      \* tasks that have a row
  bornOn,    \* createdAt of tasks, and approvedAt of their quotes
  fixed,     \* scheduledStart
  moving,    \* tasks with a rescheduleRequest
  closedOn,  \* closedAt
  serviced,  \* COALESCE(lastServicedAt, createdAt) of equipment
  kept,      \* equipment whose isActive is set
  brief,     \* the answer as far as it has been read, and the page
  still,     \* history: what has been waiting since the brief began,
  ever       \* history: and what has been waiting at some moment of it

bookVars == <<day, made, bornOn, fixed, moving, closedOn, serviced, kept>>
readVars == <<brief, still, ever>>
briefVars == <<vars, bookVars, readVars>>

Open == made \ closed
Presets == {"this month", "last month", "90 days"}
Statements == brief.plan
NotRead(plan) ==
  [s \in {plan[k] : k \in DOMAIN plan} |-> IF s \in {"estimate", "value", "week", "facts", "report", "stats"} THEN Never ELSE {}]
Kinds == DOMAIN brief.read \cap {"today", "moves", "quotes", "approved", "unbilled", "due"}
MoneyKinds == Kinds \cap {"approved", "unbilled", "due"}

BriefInit ==
  /\ day = 0 /\ made = {} /\ moving = {}
  /\ bornOn = [t \in Tasks |-> Never] /\ closedOn = bornOn /\ fixed = bornOn
  /\ serviced = [e \in Units |-> 0]
  /\ kept \in SUBSET Units
  /\ \E plan \in Plans :
       \E p \in IF "facts" \in DOMAIN NotRead(plan) THEN Presets ELSE {"this month"} :
         brief = [plan |-> plan, preset |-> p, period |-> <<0, 0>>, at |-> 0, page |-> "loading",
                  read |-> NotRead(plan)]
  /\ still = [k \in Kinds |-> {}] /\ ever = still

-----------------------------------------------------------------------------
(* The books: what the rest of the system writes. *)

Sum(f(_), S) == SumFunctionOnSet([x \in S |-> f(x)], S)
Count(S) == Cardinality(S)

OpenVisits(e) == {t \in Open \cap Visits : UnitOf[t] = e}

(* The customer approves the quote, or books the visit. *)
Arrives(t) ==
  /\ t \notin made
  /\ \/ t \in Quoted /\ day <= ValidUntil[t]
     \/ t \in Visits /\ UnitOf[t] \in kept /\ OpenVisits(UnitOf[t]) = {}
  /\ made' = made \cup {t}
  /\ bornOn' = [bornOn EXCEPT ![t] = day]
  /\ UNCHANGED <<vars, day, fixed, moving, closedOn, serviced, kept>>

(* A new time answers the request for another one. *)
Schedule(t, d) ==
  /\ t \in Open /\ fixed[t] # d
  /\ fixed' = [fixed EXCEPT ![t] = d]
  /\ moving' = moving \ {t}
  /\ UNCHANGED <<vars, day, made, bornOn, closedOn, serviced, kept>>

AskToMove(t) ==
  /\ t \in Open \ moving /\ moving' = moving \cup {t}
  /\ UNCHANGED <<vars, day, made, bornOn, fixed, closedOn, serviced, kept>>

(* The close moves the service date of the equipment, forward only. *)
Complete(t) ==
  /\ t \in made /\ Close(t)
  /\ closedOn' = [closedOn EXCEPT ![t] = day]
  /\ serviced' = [e \in Units |->
       IF t \in Visits /\ UnitOf[t] = e THEN Max({serviced[e], day}) ELSE serviced[e]]
  /\ UNCHANGED <<day, made, bornOn, fixed, moving, kept>>

NextDay ==
  /\ day < MaxDay /\ day' = day + 1
  /\ UNCHANGED <<vars, made, bornOn, fixed, moving, closedOn, serviced, kept>>

-----------------------------------------------------------------------------
(* The statements of the brief, and which of the rows they return: all, or *)
(* as many as the limit of the statement, whichever its order puts first.  *)

Found(s, S) == IF s \in DOMAIN Limit THEN kSubset(Min({Count(S), Limit[s]}), S) ELSE {S}
Full(s, S) == s \in DOMAIN Limit /\ Count(S) = Limit[s]
Fits(s, S) == s \in DOMAIN Limit => Count(S) <= Limit[s]

Ours(t) == TenantOf[CustomerOf[t]] = Home

Today == {t \in made : Ours(t) /\ fixed[t] = day}

Moves == {t \in moving : t \in Open /\ Ours(t)}

ExpiringQuotes ==
  {t \in Quoted \ made : Ours(t) /\ day <= ValidUntil[t] /\ ValidUntil[t] <= day + ExpiryWarning}

ApprovedUnscheduled == {t \in Quoted \cap Open : Ours(t) /\ fixed[t] = Never}

BilledTasks == {l.task : l \in BilledLines}

Unbilled == {t \in closed : Ours(t) /\ closedOn[t] + Lookback >= day /\ t \notin BilledTasks}

(* mutant: a code without an active price is taken at the dearest one *)
MEstimateFromChecklist(t, of) ==
  Sum(LAMBDA c : IF of[c] = NoPrice THEN Max(Prices) ELSE of[c],
      {Checklist[t][k] : k \in DOMAIN Checklist[t]})

(* Done items with an active price, each code once. *)
EstimateFromChecklist(t, of) ==
  Sum(LAMBDA c : IF of[c] = NoPrice THEN 0 ELSE of[c],
      {Checklist[t][k] : k \in DOMAIN Checklist[t]})

EstimateOf(T) == Sum(LAMBDA t : EstimateFromChecklist(t, price[Home]), T)

(* mutant: equipment with a visit under way is due, too *)
MMaintenanceDue == {e \in kept : serviced[e] + Interval <= day + DueWithin}

MaintenanceDue ==
  {e \in kept : serviced[e] + Interval <= day + DueWithin /\ OpenVisits(e) = {}}

BilledFor(t) == Sum(LAMBDA l : l.amount, {l \in BilledLines : l.task = t})

(* What a billed visit of the last year brought, by the visits; the page   *)
(* shows their average times the count, or nothing without a history.      *)
BilledVisits == {t \in Visits \cap closed \cap BilledTasks : closedOn[t] + Year >= day}

MaintenanceEstimate(T, n) ==
  IF T = {} \/ n = 0 THEN Never ELSE (Sum(BilledFor, T) * n) \div Count(T)

Recent(when) == {t \in Tasks : Ours(t) /\ when[t] # Never /\ when[t] + WeekLength >= day}

(* booked, approved and closed of the last seven days; the counts of       *)
(* confirmations and of links have the same form                           *)
Week == [booked |-> Recent(bornOn) \cap Visits, approved |-> Recent(bornOn) \cap Quoted,
         closed |-> Recent(closedOn)]

-----------------------------------------------------------------------------
(* The statements of the other screens. *)

MonthStart == Max({m \in MonthStarts : m <= day})

OpenTasks == {t \in Open : Ours(t)}
ClosedThisMonth == {t \in closed : Ours(t) /\ closedOn[t] >= MonthStart}
OverdueUrgent == {t \in OpenTasks \cap Urgent : bornOn[t] + 1 < day}

(* due(withinDays); remind refuses one that is inactive or has an open task *)
DueLists ==
  Found("list", {e \in kept : serviced[e] + Interval <= day + DueWithin /\ OpenVisits(e) = {}})
Remindable(e) == e \in kept /\ OpenVisits(e) = {}

(* activation: the first two of its four steps *)
Activated == [priceList |-> \E c \in Codes : price[Home][c] # NoPrice, equipment |-> Units # {}]

(* The days that the report's page asks for; 90 days end with today, so    *)
(* they leave out the first of those the brief looks back to.              *)
PeriodOf(p) ==
  LET before == {m \in MonthStarts : m < MonthStart} IN
  CASE p = "this month" -> <<MonthStart, day>>
    [] p = "last month" -> <<IF before = {} THEN 0 ELSE Max(before), MonthStart - 1>>
    [] p = "90 days" -> <<day - Min({day, Lookback - 1}), day>>

(* The tasks closed in a period, with what was billed for them, ... *)
JobsIn(period) == {t \in closed : Ours(t) /\ period[1] <= closedOn[t] /\ closedOn[t] <= period[2]}
Facts(T) == [t \in T |-> IF t \in BilledTasks THEN BilledFor(t) ELSE Never]
Reports(period) == {Facts(T) : T \in Found("facts", JobsIn(period))}

(* mutant: what was billed is added to the estimate *)
MRevenueOf(F, t) == (IF F[t] = Never THEN 0 ELSE F[t]) + EstimateFromChecklist(t, price[Home])

RevenueOf(F, t) == IF F[t] = Never THEN EstimateFromChecklist(t, price[Home]) ELSE F[t]

(* ... a line of the report for some of them, ... *)
LineOf(F) ==
  LET T == DOMAIN F IN
  [jobs |-> Count(T), revenue |-> Sum(LAMBDA t : RevenueOf(F, t), T),
   cost |-> Sum(LAMBDA t : Parts[t].cost, T),
   hasEstimates |-> \E t \in T : F[t] = Never /\ EstimateFromChecklist(t, price[Home]) # 0,
   partial |-> \E t \in T : Parts[t].unknown > 0]

(* ... and the lines by groups. *)
Aggregate(F, key) ==
  {[key |-> k, line |-> LineOf([t \in {t \in DOMAIN F : key[t] = k} |-> F[t]])] :
     k \in {key[t] : t \in DOMAIN F}}

(* What a statement would have to tell of, and what it may answer. *)
Waiting(k) ==
  CASE k = "today" -> Today
    [] k = "moves" -> Moves
    [] k = "quotes" -> ExpiringQuotes
    [] k = "approved" -> ApprovedUnscheduled
    [] k = "unbilled" -> Unbilled
    [] k = "due" -> MaintenanceDue

Answers(s) ==
  CASE s \in Kinds -> Found(s, Waiting(s))
    [] s = "estimate" -> {EstimateOf(brief.read.unbilled)}
    [] s = "value" -> {MaintenanceEstimate(BilledVisits, Count(brief.read.due))}
    [] s = "week" -> {Week}
    [] s = "facts" -> Reports(brief.period)
    [] s = "report" -> {LineOf(brief.read.facts)}
    [] s = "stats" -> {[open |-> Count(OpenTasks), closed |-> Count(ClosedThisMonth),
                        overdue |-> Count(OverdueUrgent)]}

(* A page asks; recordActivity writes a row nobody here reads. *)
BriefBegins ==
  /\ brief.at = 0 /\ brief.page = "loading"
  /\ brief' = [brief EXCEPT !.at = 1, !.period = PeriodOf(brief.preset)]
  /\ still' = [k \in Kinds |-> Waiting(k)] /\ ever' = still'
  /\ UNCHANGED <<vars, bookVars>>

BriefReads ==
  /\ brief.at \in DOMAIN Statements
  /\ LET s == Statements[brief.at] IN \E found \in Answers(s) :
       brief' = [brief EXCEPT !.at = @ + 1, !.read[s] = found,
                              !.page = IF brief.at = Len(Statements) THEN "data" ELSE "loading"]
  /\ UNCHANGED <<vars, bookVars>>

(* The transaction or the request fails, after its retries. *)
BriefFails ==
  /\ brief.at \in DOMAIN Statements
  /\ brief' = [brief EXCEPT !.at = 0, !.page = "error", !.read = NotRead(Statements)]
  /\ UNCHANGED <<vars, bookVars>>

(* What is waiting is followed while the brief is read.                    *)
Follow ==
  IF brief.at \in DOMAIN Statements
    THEN /\ still' = [k \in Kinds |-> still[k] \cap Waiting(k)']
         /\ ever' = [k \in Kinds |-> ever[k] \cup Waiting(k)']
    ELSE UNCHANGED <<still, ever>>

-----------------------------------------------------------------------------
(* The pages. *)

MoneyRows(b) == {k \in MoneyKinds : Count(b[k]) > 0}
Replies(b) == Count(b.moves) + Count(b.quotes)

(* The card of a brief that could be read, or what stands in its place:    *)
(* an error is shown before any data is looked at.                         *)
MoneyCard ==
  CASE brief.page = "loading" -> "skeleton"
    [] brief.page = "error" -> "retry"
    [] OTHER -> IF MoneyRows(brief.read) = {} THEN "all is handled" ELSE "rows"

(* The card of the week, and the list of first steps: the next of them.    *)
WeekLines(w) == {k \in DOMAIN w : Count(w[k]) > 0}
NextStep ==
  IF ~Activated.priceList THEN "priceList" ELSE IF ~Activated.equipment THEN "equipment" ELSE "later"

(* A counter, which is not 0 when it is unknown; and the month's revenue.  *)
Stat(k) ==
  CASE brief.page = "loading" -> "skeleton" [] brief.page = "error" -> "unknown"
    [] OTHER -> brief.read.stats[k]
Banner == brief.page = "data" /\ brief.read.stats.overdue > 0

(* The page of the report, and what it says of its total.                  *)
ReportCard ==
  CASE brief.page = "loading" -> "skeleton" [] brief.page = "error" -> "retry"
    [] OTHER -> IF DOMAIN brief.read.facts = {} THEN "none closed" ELSE "lines"
Caveats(l) ==
  {"labour"} \cup (IF l.partial THEN {"partial"} ELSE {}) \cup (IF l.hasEstimates THEN {"estimates"} ELSE {})

-----------------------------------------------------------------------------
BookStep ==
  \/ \E t \in Tasks : Arrives(t) \/ AskToMove(t) \/ Complete(t)
  \/ \E t \in Tasks, d \in day..MaxDay : Schedule(t, d)
  \/ NextDay
  \/ /\ \/ \E c \in Codes, p \in Prices \cup {NoPrice} : EditPrice(Home, c, p)
        \/ \E r \in Runs : ReadBilled(r) \/ Step(r)
     /\ UNCHANGED bookVars

BriefNext ==
  \/ BookStep /\ Follow /\ UNCHANGED brief
  \/ BriefBegins
  \/ (BriefReads \/ BriefFails) /\ Follow

BriefSpec == Init /\ BriefInit /\ [][BriefNext]_briefVars

-----------------------------------------------------------------------------
(* Properties. *)

(* Screens that speak of the same thing say the same at every moment,      *)
(* although each computes it in its own way: if no limit cuts them short,  *)
(* the jobs the brief finds unbilled, but those closed on the first of the *)
(* days it looks back to, are those of the report of 90 days that have no  *)
(* line, and the estimate of them is that report's revenue without what    *)
(* was billed; a job closed in the last week is in the report of 90 days;  *)
(* a bill that takes its prices now comes to the estimate of what it       *)
(* bills; the dashboard's closed jobs are those of the report of the       *)
(* month, or more if that is full; every group of a report adds up to its  *)
(* total; and the brief counts the equipment on the list of what is due,   *)
(* or more if that list is full, and all can be reminded.                  *)
ScreensAgree ==
  /\ \A F \in Reports(PeriodOf("90 days")), U \in Found("unbilled", Unbilled) :
       LET rows == DOMAIN F
           total == LineOf(F)
           shared == {t \in U : closedOn[t] + Lookback > day}
       IN
       /\ Fits("facts", JobsIn(PeriodOf("90 days"))) /\ Fits("unbilled", Unbilled) =>
            /\ shared = rows \ BilledTasks
            /\ EstimateOf(shared) + Sum(BilledFor, rows) = total.revenue
            /\ total.hasEstimates = (EstimateOf(shared) # 0)
       /\ total.revenue # Sum(BilledFor, rows) => "estimates" \in Caveats(total)
       /\ rows = {} => "closed" \notin WeekLines(Week)
       /\ \A key \in Groupings :
            LET groups == Aggregate(F, key) IN
            /\ Sum(LAMBDA g : g.line.jobs, groups) = total.jobs
            /\ Sum(LAMBDA g : g.line.revenue, groups) = total.revenue
            /\ Sum(LAMBDA g : g.line.cost, groups) = total.cost
            /\ Caveats(total) = {"labour"} \cup UNION {Caveats(g.line) : g \in groups}
       /\ EstimateOf(U) # 0 => NextStep # "priceList"
  /\ \A r \in Runs : pc[r] = "prices" /\ Tenant(r) = Home /\ (\A t \in picked[r] : NamesCodesOnce(t)) =>
       Sum(LAMBDA l : l.amount, Priced(r)) = EstimateOf(picked[r])
  /\ \A F \in Reports(PeriodOf("this month")) :
       DOMAIN F \subseteq ClosedThisMonth /\ (DOMAIN F = ClosedThisMonth \/ Full("facts", DOMAIN F))
  /\ \A F \in Reports(PeriodOf("last month")) : ClosedThisMonth \cap DOMAIN F = {}
  /\ \A R \in DueLists :
       R \subseteq MaintenanceDue /\ (R = MaintenanceDue \/ Full("list", R))
  /\ \A e \in MaintenanceDue : Remindable(e)

(* Statements at different moments: what was waiting all the time is in    *)
(* the brief, unless that part is full, and what is in it was waiting at   *)
(* some moment.  So the card says that all is handled only if nothing      *)
(* waited throughout; no number is shown that has not been read; the       *)
(* warning of urgent jobs stands over open ones; and a report whose prices *)
(* are read after its jobs says what of its revenue is an estimate.        *)
BriefIsHonest ==
  /\ brief.page = "data" =>
       \A k \in Kinds :
         /\ still[k] \subseteq brief.read[k] \/ Full(k, brief.read[k])
         /\ brief.read[k] \subseteq ever[k]
  /\ MoneyCard = "all is handled" => \A k \in MoneyKinds : still[k] = {}
  /\ MoneyCard = "rows" => brief.at > Len(Statements)
  /\ "stats" \in DOMAIN brief.read => (Banner => Stat("open") > 0)
  /\ "report" \in DOMAIN brief.read /\ ReportCard = "lines" =>
       LET l == brief.read.report
           billed == {t \in DOMAIN brief.read.facts : brief.read.facts[t] # Never}
       IN  l.revenue # Sum(LAMBDA t : brief.read.facts[t], billed) => "estimates" \in Caveats(l)

(* What the owner reads is true of the business, if the books are kept:    *)
(* what is closed has been made.                                           *)
FiguresAreTrue == closed \subseteq made => ScreensAgree /\ BriefIsHonest
=============================================================================
