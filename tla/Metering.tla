------------------------------ MODULE Metering ------------------------------
(***************************************************************************)
(* src/llm and the call of it in intake-extraction.service.ts, for the     *)
(* mails of one tenant.  A call passes the check of the month's budget,    *)
(* tries the provider - Gemini through fetch, Anthropic through its SDK -  *)
(* until it answers or the error is final, and records what it cost in a   *)
(* transaction of its own; then its text is made into an extraction.       *)
(* Times of the clock are left out, and the amounts are scaled: a price is *)
(* per Million tokens.                                                     *)
(***************************************************************************)
EXTENDS Integers, FiniteSets

CONSTANTS
  Extractions,  \* calls of extractFromEmail
  MonthBudget,  \* llmMonthlyBudgetMinor
  Usages,       \* what an answer may have used: [in, out, read, write]
  Price,        \* Price[p]: of the model of provider p: [in, out]
  Million,
  MaxCost,      \* the most that one answer costs
  MaxAttempts,  \* MAX_ATTEMPTS; maxRetries + 1 of the SDK
  Chosen,       \* the providers LLM_PROVIDER may choose
  Templates,    \* job type templates that exist or will, numbers from 1
  Replies,      \* texts of answers: not the right JSON, or JSON of the schema and
                \* what it says: a template or 0, the confidence in tenths, the
                \* priority
  MaxMonths     \* a bound of the model

(* Twentieths: a read of the cache costs a tenth, a write to it 5/4. *)
Exact(p, u) == 20 * (u.in * Price[p].in + u.out * Price[p].out)
                 + 2 * u.read * Price[p].in + 25 * u.write * Price[p].in

(* mutant: the estimate is rounded down *)
MCost(p, u) == Exact(p, u) \div (20 * Million)

(* estimateCostMinor: rounded up *)
Cost(p, u) == (Exact(p, u) + 20 * Million - 1) \div (20 * Million)

NoReply == [kind |-> "none", template |-> 0, confidence |-> 0, priority |-> 2]
NoUsage == [in |-> 0, out |-> 0, read |-> 0, write |-> 0]
Json == [kind : {"json"}, template : Nat, confidence : 0 .. 10, priority : 1 .. 3]

ASSUME MeteringAssumption ==
  /\ IsFiniteSet(Extractions)
  /\ MonthBudget \in Nat /\ MaxCost \in Nat /\ MaxAttempts \in Nat \ {0} /\ MaxMonths \in Nat
  /\ Million \in Nat \ {0} /\ Usages \subseteq [in : Nat, out : Nat, read : Nat, write : Nat]
  /\ \A p \in Chosen : Price[p].in \in Nat /\ Price[p].out \in Nat
  /\ \A p \in Chosen, u \in Usages : Cost(p, u) \in 0 .. MaxCost
  /\ Templates \subseteq Nat \ {0} /\ Replies \subseteq Json \cup {NoReply}

VARIABLES
  provider,   \* the one chosen when the server started
  templates,  \* the active ones; the code only adds to them
  call,       \* call[c]: how far it is, the templates it offered, its attempts,
              \* the cost of its answer, what its text says and became
  charged,    \* the sum of llm_usage of the month
  peak,       \* history: the most calls that were under way at once this month
  recorded,   \* history: the exact cost of the month's rows
  counted,    \* history: the exact cost of the month's attempts, by the provider
  month

meterVars == <<provider, templates, call, charged, peak, recorded, counted, month>>

Underway == {"checking", "trying", "waiting", "recording"}

MeterTypeOK ==
  /\ provider \in Chosen /\ templates \subseteq Templates
  /\ call \in [Extractions -> [pc : Underway \cup {"new", "ended"}, offered : SUBSET Templates,
                         tries : 0 .. MaxAttempts, used : Usages \cup {NoUsage},
                         reply : Replies \cup {NoReply}]]
  /\ charged \in Nat /\ peak \in Nat /\ recorded \in Nat /\ counted \in Nat
  /\ month \in 0 .. MaxMonths

Rested(pc) == [pc |-> pc, offered |-> {}, tries |-> 0, used |-> NoUsage, reply |-> NoReply]

MeterInit ==
  /\ provider \in Chosen /\ templates \in SUBSET Templates
  /\ call = [c \in Extractions |-> Rested("new")]
  /\ charged = 0 /\ peak = 0 /\ recorded = 0 /\ counted = 0 /\ month = 0

Busy == {c \in Extractions : call[c].pc \in {"trying", "waiting", "recording"}}

Becomes(c, pc) == call' = [call EXCEPT ![c].pc = pc]
Ends(c) == call' = [call EXCEPT ![c] = Rested("ended")]
sums == <<charged, peak, recorded, counted>>
rest == <<provider, templates, month>>

-----------------------------------------------------------------------------
(* extractFromEmail, and MeteredLlmProvider.complete *)

(* Without templates there is nothing to ask. *)
Offers(c) ==
  /\ call[c].pc = "new"
  /\ IF templates = {} THEN Ends(c)
     ELSE call' = [call EXCEPT ![c].offered = templates, ![c].pc = "checking"]
  /\ UNCHANGED <<sums, rest>>

(* mutant: the budget is not asked *)
MWithinBudget == TRUE

WithinBudget == charged < MonthBudget

(* assertWithinBudget: 403 when it is used up.  There is no reservation.   *)
Admits(c) ==
  /\ call[c].pc = "checking" /\ WithinBudget
  /\ call' = [call EXCEPT ![c].pc = "trying", ![c].tries = 1]
  /\ peak' = IF Cardinality(Busy) + 1 > peak THEN Cardinality(Busy) + 1 ELSE peak
  /\ UNCHANGED <<charged, recorded, counted, rest>>

Refuses(c) == call[c].pc = "checking" /\ ~WithinBudget /\ Ends(c) /\ UNCHANGED <<sums, rest>>

(* record: a row of llm_usage; an error is logged.  Either way the answer  *)
(* is returned and becomes TaskOf(c).                                      *)
Records(c) ==
  LET u == call[c].used IN
  /\ call[c].pc = "recording"
  /\ Ends(c)
  /\ \/ charged' = charged + Cost(provider, u) /\ recorded' = recorded + Exact(provider, u)
     \/ UNCHANGED <<charged, recorded>>
  /\ UNCHANGED <<peak, counted, rest>>

-----------------------------------------------------------------------------
(* GeminiProvider.call and callOnce; messages.create of the SDK *)

Again(c) == call[c].tries < MaxAttempts

(* The provider answers and the answer arrives. *)
Answers(c) ==
  /\ call[c].pc = "trying"
  /\ \E u \in Usages, s \in Replies :
       /\ call' = [call EXCEPT ![c].pc = "recording", ![c].used = u, ![c].reply = s]
       /\ counted' = counted + Exact(provider, u)
  /\ UNCHANGED <<charged, peak, recorded, rest>>

(* Too busy (429, 5xx): tried again after a while.  Gemini's 429 whose     *)
(* text names a quota, billing or the rate limit is final.                 *)
Fails(c) ==
  /\ call[c].pc = "trying"
  /\ \/ Again(c) /\ Becomes(c, "waiting")
     \/ (~Again(c) \/ provider = "gemini") /\ Ends(c)
  /\ UNCHANGED <<sums, rest>>

(* An error of the request itself (400, 401, 403), or no key *)
Rejects(c) == call[c].pc = "trying" /\ Ends(c) /\ UNCHANGED <<sums, rest>>

(* No answer in 60 s, or the connection breaks: the provider may have done *)
(* the work.  The SDK tries again, the code for Gemini does not.           *)
TimesOut(c) ==
  /\ call[c].pc = "trying"
  /\ IF provider = "anthropic" /\ Again(c) THEN Becomes(c, "waiting") ELSE Ends(c)
  /\ \E u \in Usages \cup {NoUsage} : counted' = counted + Exact(provider, u)
  /\ UNCHANGED <<charged, peak, recorded, rest>>

(* The backoff is over. *)
Retries(c) ==
  /\ call[c].pc = "waiting"
  /\ call' = [call EXCEPT ![c].tries = @ + 1, ![c].pc = "trying"]
  /\ UNCHANGED <<sums, rest>>

-----------------------------------------------------------------------------
(* parseAndValidate and shouldAutoAssignTemplate *)

Empty == [template |-> 0, confidence |-> 0, priority |-> 2]

(* An identifier that was not offered takes the confidence with it; the    *)
(* model may say 2 or 3 of the priority.                                   *)
Extraction(c) ==
  LET s == call[c].reply IN
  IF s.kind = "none" THEN Empty
  ELSE IF s.template # 0 /\ s.template \notin call[c].offered THEN Empty
  ELSE [template |-> s.template, confidence |-> s.confidence,
        priority |-> IF s.priority \in {2, 3} THEN s.priority ELSE 2]

(* The template and the priority of the task of the mail *)
TaskOf(c) ==
  LET e == Extraction(c) IN
  [template |-> IF e.confidence >= 6 THEN e.template ELSE 0, priority |-> e.priority]

-----------------------------------------------------------------------------
(* The month's sum starts anew; a call under way is charged to the month   *)
(* in which it ends.                                                       *)
MonthEnds ==
  /\ month < MaxMonths /\ month' = month + 1
  /\ charged' = 0 /\ recorded' = 0 /\ counted' = 0 /\ peak' = Cardinality(Busy)
  /\ UNCHANGED <<provider, templates, call>>

(* JobTypeTemplatesService.create *)
TemplateAdded(t) ==
  /\ t \notin templates /\ templates' = templates \cup {t}
  /\ UNCHANGED <<provider, call, sums, month>>

(* What goes on by itself: timeouts, the backoff, the database. *)
CallStep(c) ==
  \/ Admits(c) \/ Refuses(c) \/ Records(c)
  \/ Answers(c) \/ Fails(c) \/ Rejects(c) \/ TimesOut(c) \/ Retries(c)

MeterNext ==
  \/ MonthEnds
  \/ \E t \in Templates : TemplateAdded(t)
  \/ \E c \in Extractions : Offers(c) \/ CallStep(c)

MeterSpec == MeterInit /\ [][MeterNext]_meterVars

-----------------------------------------------------------------------------
(* Properties. *)

(* The check is made before the call and the row is written after it: the  *)
(* month's charges may pass the budget, by what the calls that were under  *)
(* way at the same time cost and by nothing else.                          *)
OverrunIsBounded == charged > MonthBudget => charged < MonthBudget + peak * MaxCost

(* Those under way keep their claim on that margin: whatever is answered   *)
(* next, the bound will hold.                                              *)
ClaimsFit ==
  Busy # {} => charged + Cardinality(Busy) * MaxCost < MonthBudget + peak * MaxCost

(* The rounded estimates never understate what the rows stand for.         *)
EstimatesCover == recorded <= charged * 20 * Million

(* No answer is recorded twice, however often the call was tried: the rows *)
(* of the first month are a part of what the provider counted.             *)
RowsAreAnswers ==
  month = 0 => \A c \in Extractions : recorded + Exact(provider, call[c].used) <= counted

(* Whatever a mail makes the model say, its task gets a template that the  *)
(* tenant has, and never the priority of an escalation.                    *)
MailsAreModest ==
  \A c \in Extractions : call[c].pc = "recording" =>
    TaskOf(c).template \in templates \cup {0} /\ TaskOf(c).priority # 1

SpendIsBounded ==
  MeterTypeOK /\ OverrunIsBounded /\ ClaimsFit /\ EstimatesCover /\ RowsAreAnswers /\ MailsAreModest
=============================================================================
