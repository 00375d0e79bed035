------------------------------- MODULE Quotes -------------------------------
(***************************************************************************)
(* modules/quotes/quotes.service.ts: quotes of one tenant.  Staff create   *)
(* quotes (numbered under the tenant's advisory lock) and send them; a     *)
(* customer opens the link, approves (which creates a task) or declines,   *)
(* any number of times and at once.  Transactions are READ COMMITTED: what *)
(* is committed is in status, task and link; what a transaction has locked *)
(* follows from where it is.  Of PostgreSQL's row locks on a quote three   *)
(* matter: inserting a link shares the key of its quote, an UPDATE of the  *)
(* status excludes other updates, and an UPDATE of taskId, a unique column,*)
(* also waits for those who share the key.                                 *)
(***************************************************************************)
EXTENDS PublicLinks, Naturals, FiniteSetsExt

CONSTANTS
  Ids,      \* quotes; SubjectOf[m] is the quote that staff request m sends
  Taps,     \* requests of customers
  Faults,   \* subset of {"abort", "lost"}
  NoTask, NoLink

ASSUME QuotesAssumption ==
  /\ IsFiniteSet(Ids) /\ SubjectOf \in [Makers -> Ids]
  /\ Taps \cap Makers = {} /\ NoTask \notin Taps /\ NoLink \notin Makers
  /\ Faults \subseteq {"abort", "lost"}

VARIABLES
  status,     \* status[q]: of the committed row, or "NONE"
  number,     \* number[q]: quoteNumber, 0 without a row
  numbering,  \* quotes whose create holds the tenant's lock
  expired,    \* quotes whose validUntil has passed
  task,       \* task[q]: taskId; a task is named by the tap that creates it
  tasks,      \* history: all tasks that were created
  pc,         \* pc[r]: where request r is
  token,      \* token[r]: the link that tap r uses
  reply,      \* reply[r]: what the caller of r was answered
  met         \* history: quotes that two sends were sending at the same time

quoteVars == <<status, number, numbering, expired, task, tasks>>
vars == <<quoteVars, pc, token, reply, met, linkVars>>

Requests == Makers \cup Taps
Statuses == {"DRAFT", "SENT", "APPROVED", "DECLINED"}
QuoteOf(r) == SubjectOf[token[r]]

TypeOK ==
  /\ LinkTypeOK
  /\ status \in [Ids -> Statuses \cup {"NONE"}]
  /\ number \in [Ids -> 0..Cardinality(Ids)]
  /\ numbering \subseteq Ids /\ expired \subseteq Ids /\ met \subseteq Ids
  /\ task \in [Ids -> Taps \cup {NoTask}]
  /\ tasks \subseteq Taps
  /\ pc \in [Requests -> {"new", "readDraft", "readSent", "resolved", "approve", "decline",
                          "missed", "approving", "viewing", "ended"}]
  /\ token \in [Taps -> Makers \cup {NoLink}]
  /\ reply \in [Requests -> Statuses \cup {"none", "ok", "NotFound", "Conflict", "EXPIRED", "Error"}]

Init ==
  /\ LinkInit
  /\ status = [q \in Ids |-> "NONE"]
  /\ number = [q \in Ids |-> 0]
  /\ numbering = {} /\ expired = {} /\ tasks = {} /\ met = {}
  /\ task = [q \in Ids |-> NoTask]
  /\ pc = [r \in Requests |-> "new"]
  /\ token = [r \in Taps |-> NoLink]
  /\ reply = [r \in Requests |-> "none"]

Goto(r, l) == pc' = [pc EXCEPT ![r] = l]
End(r, x) == Goto(r, "ended") /\ reply' = [reply EXCEPT ![r] = x]
SetStatus(q, s) == status' = [status EXCEPT ![q] = s]

(* The transactions that hold a lock on the row of q. *)
Updating(q) == {r \in Taps : pc[r] = "approving" /\ QuoteOf(r) = q}
KeyShares(q) == {m \in Makers : making[m] = "linked" /\ SubjectOf[m] = q}

-----------------------------------------------------------------------------
(* create *)

NextNumber == Max({number[q] : q \in {p \in Ids : status[p] # "NONE"}} \cup {0}) + 1

(* mutant: no advisory lock *)
MCreateNumbers(q) ==
  /\ status[q] = "NONE" /\ q \notin numbering
  /\ numbering' = numbering \cup {q}
  /\ number' = [number EXCEPT ![q] = NextNumber]
  /\ UNCHANGED <<status, expired, task, tasks, pc, token, reply, met, linkVars>>

CreateNumbers(q) ==
  /\ status[q] = "NONE" /\ numbering = {}
  /\ numbering' = {q}
  /\ number' = [number EXCEPT ![q] = NextNumber]
  /\ UNCHANGED <<status, expired, task, tasks, pc, token, reply, met, linkVars>>

NumberTaken(q) == \E p \in Ids : status[p] # "NONE" /\ number[p] = number[q]

CreateCommits(q) ==
  /\ q \in numbering /\ ~NumberTaken(q)
  /\ numbering' = numbering \ {q}
  /\ SetStatus(q, "DRAFT")
  /\ UNCHANGED <<number, expired, task, tasks, pc, token, reply, met, linkVars>>

(* A fault, or the unique index on the number: the caller may try again. *)
CreateAborts(q) ==
  /\ q \in numbering /\ ("abort" \in Faults \/ NumberTaken(q))
  /\ numbering' = numbering \ {q}
  /\ number' = [number EXCEPT ![q] = 0]
  /\ UNCHANGED <<status, expired, task, tasks, pc, token, reply, met, linkVars>>

QuoteExpires(q) ==
  /\ status[q] # "NONE" /\ q \notin expired
  /\ expired' = expired \cup {q}
  /\ UNCHANGED <<status, number, numbering, task, tasks, pc, token, reply, met, linkVars>>

LinkExpires(m) ==
  /\ Expire(m)
  /\ UNCHANGED <<quoteVars, pc, token, reply, met>>

-----------------------------------------------------------------------------
(* send *)

InSend(m) == pc[m] \in {"readDraft", "readSent"}
Sending(q) == {m \in Makers : InSend(m) /\ SubjectOf[m] = q}

SendReads(m) ==
  LET q == SubjectOf[m] IN
  /\ pc[m] = "new" /\ q \notin expired
  /\ \/ status[q] = "DRAFT" /\ Goto(m, "readDraft")
     \/ status[q] = "SENT" /\ Goto(m, "readSent")
  /\ met' = IF Sending(q) # {} THEN met \cup {q} ELSE met
  /\ UNCHANGED <<quoteVars, token, reply, linkVars>>

SendRefused(m) ==
  LET q == SubjectOf[m] IN
  /\ pc[m] = "new" /\ status[q] # "NONE"
  /\ status[q] \in {"APPROVED", "DECLINED"} \/ q \in expired
  /\ End(m, "Conflict")
  /\ UNCHANGED <<quoteVars, token, met, linkVars>>

SendLinks(m) ==
  /\ InSend(m)
  /\ RevokeBegins(m) \/ RevokeEnds(m) \/ Insert(m)
  /\ UNCHANGED <<quoteVars, pc, token, reply, met>>

(* Only a DRAFT is updated: whatever the row holds by now becomes SENT.    *)
(* The answer, with the link in it, may be lost.                           *)
SendCommits(m) ==
  LET q == SubjectOf[m] IN
  /\ Publish(m)
  /\ \/ pc[m] = "readDraft" /\ Updating(q) = {} /\ SetStatus(q, "SENT")
     \/ pc[m] = "readSent" /\ UNCHANGED status
  /\ \/ End(m, "ok")
     \/ "lost" \in Faults /\ End(m, "Error")
  /\ UNCHANGED <<number, numbering, expired, task, tasks, token, met>>

-----------------------------------------------------------------------------
(* The customer: publicView, approve, decline. *)

TapResolves(r) ==
  /\ pc[r] = "new"
  /\ \E m \in Makers :
       /\ reply[m] = "ok"
       /\ token' = [token EXCEPT ![r] = m]
       /\ \/ Resolves(m) /\ Goto(r, "resolved") /\ UNCHANGED reply
          \/ ~Resolves(m) /\ End(r, "NotFound")
  /\ UNCHANGED <<quoteVars, met, linkVars>>

(* The transaction takes the time.  A quote that has expired by then does  *)
(* not match the where of updateMany, however long that waits.             *)
TapBegins(r) ==
  /\ pc[r] = "resolved"
  /\ IF QuoteOf(r) \in expired
     THEN \/ Goto(r, "missed") /\ UNCHANGED reply
          \/ End(r, "Conflict")
     ELSE /\ \E deed \in {"approve", "decline"} : Goto(r, deed)
          /\ UNCHANGED reply
  /\ UNCHANGED <<quoteVars, token, met, linkVars>>

(* A tap that only opens the page. *)
TapOpens(r) ==
  /\ pc[r] = "resolved"
  /\ Goto(r, "viewing")
  /\ UNCHANGED <<quoteVars, token, reply, met, linkVars>>

(* mutant: any quote that is still valid can be answered *)
MAnswerable(q) == status[q] # "NONE"

(* the where of both updateMany, besides the time *)
Answerable(q) == status[q] = "SENT"

ApproveUpdates(r) ==
  /\ pc[r] = "approve" /\ Updating(QuoteOf(r)) = {}
  /\ Goto(r, IF Answerable(QuoteOf(r)) THEN "approving" ELSE "missed")
  /\ UNCHANGED <<quoteVars, token, reply, met, linkVars>>

(* mutant: nobody answers a tap on a quote that cannot be approved *)
MApproveMisses(r) ==
  /\ pc[r] = "missed" /\ status[QuoteOf(r)] = "APPROVED"
  /\ Goto(r, "viewing")
  /\ UNCHANGED <<quoteVars, token, reply, met, linkVars>>

ApproveMisses(r) ==
  /\ pc[r] = "missed"
  /\ \/ status[QuoteOf(r)] = "APPROVED" /\ Goto(r, "viewing") /\ UNCHANGED reply
     \/ status[QuoteOf(r)] # "APPROVED" /\ End(r, "Conflict")
  /\ UNCHANGED <<quoteVars, token, met, linkVars>>

(* task.create, quote.update of taskId, the outbox row, commit *)
ApproveCommits(r) ==
  LET q == QuoteOf(r) IN
  /\ pc[r] = "approving" /\ KeyShares(q) = {}
  /\ SetStatus(q, "APPROVED")
  /\ task' = [task EXCEPT ![q] = r]
  /\ tasks' = tasks \cup {r}
  /\ Goto(r, "viewing")
  /\ UNCHANGED <<number, numbering, expired, token, reply, met, linkVars>>

Decline(r) ==
  LET q == QuoteOf(r) IN
  /\ pc[r] = "decline" /\ Updating(q) = {}
  /\ \/ Answerable(q) /\ SetStatus(q, "DECLINED") /\ Goto(r, "viewing") /\ UNCHANGED reply
     \/ ~Answerable(q) /\ End(r, "Conflict") /\ UNCHANGED status
  /\ UNCHANGED <<number, numbering, expired, task, tasks, token, met, linkVars>>

(* The status that a customer is shown. *)
ViewOf(q) == IF status[q] = "SENT" /\ q \in expired THEN "EXPIRED" ELSE status[q]

(* publicView, also after approve and decline: the link is resolved again *)
TapViews(r) ==
  LET q == QuoteOf(r) IN
  /\ pc[r] = "viewing"
  /\ End(r, IF Resolves(token[r]) THEN ViewOf(q) ELSE "NotFound")
  /\ UNCHANGED <<quoteVars, token, met, linkVars>>

-----------------------------------------------------------------------------
(* A transaction is rolled back and its caller gets an error. *)

Rollback(r) ==
  /\ End(r, "Error")
  /\ \/ r \in Makers /\ Withdraw(r)
     \/ r \in Taps /\ UNCHANGED linkVars
  /\ UNCHANGED <<quoteVars, token, met>>

(* A send that will update its quote and an approve that has: each waits   *)
(* for the other, and PostgreSQL aborts one of the two.                    *)
Deadlocked(m, r) ==
  /\ making[m] = "linked" /\ pc[m] = "readDraft"
  /\ r \in Updating(SubjectOf[m])

BreakDeadlock ==
  \E m \in Makers, r \in Taps :
    Deadlocked(m, r) /\ (Rollback(m) \/ Rollback(r))

(* A timeout of the transaction, a failing statement, a dying process. *)
Abort(r) ==
  /\ "abort" \in Faults /\ pc[r] \notin {"new", "ended"}
  /\ Rollback(r)

SendStep(m) == SendReads(m) \/ SendRefused(m) \/ SendLinks(m) \/ SendCommits(m)

TapStep(r) ==
  \/ TapResolves(r) \/ TapOpens(r) \/ TapBegins(r) \/ ApproveUpdates(r) \/ ApproveMisses(r)
  \/ ApproveCommits(r) \/ Decline(r) \/ TapViews(r)

Next ==
  \/ \E q \in Ids : CreateNumbers(q) \/ CreateCommits(q) \/ CreateAborts(q) \/ QuoteExpires(q)
  \/ \E m \in Makers : SendStep(m) \/ LinkExpires(m)
  \/ \E r \in Taps : TapStep(r)
  \/ \E r \in Requests : Abort(r)
  \/ BreakDeadlock

Spec == Init /\ [][Next]_vars

(* A request that has begun goes on, and deadlocks are detected. *)
FairSpec ==
  /\ Spec
  /\ \A m \in Makers : WF_vars(pc[m] # "new" /\ SendStep(m))
  /\ \A r \in Taps : WF_vars(pc[r] # "new" /\ TapStep(r))
  /\ WF_vars(BreakDeadlock)

-----------------------------------------------------------------------------
(* Properties. *)

TasksOf(q) == {r \in tasks : QuoteOf(r) = q}

(* Numbers of a tenant's quotes are 1, 2, ... without gap, and no create   *)
(* is ever refused because another one took its number.                    *)
NumbersAreDense ==
  LET made == {q \in Ids : status[q] # "NONE"} IN
  /\ {number[q] : q \in made} = 1..Cardinality(made)
  /\ \A q \in numbering : ~NumberTaken(q)

(* However often a customer taps, through whatever links: an approved      *)
(* quote has exactly one task, the one it names, and any other quote has   *)
(* none - unless two staff requests were sending it at the same time.      *)
AnswerMatchesTasks ==
  \A q \in Ids \ met :
    TasksOf(q) = IF status[q] = "APPROVED" THEN {task[q]} ELSE {}

(* The answer a customer was shown is never undone, under the same proviso. *)
ShownIsKept ==
  \A r \in Taps : reply[r] \in {"APPROVED", "DECLINED"} /\ QuoteOf(r) \notin met =>
    status[QuoteOf(r)] = reply[r]

(* What a customer was told is what is done, and stays so.                 *)
AnswersAreTrue == AnswerMatchesTasks /\ ShownIsKept

(* A quote has one active link, under the same proviso. *)
OneActiveLink == \A q \in Ids \ met : Cardinality(ActiveOf(q)) <= 1

(* Rows of quotes and links: of the right type, numbered, one link each.   *)
RowsAreSound == TypeOK /\ NumbersAreDense /\ OneActiveLink

(* The rows are sound, and customers were told the truth about them.       *)
QuotesAreSound == RowsAreSound /\ AnswersAreTrue

(* Every request that has begun is answered, whoever waits for whom: as    *)
(* each is made once, nobody is left waiting again and again.              *)
EveryRequestEnds == []<>(\A r \in Requests : pc[r] \in {"new", "ended"})
=============================================================================
