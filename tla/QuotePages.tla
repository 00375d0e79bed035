----------------------------- MODULE QuotePages -----------------------------
(***************************************************************************)
(* The two pages between which a quote goes back and forth, with the       *)
(* server of Quotes behind them: features/quotes/quotes-page.tsx, where    *)
(* staff make and send it, and features/public/quote-page.tsx, where the   *)
(* customer answers it.  Each has a query that may be read again at any    *)
(* time and requests that may be under way meanwhile.  Every attempt of    *)
(* the customer is one tap of Quotes, every press of "send" one maker.     *)
(***************************************************************************)
EXTENDS Quotes, Sequences

CONSTANTS
  Shown,       \* the quote that is followed, and all sends are of
  Sendings,    \* bound: the taps, in this order, of the page or made elsewhere
  Presses,     \* bound: the sends, in this order
  MaxReads,    \* bound: reads of each page's query
  NoTap

ASSUME QuotePagesAssumption ==
  /\ Shown \in Ids /\ \A m \in Makers : SubjectOf[m] = Shown
  /\ Sendings \in Seq(Taps) /\ Presses \in Seq(Makers) /\ MaxReads \in Nat

VARIABLES
  quotePage, \* of the customer, see Page
  desk,      \* of staff, see Desk
  deed       \* deed[r]: what tap r of the page asks for, "none" before it does

pageVars == <<quotePage, desk, deed>>

ViewStatuses == Statuses \cup {"EXPIRED"}

(* read: the query's request, with the answer once the server gave it.     *)
Page ==
  [link : Makers \cup {NoLink}, reads : 0..MaxReads,
   read : {"none", "asked", "resolved"} \cup ViewStatuses, error : BOOLEAN, data : ViewStatuses \cup {"none"},
   confirming : BOOLEAN, tap : Taps \cup {NoTap},
   mutation : {"idle", "pending", "ok", "Conflict", "failed"}]

(* pending: the sends without an answer, of which the page remembers only  *)
(* the last; shared: the link in the dialog for the customer's message;    *)
(* inTurn, history: staff awaited the answer to whatever they asked for.   *)
Desk ==
  [reads : 0..MaxReads, read : {"none", "asked"} \cup Statuses, row : Statuses \cup {"none"},
   creating : {"no", "asked", "left", "done"},
   pending : SUBSET Makers, last : Makers \cup {NoLink}, shared : Makers \cup {NoLink},
   inTurn : BOOLEAN]

PagesInit ==
  /\ quotePage = [link |-> NoLink, reads |-> 0, read |-> "none", error |-> FALSE, data |-> "none",
             confirming |-> FALSE, tap |-> NoTap, mutation |-> "idle"]
  /\ desk = [reads |-> 0, read |-> "none", row |-> "none", creating |-> "no",
             pending |-> {}, last |-> NoLink, shared |-> NoLink,
             inTurn |-> TRUE]
  /\ deed = [r \in Taps |-> "none"]

Turn(q) == quotePage' = q /\ UNCHANGED <<vars, desk, deed>>
TurnDesk(d) == desk' = d /\ UNCHANGED <<vars, quotePage, deed>>

-----------------------------------------------------------------------------
(* The customer's page: its query. *)

(* The page is opened, or its window gets the focus again. *)
Read ==
  /\ quotePage.read = "none" /\ quotePage.reads < MaxReads
  /\ \E m \in Makers :
       /\ reply[m] = "ok" /\ quotePage.link \in {NoLink, m}
       /\ Turn([quotePage EXCEPT !.reads = @ + 1, !.link = m, !.read = "asked"])

(* publicView, in the two transactions it takes *)
ReadResolves ==
  /\ quotePage.read = "asked" /\ Resolves(quotePage.link)
  /\ Turn([quotePage EXCEPT !.read = "resolved"])

ReadAnswers ==
  /\ quotePage.read = "resolved"
  /\ Turn([quotePage EXCEPT !.read = ViewOf(SubjectOf[quotePage.link])])

ReadHeard ==
  /\ quotePage.read \in ViewStatuses
  /\ Turn([quotePage EXCEPT !.read = "none", !.error = FALSE, !.data = quotePage.read])

ReadFails ==
  /\ quotePage.read = "asked" /\ ("lost" \in Faults \/ ~Resolves(quotePage.link))
  /\ Turn([quotePage EXCEPT !.read = "none", !.error = TRUE])

-----------------------------------------------------------------------------
(* The customer's page: the answer. *)

Screen ==
  CASE quotePage.data = "none" /\ quotePage.read # "none" /\ ~quotePage.error -> "loading"
    [] quotePage.error \/ (quotePage.data = "none" /\ quotePage.read = "none") -> "invalid"
    [] OTHER -> quotePage.data

NextTap(r) ==
  \E i \in DOMAIN Sendings :
    /\ r = Sendings[i]
    /\ {j \in DOMAIN Sendings : token[Sendings[j]] = NoLink} = i..Len(Sendings)

Confirming(b) ==
  /\ Screen = "SENT" /\ quotePage.confirming # b
  /\ Turn([quotePage EXCEPT !.confirming = b])

(* To approve is asked twice, to decline is not. *)
Respond(d) ==
  /\ Screen = "SENT" /\ quotePage.mutation # "pending"
  /\ quotePage.confirming <=> d = "approve"
  /\ \E r \in Taps :
       /\ NextTap(r)
       /\ token' = [token EXCEPT ![r] = quotePage.link]
       /\ deed' = [deed EXCEPT ![r] = d]
       /\ quotePage' = [quotePage EXCEPT !.tap = r, !.mutation = "pending"]
  /\ UNCHANGED <<quoteVars, pc, reply, met, linkVars, desk>>

(* mutant: whatever goes wrong, the quote cannot be answered any more *)
MErrorOf(x) == "Conflict"

(* a 409 has a text of its own *)
ErrorOf(x) == IF x = "Conflict" THEN "Conflict" ELSE "failed"

(* The view in the answer becomes the data of the query, though a read of  *)
(* the query may be under way; its answer will be put in the place of this.*)
ResponseHeard ==
  /\ quotePage.mutation = "pending" /\ pc[quotePage.tap] = "ended"
  /\ LET x == reply[quotePage.tap] IN
     Turn(IF x \in ViewStatuses
          THEN [quotePage EXCEPT !.mutation = "ok", !.data = x, !.confirming = FALSE]
          ELSE [quotePage EXCEPT !.mutation = ErrorOf(x)])

ResponseLost ==
  /\ quotePage.mutation = "pending" /\ "lost" \in Faults
  /\ Turn([quotePage EXCEPT !.mutation = ErrorOf("none")])

-----------------------------------------------------------------------------
(* The page of staff. *)

(* It is opened or gets the focus again; a read under way is not repeated. *)
DeskReads ==
  /\ desk.read = "none" /\ desk.reads < MaxReads
  /\ TurnDesk([desk EXCEPT !.reads = @ + 1, !.read = "asked"])

DeskAnswers ==
  /\ desk.read = "asked" /\ status[Shown] # "NONE"
  /\ TurnDesk([desk EXCEPT !.read = status[Shown]])

DeskHeard ==
  /\ desk.read \in Statuses
  /\ TurnDesk([desk EXCEPT !.read = "none", !.row = desk.read])

(* The browser's clock tells what has expired. *)
CanSend == desk.row \in {"DRAFT", "SENT"} /\ Shown \notin expired

Pressed(m) == pc[m] # "new" \/ m \in desk.pending

NextPress(m) ==
  \E i \in DOMAIN Presses :
    /\ m = Presses[i]
    /\ {j \in DOMAIN Presses : ~Pressed(Presses[j])} = i..Len(Presses)

SendOf(m) == [desk EXCEPT !.pending = @ \cup {m}, !.last = m]

(* invalidateQueries: a read under way is given up for a new one *)
Invalidated(d) == IF d.reads < MaxReads THEN [d EXCEPT !.reads = @ + 1, !.read = "asked"] ELSE [d EXCEPT !.read = "none"]

(* The dialog's button makes the quote and, once it is made, sends it.     *)
Create ==
  /\ desk.creating = "no"
  /\ desk' = [desk EXCEPT !.creating = "asked"]
  /\ CreateNumbers(Shown)
  /\ UNCHANGED <<quotePage, deed>>

(* The dialog is closed before the answer, which is heard all the same.    *)
LeaveDialog ==
  /\ desk.creating = "asked"
  /\ TurnDesk([desk EXCEPT !.creating = "left", !.inTurn = FALSE])

Created ==
  /\ desk.creating \in {"asked", "left"} /\ status[Shown] # "NONE"
  /\ \E m \in Makers : NextPress(m) /\ TurnDesk([Invalidated(SendOf(m)) EXCEPT !.creating = "done"])

(* mutant: the button is never disabled *)
MLoading == FALSE

Loading == desk.last \in desk.pending

Press(m) ==
  /\ desk.creating # "asked" /\ CanSend /\ ~Loading /\ NextPress(m)
  /\ TurnDesk(SendOf(m))

(* The button of another quote, whose send is the last one from then on.   *)
PressOther ==
  /\ Loading
  /\ TurnDesk([desk EXCEPT !.last = NoLink, !.inTurn = FALSE])

Sent(m) ==
  /\ m \in desk.pending /\ pc[m] = "ended"
  /\ LET d == [desk EXCEPT !.pending = @ \ {m}] IN
     TurnDesk(IF reply[m] = "ok" THEN Invalidated([d EXCEPT !.shared = m]) ELSE d)

(* The connection breaks; the server may go on with it. *)
SendLost(m) ==
  /\ m \in desk.pending /\ pc[m] \notin {"new", "ended"} /\ "lost" \in Faults
  /\ TurnDesk([desk EXCEPT !.pending = @ \ {m}, !.inTurn = FALSE])

-----------------------------------------------------------------------------
(* The server, called by the pages and, through any link, from elsewhere.  *)
(* Left out, as Quotes has it: that anything is aborted or a link expires. *)

TapArrives(r) ==
  /\ deed[r] # "none" /\ pc[r] = "new"
  /\ \/ Resolves(token[r]) /\ Goto(r, "resolved") /\ UNCHANGED reply
     \/ ~Resolves(token[r]) /\ End(r, "NotFound")
  /\ UNCHANGED <<quoteVars, token, met, linkVars, pageVars>>

(* Approve looks at the row before it refuses, decline does not. *)
TapActs(r) ==
  /\ TapBegins(r)
  /\ deed[r] # "none" => pc'[r] \in {deed[r], IF deed[r] = "approve" THEN "missed" ELSE "ended"}
  /\ UNCHANGED pageVars

Serve(M, T) ==
  /\ \/ CreateCommits(Shown) \/ QuoteExpires(Shown) \/ BreakDeadlock
     \/ \E m \in M : SendStep(m)
     \/ \E r \in T : NextTap(r) /\ TapResolves(r)
     \/ \E r \in Taps :
          ApproveUpdates(r) \/ ApproveMisses(r) \/ ApproveCommits(r) \/ Decline(r) \/ TapViews(r)
  /\ UNCHANGED pageVars

(* To each page the other is just somebody elsewhere: staff who send one   *)
(* quote after the other,                                                  *)
CustomerNext ==
  \/ Read \/ ReadResolves \/ ReadAnswers \/ ReadHeard \/ ReadFails
  \/ \E b \in BOOLEAN : Confirming(b)
  \/ \E d \in {"approve", "decline"} : Respond(d)
  \/ ResponseHeard \/ ResponseLost
  \/ CreateNumbers(Shown) /\ UNCHANGED pageVars
  \/ \E r \in Taps : TapArrives(r) \/ TapActs(r)
  \/ Serve({m \in Makers : \A o \in Makers \ {m} : pc[o] \in {"new", "ended"}}, Taps)

(* or a customer who taps, once here. *)
StaffNext ==
  \/ DeskReads \/ DeskAnswers \/ DeskHeard \/ Create \/ LeaveDialog \/ Created \/ PressOther
  \/ \E m \in Makers : Press(m) \/ Sent(m) \/ SendLost(m)
  \/ \E r \in Taps : TapActs(r)
  \/ Serve({m \in Makers : Pressed(m)}, {Sendings[1]})

(* Each page with the server, the other page not being open.               *)
QuotePagesInit == Init /\ PagesInit
CustomerSpec == QuotePagesInit /\ [][CustomerNext]_<<vars, pageVars>>
StaffSpec == QuotePagesInit /\ [][StaffNext]_<<vars, pageVars>>

-----------------------------------------------------------------------------
(* Properties. *)

Answered == {"APPROVED", "DECLINED"}

(* A customer who reads a result, or that the quote cannot be answered any *)
(* more, reads what is so, though both pages are refreshed at any time and *)
(* answers overtake each other; who never pressed "approve" twice has no   *)
(* task.  Unless two sends were in progress at once.                       *)
CustomerReadsTruth ==
  Shown \notin met =>
    /\ quotePage.data \in Answered => status[Shown] = quotePage.data
    /\ quotePage.data = "EXPIRED" => Shown \in expired
    /\ quotePage.mutation = "Conflict" => Shown \in expired \/ status[Shown] \in Answered
    /\ \A r \in tasks : deed[r] \in {"none", "approve"}

(* What staff read is so.  And the page does not have two sends of a quote *)
(* in progress, and its dialog shows a link that opens the quote until it  *)
(* is sent once more - unless another quote was sent in between, an answer *)
(* was lost or the dialog of a new quote was closed before it: the page    *)
(* knows of its last request only.                                         *)
StaffReadTruth ==
  /\ Shown \notin met /\ desk.row \in Answered => status[Shown] = desk.row
  /\ desk.creating # "no" /\ desk.inTurn =>
       /\ Shown \notin met
       /\ desk.shared # NoLink =>
            Resolves(desk.shared) \/ \E m \in Makers : desk.last = m /\ m # desk.shared

QuotePagesAreTrue == quotePage \in Page /\ desk \in Desk /\ CustomerReadsTruth /\ StaffReadTruth
=============================================================================
