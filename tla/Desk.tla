-------------------------------- MODULE Desk --------------------------------
(***************************************************************************)
(* A dialog of the office (frontend-web) and the list behind it, in front  *)
(* of the interceptor of Idempotency.  The dialog is opened and closed,    *)
(* its content edited, submitted and submitted again after an answer was   *)
(* lost; an answer may come when the dialog is closed or open once more.   *)
(* A request without a key is one whose key no other request has.  Instead *)
(* of a dialog there may be any other clients, whose requests are there    *)
(* from the start.                                                         *)
(***************************************************************************)
EXTENDS Idempotency, Naturals, FiniteSets

CONSTANTS
  MaxOpenings,  \* how often the dialog is opened
  MaxSends,     \* how often something is submitted
  Followed,     \* the kinds of dialogs whose list is followed as well
  Others        \* the requests of other clients

ASSUME DeskAssumption ==
  /\ MaxOpenings \in Nat /\ MaxSends \in Nat
  /\ Others \subseteq Requests /\ Nothing \notin Bodies \cup Keys
  /\ Mismatch \notin {Nothing, Busy, Error}

VARIABLES
  kind,      \* which dialog it is
  dialog,    \* what the dialog holds, see Closed
  minted,    \* the keys generated so far
  sent,      \* the requests submitted
  run,       \* history: run[r], the series of repetitions r belongs to
  awaiting,  \* requests whose answer the browser waits for
  told,      \* requests whose success the user was told
  list,      \* the query behind the page, see Unloaded
  early      \* history: requests told while the list was first loading

deskVars == <<kind, dialog, minted, sent, run, awaiting, told, list, early>>

-----------------------------------------------------------------------------
(* The dialogs.  key: when a new key is generated; pending: what keeps the *)
(* button disabled, and so what becomes of it when the dialog is closed:   *)
(* the form's own flag is reset, a mutation of the page is kept, and one   *)
(* of the dialog itself is gone with it; rereads: a refusal refreshes the  *)
(* list as well.                                                           *)
Kind(k, p, x) == [key |-> k, pending |-> p, rereads |-> x]

NewTask         == Kind("opening", "form", FALSE)
GenerateInvoice == Kind("opening", "dialog", FALSE)
NewQuote        == Kind("content", "dialog", FALSE)
NewCustomer     == Kind("submit", "page", FALSE)
AdjustQuantity  == Kind("submit", "dialog", TRUE)
NewItem         == Kind("submit", "dialog", FALSE)
PriceItem       == Kind("submit", "dialog", FALSE)
Cost            == Kind("submit", "dialog", FALSE)
CloseTask       == Kind("submit", "page", FALSE)
Equipment       == Kind("submit", "page", FALSE)

Kinds == {NewTask, GenerateInvoice, NewQuote, NewCustomer, AdjustQuantity, NewItem,
          PriceItem, Cost, CloseTask, Equipment}

Clients == Kind("none", "none", FALSE)

(* opening: 0 when closed; key and content: of the last submission or      *)
(* opening; latest: the submission that disables the button.               *)
Shut == [opening |-> 0, last |-> 0, key |-> Nothing, content |-> Nothing, latest |-> Nothing, run |-> 0]

(* data: the effects the page shows; seen: those the answer under way has  *)
Unloaded == [data |-> {}, loaded |-> FALSE, stale |-> FALSE, fetch |-> "idle", seen |-> {}]

DeskInit ==
  /\ Init
  /\ kind \in Kinds \cup {Clients}
  /\ dialog = Shut
  /\ sent = IF kind = Clients THEN Others ELSE {}
  /\ minted = {} /\ awaiting = {} /\ told = {} /\ early = {}
  /\ run = [r \in Requests |-> 0]
  /\ list = Unloaded

-----------------------------------------------------------------------------
(* The list: TanStack Query.  A query that is invalidated is fetched       *)
(* again, and a fetch under way is started over, unless it is the first.   *)

Refreshed(l) ==
  [l EXCEPT !.stale = TRUE,
            !.fetch = IF @ = "idle" \/ l.loaded THEN "asked" ELSE @]

(* mutant: the success handler forgets the list *)
MInvalidated(l) == l

Invalidated(l) == IF kind \in Followed THEN Refreshed(l) ELSE l

(* The page is opened, looked at again, or its data has grown old.         *)
ListAsks ==
  /\ kind \in Followed /\ list.fetch = "idle"
  /\ list' = [list EXCEPT !.fetch = "asked"]
  /\ UNCHANGED <<kind, dialog, minted, sent, run, awaiting, told, early>>

ListReads ==
  /\ list.fetch = "asked"
  /\ list' = [list EXCEPT !.fetch = "read", !.seen = did]
  /\ UNCHANGED <<kind, dialog, minted, sent, run, awaiting, told, early>>

ListArrives ==
  /\ list.fetch = "read"
  /\ list' = [data |-> list.seen, loaded |-> TRUE, stale |-> FALSE, fetch |-> "idle", seen |-> {}]
  /\ UNCHANGED <<kind, dialog, minted, sent, run, awaiting, told, early>>

ListFails ==
  /\ list.fetch # "idle"
  /\ list' = [list EXCEPT !.fetch = "idle", !.seen = {}]
  /\ UNCHANGED <<kind, dialog, minted, sent, run, awaiting, told, early>>

-----------------------------------------------------------------------------
(* The dialog. *)

(* crypto.randomUUID *)
FreshKey == CHOOSE k \in Keys : k \notin minted
KeyIsLeft == \E k \in Keys : k \notin minted

Opens ==
  /\ kind # Clients /\ (kind.key = "opening" => KeyIsLeft)
  /\ dialog.opening = 0 /\ dialog.last < MaxOpenings
  /\ LET k == IF kind.key = "opening" THEN FreshKey ELSE Nothing
     IN  /\ dialog' = [dialog EXCEPT !.opening = dialog.last + 1, !.last = dialog.last + 1,
                                     !.key = k, !.content = Nothing]
         /\ minted' = minted \cup ({k} \ {Nothing})
  /\ UNCHANGED <<kind, sent, run, awaiting, told, list, early>>

(* What is left of a dialog that goes away *)
Left(d) == [d EXCEPT !.opening = 0, !.latest = IF kind.pending = "page" THEN @ ELSE Nothing]

Closes ==
  /\ dialog.opening # 0
  /\ dialog' = Left(dialog)
  /\ UNCHANGED <<kind, minted, sent, run, awaiting, told, list, early>>

Mints(b) == kind.key = "submit" \/ (kind.key = "content" /\ dialog.content # b)

(* mutant: a key for every submission *)
MKeyFor(b) == IF KeyIsLeft THEN FreshKey ELSE dialog.key

KeyFor(b) == IF Mints(b) THEN FreshKey ELSE dialog.key

(* The dialog with content b is submitted; it is a repetition if nothing   *)
(* else was submitted since it was opened.                                 *)
Submits(b) ==
  /\ dialog.opening # 0 /\ dialog.latest = Nothing
  /\ Cardinality(sent) < MaxSends /\ (Mints(b) => KeyIsLeft)
  /\ LET k == KeyFor(b)
         n == IF dialog.content = b THEN dialog.run ELSE dialog.run + 1
         new == {q \in Requests \ sent : KeyOf[q] = k /\ Body[q] = b}
         r == CHOOSE q \in new : TRUE
     IN  /\ new # {}
         /\ dialog' = [dialog EXCEPT !.key = k, !.content = b, !.latest = r, !.run = n]
         /\ minted' = minted \cup {k}
         /\ sent' = sent \cup {r}
         /\ run' = [run EXCEPT ![r] = n]
         /\ awaiting' = awaiting \cup {r}
  /\ UNCHANGED <<kind, told, list, early>>

(* The answer to r enables the button it had disabled; the form of a task  *)
(* resets its flag at any answer.                                          *)
Settled(d, r) ==
  [d EXCEPT !.latest = IF @ = r \/ kind.pending = "form" THEN Nothing ELSE @]

(* onSuccess is run however often the dialog was closed and opened since.  *)
Succeeds(r) ==
  /\ r \in awaiting /\ reply[r] \in Requests
  /\ awaiting' = awaiting \ {r}
  /\ told' = told \cup {r}
  /\ early' = IF ~list.loaded /\ list.fetch # "idle" THEN early \cup {r} ELSE early
  /\ dialog' = Left(Settled(dialog, r))
  /\ list' = Invalidated(list)
  /\ UNCHANGED <<kind, minted, sent, run>>

Refuses(r) ==
  /\ r \in awaiting /\ reply[r] \in {Busy, Mismatch, Error}
  /\ awaiting' = awaiting \ {r}
  /\ dialog' = Settled(dialog, r)
  /\ list' = list \/ (kind.rereads /\ list' = Invalidated(list))
  /\ UNCHANGED <<kind, minted, sent, run, told, early>>

(* No answer: the network failed before or after the server did its part.  *)
Loses(r) ==
  /\ r \in awaiting
  /\ awaiting' = awaiting \ {r}
  /\ dialog' = Settled(dialog, r)
  /\ UNCHANGED <<kind, minted, sent, run, told, list, early>>

-----------------------------------------------------------------------------
DeskStep ==
  \/ Opens \/ Closes \/ (\E b \in Bodies : Submits(b))
  \/ (\E r \in Requests : Succeeds(r) \/ Refuses(r) \/ Loses(r))
  \/ ListAsks \/ ListReads \/ ListArrives \/ ListFails

ServerStep == \E r \in sent : Step(r) \/ Crash(r)

DeskNext ==
  \/ DeskStep /\ UNCHANGED vars
  \/ ServerStep /\ UNCHANGED deskVars

DeskSpec == DeskInit /\ [][DeskNext]_<<vars, deskVars>>

(* The server does not stop while requests hold their keys.                *)
Answers == (\E r \in sent : pc[r] # "new" /\ Step(r)) /\ UNCHANGED deskVars

DeskFairSpec == DeskSpec /\ WF_<<vars, deskVars>>(Answers)

-----------------------------------------------------------------------------
DeskTypeOK ==
  /\ kind \in Kinds \cup {Clients}
  /\ dialog \in [opening : Nat, last : Nat, key : Keys \cup {Nothing}, run : Nat,
                 content : Bodies \cup {Nothing}, latest : Requests \cup {Nothing}]
  /\ minted \subseteq Keys
  /\ sent \subseteq Requests /\ awaiting \subseteq sent
  /\ early \subseteq told /\ told \subseteq sent
  /\ run \in [Requests -> Nat]
  /\ list \in [data : SUBSET did, loaded : BOOLEAN, stale : BOOLEAN,
               fetch : {"idle", "asked", "read"}, seen : SUBSET did]

(* What is submitted again and again, through an answer that was lost or a *)
(* button that was pressed twice, is done at most once, if the dialog has  *)
(* a key for it and no handler threw after it had committed.               *)
SubmittedOnce ==
  kind.key \in {"opening", "content"} =>
    \A q, r \in did : run[q] = run[r] /\ reply[q] # Error /\ reply[r] # Error => q = r

(* The user is told of a success only if what the dialog held was done.    *)
ToldIsDone ==
  \A r \in told : reply[r] \in did /\ Body[reply[r]] = Body[r]

(* 422 is said only of a dialog that was edited after it was submitted and *)
(* keeps its key as long as it is open.                                    *)
MismatchIsEdited ==
  \A r \in sent : reply[r] = Mismatch /\ kind # Clients =>
    kind.key = "opening" /\ \E q \in sent : KeyOf[q] = KeyOf[r] /\ Body[q] # Body[r]

(* Submissions are done once, reported truly and refused for a reason.     *)
SubmissionsAreSound == DeskTypeOK /\ SubmittedOnce /\ ToldIsDone /\ MismatchIsEdited

(* Both sides: the keys of the server, and the dialogs that send them.     *)
DialogsAreSound == KeysAreSound /\ SubmissionsAreSound

(* A page at rest shows everything its user was told was done, whatever    *)
(* fetches were under way; only what was told while the list loaded for    *)
(* the first time may be missing, for that fetch is not started over.      *)
ListIsCurrent ==
  list.loaded /\ ~list.stale /\ list.fetch = "idle" =>
    {reply[r] : r \in told \ early} \subseteq list.data
=============================================================================
