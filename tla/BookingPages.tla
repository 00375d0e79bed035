---------------------------- MODULE BookingPages ----------------------------
(***************************************************************************)
(* features/public/booking-page.tsx: the page that a reminder's link       *)
(* opens, in the customer's browser, with the server of Booking behind it. *)
(* A page reads the view, offers the days the view allows, and books with  *)
(* the windows that have a day; each attempt is one tap of Booking.  Days  *)
(* are numbers; the server allows those from tomorrow on, HowFar ahead.    *)
(***************************************************************************)
EXTENDS Booking, Sequences, FiniteSetsExt

CONSTANTS
  Pages,
  Sendings,    \* bound: the taps made, in this order, by a page or elsewhere
  HowFar,      \* MAX_BOOKING_DAYS_AHEAD
  MaxWindows,  \* options on the form: 3
  MaxDay,      \* bound: the last day
  MaxFetches,  \* bound: fetches of the view, by all pages
  NoTap

ASSUME BookingPagesAssumption ==
  /\ HowFar \in Nat \ {0} /\ MaxWindows \in Nat /\ MaxDay \in Nat /\ MaxFetches \in Nat
  /\ Sendings \in Seq(Taps)

Days == 1..MaxDay + HowFar

VARIABLES
  today,
  page,   \* page[p]: what page p has read and is doing, see Page
  dates   \* dates[r]: the days that tap r asks for

pageVars == <<today, page, dates>>

(* fetch: the view is being read; data, error: of the query; mutation: the *)
(* state of the booking; read: the day on which the view was read;         *)
(* windows: the days chosen, an option without one being left out.         *)
Page ==
  [link : Makers \cup {NoLink}, fetches : Nat,
   fetch : {"none", "asked", "unused", "used"}, error : BOOLEAN,
   data : {"none", "form", "booked"}, read : 0..MaxDay,
   windows : SUBSET Days,
   tap : Taps \cup {NoTap},
   mutation : {"idle", "pending", "ok", "Conflict", "BadRequest", "failed"}]

PagesInit ==
  /\ today = 0
  /\ page = [p \in Pages |->
       [link |-> NoLink, fetches |-> 0, fetch |-> "none", error |-> FALSE, data |-> "none", read |-> 0,
        windows |-> {}, tap |-> NoTap, mutation |-> "idle"]]
  /\ dates = [r \in Taps |-> {}]

Turn(p, q) == page' = [page EXCEPT ![p] = q]

-----------------------------------------------------------------------------
(* The view. *)

MinDate(d) == d + 1
MaxDate(d) == d + HowFar

(* The page is opened with a link the customer has been sent, or its       *)
(* window gets the focus again when the view is stale.                     *)
Fetch(p) ==
  LET q == page[p] IN
  /\ q.fetch = "none" /\ MapThenSumSet(LAMBDA o : page[o].fetches, Pages) < MaxFetches
  /\ \E m \in Makers :
       /\ reply[m] = "ok" /\ q.link \in {NoLink, m}
       /\ Turn(p, [q EXCEPT !.fetches = @ + 1, !.link = m, !.fetch = "asked"])
  /\ UNCHANGED <<vars, today, dates>>

(* Any failure is an error of the query, which keeps what it had read.     *)
FetchFails(p) ==
  /\ page[p].fetch # "none"
  /\ \/ page[p].fetch = "asked" /\ ~Resolves(page[p].link)
     \/ page[p].fetch # "asked" /\ SubjectOf[page[p].link] \notin active
     \/ "lost" \in Faults
  /\ Turn(p, [page[p] EXCEPT !.fetch = "none", !.error = TRUE])
  /\ UNCHANGED <<vars, today, dates>>

(* The link is resolved in a transaction of its own ... *)
ViewResolves(p) ==
  LET q == page[p] IN
  /\ q.fetch = "asked" /\ Resolves(q.link)
  /\ Turn(p, [q EXCEPT !.fetch = IF q.link \in used THEN "used" ELSE "unused"])
  /\ UNCHANGED <<vars, today, dates>>

(* ... before the equipment and its open tasks are read. *)
ViewAnswers(p) ==
  LET q == page[p]
      e == SubjectOf[q.link]
  IN
  /\ q.fetch \in {"unused", "used"} /\ e \in active
  /\ Turn(p, [q EXCEPT !.fetch = "none", !.error = FALSE, !.read = today,
                       !.data = IF q.fetch = "used" \/ OpenTasks(e) # {} THEN "booked" ELSE "form"])
  /\ UNCHANGED <<vars, today, dates>>

-----------------------------------------------------------------------------
(* What the page shows. *)

(* mutant: any refusal counts as received *)
MConflicts(q) == q.mutation \in {"Conflict", "failed"}

Conflicts(q) == q.mutation = "Conflict"

Screen(q) ==
  CASE q.data = "none" /\ q.fetch # "none" /\ ~q.error -> "loading"
    [] q.error \/ (q.data = "none" /\ q.fetch = "none") -> "invalid"
    [] OTHER -> IF q.mutation = "ok" \/ q.data = "booked" \/ Conflicts(q) THEN "received" ELSE "form"

-----------------------------------------------------------------------------
(* The form. *)

(* Followed while somebody has a form, or has sent one. *)
Midnight ==
  /\ today < MaxDay /\ today' = today + 1
  /\ \E p \in Pages : Screen(page[p]) = "form" /\ page[p].mutation # "failed"
  /\ UNCHANGED <<vars, page, dates>>

Edit(p) ==
  LET q == page[p]
      D == q.windows
  IN
  /\ Screen(q) = "form"
  /\ \/ \E d \in MinDate(q.read)..MaxDate(q.read) :
          Cardinality(D) < MaxWindows /\ Turn(p, [q EXCEPT !.windows = D \cup {d}])
     \/ \E d \in D : Turn(p, [q EXCEPT !.windows = D \ {d}])
  /\ UNCHANGED <<vars, today, dates>>

(* The next tap that nobody has made. *)
NextTap(r) ==
  \E i \in DOMAIN Sendings :
    /\ r = Sendings[i]
    /\ {j \in DOMAIN Sendings : token[Sendings[j]] = NoLink} = i..Len(Sendings)

(* The browser submits a form only if its days are in the range it shows.  *)
Submit(p) ==
  LET q == page[p] IN
  /\ Screen(q) = "form" /\ q.mutation # "pending"
  /\ q.windows # {} /\ q.windows \subseteq MinDate(q.read)..MaxDate(q.read)
  /\ \E r \in Taps :
       /\ NextTap(r)
       /\ dates' = [dates EXCEPT ![r] = q.windows]
       /\ token' = [token EXCEPT ![r] = q.link]
       /\ Turn(p, [q EXCEPT !.tap = r, !.mutation = "pending"])
  /\ UNCHANGED <<rowVars, pc, reply, linkVars, today>>

(* An answer, or a connection that breaks, before or after the request is  *)
(* worked on.                                                              *)
Hear(p) ==
  LET q == page[p] IN
  /\ q.mutation = "pending"
  /\ \/ /\ pc[q.tap] = "ended"
        /\ Turn(p, [q EXCEPT !.mutation =
             IF reply[q.tap] \in {"ok", "Conflict", "BadRequest"} THEN reply[q.tap] ELSE "failed"])
     \/ "lost" \in Faults /\ Turn(p, [q EXCEPT !.mutation = "failed"])
  /\ UNCHANGED <<vars, today, dates>>

-----------------------------------------------------------------------------
(* The server, called by the pages. *)

(* mutant: a visit cannot be asked for tomorrow *)
MAllowed(D) == \A d \in D : MinDate(today) < d /\ d <= MaxDate(today)

Allowed(D) == \A d \in D : MinDate(today) <= d /\ d <= MaxDate(today)

(* The link, and then the days, before the transaction of the booking.     *)
TapArrives(r) ==
  /\ dates[r] # {}
  /\ token' = token
  /\ IF Allowed(dates[r])
     THEN BookResolves(r)
     ELSE /\ pc[r] = "new"
          /\ End(r, IF Resolves(token[r]) THEN "BadRequest" ELSE "NotFound")
          /\ UNCHANGED <<rowVars, linkVars>>
  /\ UNCHANGED pageVars

(* Left out, as Booking has them: that a unit is activated again, that a   *)
(* reminder is aborted or two are written at once, that a link expires (a  *)
(* new reminder withdraws it), that a booking is aborted before its end.   *)
Serve ==
  /\ \/ \E e \in active : SetActive(e)
     \/ \E t \in Taps : CloseTask(t)
     \/ \E m \in Makers :
          RemindStep(m) /\ \A o \in Makers \ {m} : pc[o] \in {"new", "ended"}
     \/ \E r \in Taps : NextTap(r) /\ BookResolves(r)
     \/ \E r \in Taps : BookMarks(r) \/ BookLocks(r) \/ BookChecks(r) \/ BookCommits(r)
     \/ \E r \in Taps : pc[r] = "creating" /\ Abort(r)
  /\ UNCHANGED pageVars

PagesNext ==
  \/ \E p \in Pages :
       \/ Fetch(p) \/ FetchFails(p) \/ ViewResolves(p) \/ ViewAnswers(p)
       \/ Edit(p) \/ Submit(p) \/ Hear(p)
  \/ \E r \in Taps : TapArrives(r)
  \/ Midnight \/ Serve

PagesSpec == Init /\ PagesInit /\ [][PagesNext]_<<vars, pageVars>>

-----------------------------------------------------------------------------
(* Properties. *)

(* A customer who reads "the request was received" has a visit: a task of  *)
(* this equipment was created, through this link or another one, whatever  *)
(* was lost on the way.  One who reads that a day is out of range chose a  *)
(* day that came while the page was open.  And a visit that is promised    *)
(* has days, in range.                                                     *)
PagesAreTrue ==
  \A p \in Pages :
    LET q == page[p] IN
    /\ q \in Page
    /\ Screen(q) = "received" => \E t \in tasks : UnitOf(t) = SubjectOf[q.link]
    /\ q.mutation = "BadRequest" => \E d \in dates[q.tap] : d <= today
    /\ q.mutation = "ok" => q.tap \in tasks /\ dates[q.tap] # {} /\ dates[q.tap] \subseteq 1..MaxDate(today)
=============================================================================
