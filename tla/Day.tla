--------------------------------- MODULE Day ---------------------------------
(***************************************************************************)
(* modules/field-route and the lists of the technician's phone: the visits *)
(* of the day in the order of travel, the list of all jobs, and where a    *)
(* customer is, learnt from the phone that has just closed a visit there.  *)
(* One technician, whose visits are numbered in the order of their         *)
(* creation.  Instants are numbered, DayLength of them a day; places lie   *)
(* on a line.                                                              *)
(***************************************************************************)
EXTENDS Integers, Sequences, FiniteSetsExt

CONSTANTS
  Visits,       \* tasks of the technician, numbers
  Priority,     \* Priority[v]: 1 is the most urgent
  Places,       \* positions, numbers
  Sites,        \* customers
  Learners,     \* reports of a phone's position
  DayLength,
  MaxStops,     \* MAX_STOPS: rows of one day
  PageSize,     \* PAGE: rows of the list of jobs
  ClosedSize,   \* rows of its list of closed ones
  Unknown,      \* NULL: no time, no place
  NoVisit

ASSUME DayAssumption ==
  /\ Visits \subseteq Nat /\ IsFiniteSet(Visits) /\ Priority \in [Visits -> Nat]
  /\ Places \subseteq Int /\ Unknown \notin Places
  /\ DayLength \in Nat \ {0} /\ MaxStops \in Nat /\ PageSize \in Nat
  /\ ClosedSize \in Nat \ {0}

VARIABLES
  today,     \* the number of the day
  stop,     \* stop[v]: the row of the task: its status, or "AWAY" while it is
             \* not the technician's; when it is, whose, and its own place
  place,     \* place[s]: of the customer's row
  home,      \* the technician's home; never changes
  report,    \* report[r]: how far it is, of which visit, from where, whether it
             \* found the customer's place unknown, the answer
  jobs       \* the list of all jobs: what was asked, open, closed, cut, and the
             \* visits that changed since the first question

dayVars == <<today, stop, place, home, report, jobs>>

Stop == [status : {"AWAY", "ASSIGNED", "CLOSED"}, when : Nat \cup {Unknown}, site : Sites,
         own : Places \cup {Unknown}]

DayTypeOK ==
  /\ today \in Nat
  /\ stop \in [Visits -> Stop]
  /\ place \in [Sites -> Places \cup {Unknown}] /\ home \in Places \cup {Unknown}
  /\ report \in [Learners -> [pc : {"new", "sent", "locked", "ended"}, of : Visits \cup {NoVisit},
                              from : Places \cup {Unknown}, first : BOOLEAN, saved : BOOLEAN]]
  /\ jobs \in [asked : SUBSET {"open", "closed"}, open : SUBSET Visits, closed : SUBSET Visits,
               cut : BOOLEAN, moved : SUBSET Visits]

(* The rows and the technician's home are given; phones that take part     *)
(* report, and the list of jobs is read or not.                            *)
DayInit(rows, places, homes, phones, listing) ==
  /\ today = 0 /\ stop \in rows /\ place \in places /\ home \in homes
  /\ report = [r \in Learners |-> [pc |-> IF r \in phones THEN "new" ELSE "ended", of |-> NoVisit,
                                   from |-> Unknown, first |-> FALSE, saved |-> FALSE]]
  /\ jobs = [asked |-> IF listing THEN {} ELSE {"open", "closed"}, open |-> {}, closed |-> {},
             cut |-> FALSE, moved |-> IF listing THEN {} ELSE Visits]

Mine(v) == stop[v].status # "AWAY"
Open(v) == stop[v].status = "ASSIGNED"

-----------------------------------------------------------------------------
(* myDay *)

Starts == today * DayLength

(* mutant: a visit of an earlier day is not carried over *)
MDue(v) ==
  \/ stop[v].when # Unknown /\ Mine(v) /\ stop[v].when \in Starts .. Starts + DayLength - 1
  \/ Open(v) /\ stop[v].when = Unknown

(* What is fixed for today, and what is still open without a time or from  *)
(* an earlier day.                                                         *)
Due(v) ==
  \/ stop[v].when # Unknown /\ Mine(v) /\ stop[v].when \in Starts .. Starts + DayLength - 1
  \/ Open(v) /\ (stop[v].when # Unknown => stop[v].when < Starts)

(* ORDER BY "scheduledStart" NULLS LAST, priority, "createdAt" LIMIT *)
Earlier(v, w) ==
  LET a == stop[v].when   b == stop[w].when IN
  \/ a # Unknown /\ (b = Unknown \/ a < b)
  \/ a = b /\ (Priority[v] < Priority[w] \/ (Priority[v] = Priority[w] /\ v < w))
Rows ==
  LET due == {v \in Visits : Due(v)} IN
  {v \in due : Cardinality({w \in due : Earlier(w, v)}) < MaxStops}
InOrder(S) ==
  [k \in 1..Cardinality(S) |-> CHOOSE v \in S : Cardinality({w \in S : Earlier(w, v)}) = k - 1]

(* COALESCE(the task's, the customer's) *)
Where(v) == IF stop[v].own # Unknown THEN stop[v].own ELSE place[stop[v].site]
Located(v) == Where(v) # Unknown
Scheduled(v) == stop[v].when # Unknown
Far(p, q) == IF p < q THEN q - p ELSE p - q

(* The nearest to here, the first of the pool among equals; the first of   *)
(* all when nothing is known of here.                                      *)
Nearer(v, w, here) ==
  IF here = Unknown \/ Far(here, Where(v)) = Far(here, Where(w)) THEN Earlier(v, w)
  ELSE Far(here, Where(v)) < Far(here, Where(w))
Nearest(pool, here) == CHOOSE v \in pool : \A w \in pool : ~Nearer(w, v, here)

(* mutant: every visit is the nearest to where the tour began *)
MTours(pool, here) ==
  LET First[n \in 0..Cardinality(pool)] ==
        IF n = 0 THEN <<>> ELSE Append(First[n - 1], Nearest(pool \ Range(First[n - 1]), here))
  IN  First

(* The pool from one nearest neighbour to the next: Tours(pool, here)[n]   *)
(* is the first n of it.                                                   *)
Tours(pool, here) ==
  LET First[n \in 0..Cardinality(pool)] ==
        IF n = 0 THEN <<>>
        ELSE Append(First[n - 1], Nearest(pool \ Range(First[n - 1]),
                                          IF n = 1 THEN here ELSE Where(First[n - 1][n - 1])))
  IN  First
Tour(pool, here) == Tours(pool, here)[Cardinality(pool)]

(* orderStops *)
Fixed(stops) == {v \in stops : Scheduled(v)}
Placed(stops) == {v \in stops : ~Scheduled(v) /\ Located(v)}
LastPlace(stops) ==
  LET known == {v \in Fixed(stops) : Located(v)} IN
  IF known = {} THEN home ELSE Where(CHOOSE v \in known : \A w \in known : ~Earlier(v, w))
OrderStops(stops) ==
  InOrder(Fixed(stops)) \o Tour(Placed(stops), LastPlace(stops))
    \o InOrder({v \in stops : ~Scheduled(v) /\ ~Located(v)})

MyDay == [stops |-> OrderStops({v \in Rows : Open(v)}), done |-> InOrder({v \in Rows : ~Open(v)})]

-----------------------------------------------------------------------------
(* MyDayPage *)

(* mutant: what has no time stands over, too *)
MOverdue(v) == Scheduled(v) => stop[v].when < Starts

Overdue(v) == Scheduled(v) /\ stop[v].when < Starts

(* What stands on the card of the k-th stop.  What the customer and the    *)
(* technician have said of the visit is the matter of TaskStatus.          *)
StopCard(v, k) ==
  [stop |-> v, number |-> k, next |-> k = 1, hour |-> stop[v].when, overdue |-> Overdue(v),
   waze |-> Where(v)]

(* The cards of what is to be done, or what stands in their place, and     *)
(* what is done.                                                           *)
DayPage ==
  LET day == MyDay IN
  [cards |-> [k \in DOMAIN day.stops |-> StopCard(day.stops[k], k)],
   says  |-> IF day.stops # <<>> THEN "to do" ELSE IF day.done # <<>> THEN "finished" ELSE "no visits",
   done  |-> day.done]

-----------------------------------------------------------------------------
(* The office and the calendar. *)

Midnight(last) == today < last /\ today' = today + 1 /\ UNCHANGED <<stop, place, home, report, jobs>>

Turns(v, s) ==
  /\ stop' = [stop EXCEPT ![v].status = s]
  /\ jobs' = [jobs EXCEPT !.moved = IF jobs.asked = {} THEN @ ELSE @ \cup {v}]

(* AssignWrites of TaskBoard, to this technician or to another one *)
Assigned(v) ==
  /\ \/ stop[v].status = "AWAY" /\ Turns(v, "ASSIGNED")
     \/ stop[v].status = "ASSIGNED" /\ Turns(v, "AWAY")
  /\ UNCHANGED <<today, place, home, report>>

(* Somebody closes it.  The phone that did, and was not told that it was   *)
(* closed already, reports where it is - if it knows, and if the request   *)
(* arrives.                                                                *)
Closed(v) ==
  /\ Open(v) /\ Turns(v, "CLOSED")
  /\ \/ UNCHANGED report
     \/ \E r \in Learners, p \in Places :
          report[r].pc = "new"
          /\ report' = [report EXCEPT ![r] = [@ EXCEPT !.pc = "sent", !.of = v, !.from = p]]
  /\ UNCHANGED <<today, place, home>>

-----------------------------------------------------------------------------
(* learnSiteLocation: one transaction *)

SiteLocked(s) == \E r \in Learners : report[r].pc = "locked" /\ report[r].first /\ stop[report[r].of].site = s

(* mutant: the update has no condition *)
MUnlearnt(s) == TRUE

Unlearnt(s) == place[s] = Unknown

(* The task is read, the sample is accurate enough or not, and the first   *)
(* updateMany locks the row it matches.                                    *)
LearnBegins(r) ==
  /\ report[r].pc = "sent"
  /\ LET s == stop[report[r].of].site IN
     \/ report' = [report EXCEPT ![r].pc = "ended"]                 \* inaccurate
     \/ /\ Mine(report[r].of) /\ ~SiteLocked(s)
        /\ report' = [report EXCEPT ![r].pc = "locked", ![r].first = Unlearnt(s)]
     \/ ~Mine(report[r].of) /\ report' = [report EXCEPT ![r].pc = "ended"]   \* 404
  /\ UNCHANGED <<today, stop, place, home, jobs>>

LearnCommits(r) ==
  LET v == report[r].of IN
  /\ report[r].pc = "locked"
  /\ report' = [report EXCEPT ![r].pc = "ended", ![r].saved = report[r].first]
  /\ place' = IF report[r].first THEN [place EXCEPT ![stop[v].site] = report[r].from] ELSE place
  /\ stop' = IF stop[v].own = Unknown THEN [stop EXCEPT ![v].own = report[r].from] ELSE stop
  /\ UNCHANGED <<today, home, jobs>>

-----------------------------------------------------------------------------
(* fetchMyJobs: two requests at the same time, the first page of each.     *)

(* urgentFirst: the most urgent first and, here, the newest among equals *)
FirstPage(S) ==
  LET Ahead(v, w) == Priority[v] < Priority[w] \/ (Priority[v] = Priority[w] /\ v > w) IN
  {v \in S : Cardinality({w \in S : Ahead(w, v)}) < PageSize}

(* mutant: a page that is cut is not said to be *)
MCut(S) == FALSE

(* nextCursor: the page is full *)
Cut(S) == Cardinality(S) >= PageSize

(* Whatever its status: the phone keeps the open ones of the page. *)
JobsReadOpen ==
  LET all == {v \in Visits : Mine(v)} IN
  /\ "open" \notin jobs.asked
  /\ jobs' = [jobs EXCEPT !.asked = @ \cup {"open"}, !.open = {v \in FirstPage(all) : Open(v)},
                          !.cut = Cut(all)]
  /\ UNCHANGED <<today, stop, place, home, report>>

(* mutant: the list is in the order of creation *)
MNewest(S) == {v \in S : Cardinality({w \in S : w < v}) < ClosedSize}

(* findAll without urgentFirst: the last created, however long ago they    *)
(* were closed.                                                            *)
Newest(S) == {v \in S : Cardinality({w \in S : w > v}) < ClosedSize}

(* The cursor of this answer is dropped. *)
JobsReadClosed ==
  /\ "closed" \notin jobs.asked
  /\ jobs' = [jobs EXCEPT !.asked = @ \cup {"closed"},
                          !.closed = Newest({v \in Visits : stop[v].status = "CLOSED"})]
  /\ UNCHANGED <<today, stop, place, home, report>>

(* MyJobsPage: a card of a closed job is muted; a warning stands above the *)
(* cards when the open ones were cut, and none for the closed ones.        *)
JobCard(v, muted) == [job |-> v, muted |-> muted]

JobsPage ==
  [cards |-> {JobCard(v, FALSE) : v \in jobs.open} \cup {JobCard(v, TRUE) : v \in jobs.closed},
   warns |-> jobs.cut]

DayNext(last) ==
  \/ Midnight(last) \/ JobsReadOpen \/ JobsReadClosed
  \/ \E v \in Visits : Assigned(v) \/ Closed(v)
  \/ \E r \in Learners : LearnBegins(r) \/ LearnCommits(r)

(* Any rows, any map, any phones, and days without end. *)
DaySpec ==
  /\ \E phones \in SUBSET Learners, listing \in BOOLEAN :
       DayInit([Visits -> Stop], [Sites -> Places \cup {Unknown}], Places \cup {Unknown},
               phones, listing)
  /\ [][\E last \in Nat : DayNext(last)]_dayVars

-----------------------------------------------------------------------------
(* Properties. *)

(* The day shows every visit that is due, once - unless it is full - and   *)
(* in an order one can drive: appointments first, in the order of their    *)
(* times; then, from the last place known, always to a nearest remaining   *)
(* visit; what cannot be placed comes last.                                *)
TourIsRight ==
  LET s == MyDay.stops
      Floats(i) == ~Scheduled(s[i]) /\ Located(s[i])
      From(i) == IF i > 1 /\ Floats(i - 1) THEN Where(s[i - 1])
                 ELSE LET known == {j \in 1 .. i - 1 : Scheduled(s[j]) /\ Located(s[j])} IN
                      IF known = {} THEN home ELSE Where(s[Max(known)])
  IN  /\ \A i, j \in DOMAIN s : i < j =>
           /\ s[i] # s[j]
           /\ Scheduled(s[j]) => Scheduled(s[i]) /\ stop[s[i]].when <= stop[s[j]].when
           /\ Located(s[j]) => Scheduled(s[i]) \/ Located(s[i])
           /\ Floats(i) /\ Floats(j) /\ From(i) # Unknown =>
                Far(From(i), Where(s[i])) <= Far(From(i), Where(s[j]))
      /\ \A v \in Visits :
           Open(v) /\ (Scheduled(v) => stop[v].when < Starts + DayLength) =>
             v \in Range(s) \/ Len(s) + Len(MyDay.done) = MaxStops
      /\ \A i \in DOMAIN MyDay.done : stop[MyDay.done[i]].status = "CLOSED"

(* What stands over from an earlier day comes before every other card, the *)
(* card that is called the next one included; and the page does not say    *)
(* that the day is finished, or empty, while an open visit is due - unless *)
(* the day is full.                                                        *)
PageIsTrue ==
  LET page == DayPage   c == page.cards IN
  /\ \A i, j \in DOMAIN c : c[j].overdue /\ (i < j \/ c[i].next) => c[i].overdue
  /\ page.says # "to do" =>
       \A v \in Visits : Open(v) /\ (Scheduled(v) => stop[v].when < Starts + DayLength) =>
         Len(page.done) = MaxStops

(* A visit that was open and the technician's while the list was read has  *)
(* a card among the open ones, or the page warns that it is cut; one that  *)
(* was closed has a muted card, or the closed list is full of visits that  *)
(* were created later, which the page does not say; and a visit that did   *)
(* not change has one card.  A page without cards and without the warning  *)
(* says that nothing is assigned, and nothing is.                          *)
JobsAreListed ==
  jobs.asked = {"open", "closed"} =>
    \A v \in Visits \ jobs.moved :
      /\ Open(v) => JobCard(v, FALSE) \in JobsPage.cards \/ JobsPage.warns
      /\ stop[v].status = "CLOSED" =>
           \/ JobCard(v, TRUE) \in JobsPage.cards
           \/ Cardinality(jobs.closed) = ClosedSize /\ \A w \in jobs.closed : w > v
      /\ ~({JobCard(v, FALSE), JobCard(v, TRUE)} \subseteq JobsPage.cards)
      /\ JobsPage.cards = {} /\ ~JobsPage.warns => ~Mine(v)

(* What the phone is told it taught is what the customer's row says from   *)
(* then on: a place that is known is not replaced by a later sample, also  *)
(* when two phones report from one customer at the same time.              *)
LessonsAreTrue ==
  \A q, r \in Learners : report[r].saved =>
    LET Site(x) == stop[report[x].of].site IN
    /\ place[Site(r)] = report[r].from
    /\ report[q].saved /\ q # r => Site(q) # Site(r)

DayIsRight == DayTypeOK /\ TourIsRight /\ PageIsTrue /\ JobsAreListed /\ LessonsAreTrue
=============================================================================
