---------------------------- MODULE CustomerProofs ----------------------------
(* Proofs about FieldApp: what the customer and the technician are told is  *)
(* true, a finished visit is frozen, and ticks survive a refetch; about     *)
(* Quotes: numbers, links, answers and tasks of a tenant's quotes agree;    *)
(* and about Day: the tour, the list of jobs and the places learnt.         *)
EXTENDS FieldApp, QuotePages, Day, Functions, FiniteSetTheorems, FunctionTheorems, SequenceTheorems,
        WellFoundedInduction, TLAPS

(* A close that was handled knows whether it was the one that counted.      *)
ClosesAreKnown ==
  /\ IsOpen <=> closedBy = NoClose
  /\ \A k \in Closes :
       /\ close[k].pc \in {"new", "sent"} => close[k].answer = "none"
       /\ close[k].answer = "closed" => closedBy = k /\ done = close[k].sent
       /\ close[k].answer = "already" => closedBy \notin {NoClose, k}
  /\ told.what # "none" => told.close \in Closes /\ close[told.close].answer = told.what

(* Nothing is done in the checklist of an open task, nor in what was read   *)
(* of it.                                                                   *)
NothingDoneYet ==
  IsOpen => /\ done = {}
            /\ job.task # NoView => job.task.done = {}
            /\ job.fetching # NoView => job.fetching.done = {}

IInv == FieldTypeOK /\ ClosesAreKnown /\ ConfirmedIsCurrent /\ NothingDoneYet

LEMMA InitHolds == FieldInit => IInv
  BY FieldAppAssumption, TaskStatusAssumption
  DEF FieldInit, StatusInit, IInv, FieldTypeOK, StatusTypeOK, View, ClosesAreKnown, ConfirmedIsCurrent,
      NothingDoneYet, Task, IsOpen

-----------------------------------------------------------------------------
(* The page of the customer asks for the visit. *)
LEMMA LoadsType ==
  ASSUME StatusTypeOK, NEW p \in Pages, Loads(p)
  PROVE  StatusTypeOK'
  <1> DEFINE n == page[p].loads + 1
             A == View \cup {NoView}
             L == 0 .. MaxViews
             C == {"idle", "confirming", "asking", "viewing"}
  <1>1. page \in [Pages -> [shown : A, loading : A, loads : L, pc : C]]
    BY DEF StatusTypeOK
  <1>2. n \in L /\ visit \in A
    BY TaskStatusAssumption DEF Loads, StatusTypeOK
  <1>3. page' = [page EXCEPT ![p].loads = n, ![p].loading = visit]
    BY DEF Loads
  <1>4. page' \in [Pages -> [shown : A, loading : A, loads : L, pc : C]]
    <2> HIDE DEF n, A, L, C
    <2> QED BY <1>1, <1>2, <1>3
  <1> QED BY <1>4 DEF Loads, StatusTypeOK

(* A step of the visit leaves the phone alone and finishes nothing.         *)
LEMMA VisitStep ==
  ASSUME IInv, Business \/ Customer, UNCHANGED fieldVars
  PROVE  IInv'
  <1>1. FieldTypeOK' /\ ConfirmedIsCurrent' /\ visit'.status = visit.status
    <2> USE TaskStatusAssumption
        DEF IInv, FieldTypeOK, StatusTypeOK, fieldVars, View, ConfirmedIsCurrent, IsOpen
    <2>1. CASE Schedule
      <3>1. visit.time + 1 \in 0 .. MaxTimes
        BY <2>1 DEF Schedule
      <3>2. visit' \in View /\ visit'.customer = "silent" /\ visit'.status = visit.status
        BY <2>1, <3>1 DEF Schedule, Rescheduled
      <3> QED BY <2>1, <3>2 DEF Schedule
    <2>2. ASSUME NEW d \in Departures, Departs(d) \/ DepartWrites(d)
          PROVE  FieldTypeOK' /\ ConfirmedIsCurrent' /\ visit'.status = visit.status
      BY <2>2 DEF Departs, DepartWrites
    <2>3. ASSUME NEW p \in Pages, Loads(p)
          PROVE  FieldTypeOK' /\ ConfirmedIsCurrent' /\ visit'.status = visit.status
      <3>1. StatusTypeOK'
        BY <2>3, LoadsType
      <3> QED BY <2>3, <3>1 DEF Loads
    <2>6. ASSUME NEW p \in Pages, LoadArrives(p) \/ Clicks(p)
          PROVE  FieldTypeOK' /\ ConfirmedIsCurrent' /\ visit'.status = visit.status
      BY <2>6 DEF LoadArrives, Clicks
    <2>4. ASSUME NEW p \in Pages, Confirms(p)
          PROVE  FieldTypeOK' /\ ConfirmedIsCurrent' /\ visit'.status = visit.status
      BY <2>4 DEF Confirms, Confirmable
    <2>5. ASSUME NEW p \in Pages, Asks(p) \/ Views(p)
          PROVE  FieldTypeOK' /\ ConfirmedIsCurrent' /\ visit'.status = visit.status
      BY <2>5 DEF Asks, Views
    <2> QED BY <2>1, <2>2, <2>3, <2>4, <2>5, <2>6 DEF Business, Customer
  <1>2. ClosesAreKnown' /\ NothingDoneYet'
    BY <1>1 DEF IInv, ClosesAreKnown, NothingDoneYet, IsOpen, fieldVars
  <1> QED BY <1>1, <1>2 DEF IInv

(* A step of the job page closes nothing. *)
LEMMA PageStep ==
  ASSUME IInv, Fetches \/ FetchArrives \/ Tick \/ Leaves
  PROVE  IInv'
  <1>1. FieldTypeOK'
    <2> USE FieldAppAssumption
        DEF IInv, FieldTypeOK, StatusTypeOK, View, Task, statusVars, OnPage, IsOpen
    <2>1. CASE Fetches
      <3>1. Here \in Task /\ job.fetches + 1 \in 0 .. MaxFetches
        BY <2>1 DEF Fetches, Here
      <3> QED BY <2>1, <3>1 DEF Fetches
    <2>2. CASE FetchArrives
      <3>1. job.fetching \in Task /\ job.fetching.done \in SUBSET Items
        BY <2>2 DEF FetchArrives
      <3>2. Ticked(job.fetching) \in SUBSET Items
        BY <3>1 DEF Ticked
      <3>3. job' \in [page : {"open", "left"}, task : Task \cup {NoView},
                     fetching : Task \cup {NoView}, ticks : SUBSET Items,
                     fetches : 0 .. MaxFetches]
        BY <2>2, <3>1, <3>2 DEF FetchArrives
      <3> QED BY <2>2, <3>3 DEF FetchArrives
    <2>3. CASE Tick
      <3>1. PICK i \in Items : job' = [job EXCEPT !.ticks = (@ \ {i}) \cup ({i} \ @)]
        BY <2>3 DEF Tick
      <3>2. job' \in [page : {"open", "left"}, task : Task \cup {NoView},
                     fetching : Task \cup {NoView}, ticks : SUBSET Items,
                     fetches : 0 .. MaxFetches]
        BY <3>1
      <3> QED BY <2>3, <3>2 DEF Tick
    <2>4. CASE Leaves
      BY <2>4 DEF Leaves
    <2> QED BY <2>1, <2>2, <2>3, <2>4
  <1>2. NothingDoneYet'
    <2> USE DEF IInv, FieldTypeOK, Task, NothingDoneYet, IsOpen, statusVars
    <2>1. CASE Fetches
      BY <2>1 DEF Fetches, Here
    <2>2. CASE FetchArrives
      BY <2>2 DEF FetchArrives
    <2>3. CASE Tick
      <3>1. job'.task = job.task /\ job'.fetching = job.fetching /\ UNCHANGED <<visit, done>>
        BY <2>3 DEF Tick
      <3> QED BY <3>1
    <2>4. CASE Leaves
      BY <2>4 DEF Leaves
    <2> QED BY <2>1, <2>2, <2>3, <2>4
  <1>3. ClosesAreKnown' /\ ConfirmedIsCurrent'
    BY DEF IInv, ClosesAreKnown, ConfirmedIsCurrent, IsOpen, statusVars, Fetches, FetchArrives,
           Tick, Leaves
  <1> QED BY <1>1, <1>2, <1>3 DEF IInv

(* A step that closes the task, or sends, answers or loses a close. *)
LEMMA CloseStep ==
  ASSUME IInv,
         \/ CloseLost \/ OfficeCloses
         \/ \E k \in Closes : CloseSends(k) \/ CloseAnswered(k) \/ CloseHandled(k) \/ CloseForgotten(k)
  PROVE  IInv'
  <1> USE FieldAppAssumption
      DEF IInv, FieldTypeOK, StatusTypeOK, View, Task, ClosesAreKnown, ConfirmedIsCurrent,
          NothingDoneYet, statusVars, IsOpen, StillOpen, OnPage
  <1>1. CASE CloseLost
    BY <1>1 DEF CloseLost
  <1>2. CASE OfficeCloses
    <2>1. visit' \in View /\ visit'.status = "finished" /\ visit'.customer = visit.customer
          /\ visit'.time = visit.time
      BY <1>2 DEF OfficeCloses
    <2>2. done' \subseteq Items
      BY <1>2 DEF OfficeCloses
    <2>3. FieldTypeOK'
      BY <1>2, <2>1, <2>2 DEF OfficeCloses
    <2>4. ClosesAreKnown'
      <3>1. closedBy = NoClose /\ closedBy' = Office /\ UNCHANGED <<close, told>>
        BY <1>2 DEF OfficeCloses
      <3>2. \A k \in Closes : close[k].answer # "closed" /\ k \notin {NoClose, Office}
        BY <3>1
      <3> QED BY <2>1, <3>1, <3>2
    <2> QED BY <1>2, <2>1, <2>3, <2>4 DEF OfficeCloses
  <1>3. ASSUME NEW k \in Closes, CloseSends(k)
        PROVE  IInv'
    BY <1>3 DEF CloseSends
  <1>4. ASSUME NEW k \in Closes, CloseAnswered(k)
        PROVE  IInv'
    BY <1>4 DEF CloseAnswered
  <1>5. ASSUME NEW k \in Closes, CloseHandled(k)
        PROVE  IInv'
    BY <1>5 DEF CloseHandled
  <1>6. ASSUME NEW k \in Closes, CloseForgotten(k)
        PROVE  IInv'
    BY <1>6 DEF CloseForgotten
  <1> QED BY <1>1, <1>2, <1>3, <1>4, <1>5, <1>6

LEMMA Inductive == FieldSpec => []IInv
  <1>1. ASSUME IInv, [FieldNext]_appVars
        PROVE  IInv'
    <2>1. CASE UNCHANGED appVars
      BY <1>1, <2>1
      DEF IInv, FieldTypeOK, StatusTypeOK, ClosesAreKnown, ConfirmedIsCurrent, NothingDoneYet,
          IsOpen, appVars, statusVars, fieldVars
    <2>2. CASE FieldNext
      BY <1>1, <2>2, VisitStep, PageStep, CloseStep DEF FieldNext, Phone, Server
    <2> QED BY <1>1, <2>1, <2>2
  <1> QED BY InitHolds, <1>1, PTL DEF FieldSpec

-----------------------------------------------------------------------------
(* What the customer confirmed is the current time, and what the technician *)
(* was told of a close is what happened.                                    *)
THEOREM VisitTrue == FieldSpec => []VisitIsTrue
  <1>1. IInv => VisitIsTrue
    BY DEF IInv, FieldTypeOK, ClosesAreKnown, VisitIsTrue, ToldIsTrue
  <1> QED BY Inductive, <1>1, PTL

(* Nothing is answered or set on a finished visit but by a departure that   *)
(* had read it before.                                                      *)
THEOREM FinishedFrozen == FieldSpec => FinishedIsFrozen
  <1> DEFINE Frozen ==
        ~IsOpen => \/ visit' = visit
                   \/ /\ visit' = [visit EXCEPT !.technician = "coming"]
                      /\ \E d \in Departures : departure[d] = "read" /\ departure'[d] # "read"
  <1>1. ASSUME IInv, [FieldNext]_appVars
        PROVE  [Frozen]_statusVars
    <2> USE <1>1 DEF IsOpen
    <2>1. CASE UNCHANGED statusVars
      BY <2>1
    <2>2. CASE Business \/ Customer
      BY <2>2
      DEF Business, Customer, Schedule, Departs, DepartWrites, Loads, LoadArrives, Clicks,
          Confirms, Confirmable, Asks, Views, IInv, FieldTypeOK, StatusTypeOK
    <2>3. CASE Phone \/ Server
      BY <2>3
      DEF Phone, Server, Fetches, FetchArrives, Tick, Leaves, CloseLost, CloseSends,
          CloseAnswered, OfficeCloses, CloseHandled, CloseForgotten, StillOpen, statusVars
    <2> QED BY <1>1, <2>1, <2>2, <2>3 DEF FieldNext, appVars
  <1> QED BY Inductive, <1>1, PTL DEF FieldSpec, FinishedIsFrozen

(* An answer of the server leaves the ticks of an open page alone.          *)
THEOREM TicksKept == FieldSpec => TicksAreKept
  <1> DEFINE Kept == IsOpen /\ OnPage /\ OnPage' /\ job.task # NoView /\ job'.fetching # job.fetching
                       => job'.ticks = job.ticks
  <1>1. ASSUME IInv, [FieldNext]_appVars
        PROVE  [Kept]_appVars
    <2> USE <1>1 DEF IInv, FieldTypeOK, OnPage
    <2>1. CASE Fetches \/ FetchArrives \/ Tick \/ Leaves
      BY <2>1 DEF Fetches, FetchArrives, Ticked, Tick, Leaves, NothingDoneYet
    <2>2. CASE job' = job
      BY <2>2
    <2> QED BY <1>1, <2>1, <2>2
        DEF FieldNext, Phone, Server, appVars, fieldVars, CloseLost, CloseSends, CloseAnswered,
            OfficeCloses, CloseHandled, CloseForgotten
  <1> QED BY Inductive, <1>1, PTL DEF FieldSpec, TicksAreKept
-----------------------------------------------------------------------------
(* The quotes of one tenant.                                               *)

Made == {q \in Ids : status[q] # "NONE"}

(* One create at a time has a number, which is the next.                   *)
NumbersOK ==
  /\ \A p, q \in numbering : p = q
  /\ \A q \in numbering : status[q] = "NONE" /\ number[q] = Cardinality(Made) + 1
  /\ {number[q] : q \in Made} = 1..Cardinality(Made)

(* What is sent, or was, exists; what a request was answered stands.       *)
SentOK ==
  \A m \in Makers :
    /\ InSend(m) \/ reply[m] = "ok" => status[SubjectOf[m]] # "NONE"
    /\ reply[m] = "ok" => pc[m] = "ended"

(* Of a quote that was never sent twice at once there is one send under    *)
(* way, and what it has read of the quote is still true.                   *)
SendsOK ==
  \A q \in Ids \ met :
    /\ \A m, n \in Sending(q) : m = n
    /\ \A m \in Sending(q) : pc[m] = "readDraft" => status[q] = "DRAFT"

(* Such a send has every active link of its quote in hand.                 *)
LinksOK ==
  /\ \A m \in Makers : making[m] # "idle" => InSend(m)
  /\ \A q \in Ids \ met : \A a, b \in ActiveOf(q) : a = b
  /\ \A m \in Makers :
       making[m] # "idle" /\ SubjectOf[m] \notin met => ActiveOf(SubjectOf[m]) \subseteq targets[m]

(* A customer has the link of a send that succeeded; who has made a task   *)
(* has approved, and a new request has done nothing yet.                   *)
TapsOK ==
  \A r \in Taps :
    /\ pc[r] # "new" => token[r] \in Makers /\ reply[token[r]] = "ok"
    /\ pc[r] = "new" => reply[r] = "none"
    /\ r \in tasks => pc[r] \in {"viewing", "ended"}

(* An approval has the row of its quote, which can be approved, to itself. *)
ApprovalsOK ==
  \A q \in Ids :
    /\ \A r, s \in Updating(q) : r = s
    /\ \A r \in Updating(q) : status[q] = "SENT"

QInv ==
  /\ TypeOK /\ NumbersOK /\ SentOK /\ SendsOK /\ LinksOK /\ TapsOK /\ ApprovalsOK
  /\ AnswersAreTrue

-----------------------------------------------------------------------------
(* Numbers.                                                                *)

MadeCounts ==
  /\ Cardinality(Ids) \in Nat /\ Cardinality(Made) \in Nat
  /\ IsFiniteSet(Made)
  /\ \A q \in Ids \ Made : Cardinality(Made \cup {q}) = Cardinality(Made) + 1
                         /\ Cardinality(Made) + 1 <= Cardinality(Ids)

LEMMA MadeIsCounted == MadeCounts
<1>1. IsFiniteSet(Ids) /\ Made \subseteq Ids
  BY QuotesAssumption DEF Made
<1>2. IsFiniteSet(Made) /\ Cardinality(Ids) \in Nat /\ Cardinality(Made) \in Nat
  BY <1>1, FS_Subset, FS_CardinalityType
<1>3. ASSUME NEW q \in Ids \ Made
      PROVE  Cardinality(Made \cup {q}) = Cardinality(Made) + 1
             /\ Cardinality(Made) + 1 <= Cardinality(Ids)
  <2>1. Cardinality(Made \cup {q}) = Cardinality(Made) + 1
    BY <1>2, <1>3, FS_AddElement
  <2>2. Made \cup {q} \subseteq Ids
    BY <1>1, <1>3
  <2>3. Cardinality(Made \cup {q}) <= Cardinality(Ids)
    BY <1>1, <2>2, FS_Subset
  <2> QED
    BY <2>1, <2>3
<1> QED
  BY <1>2, <1>3 DEF MadeCounts

(* The largest number is the number of quotes.                             *)
LEMMA NextIsNext ==
  ASSUME NumbersOK
  PROVE  NextNumber = Cardinality(Made) + 1
<1> DEFINE n == Cardinality(Made)
<1>1. n \in Nat
  BY MadeIsCounted DEF MadeCounts
<1>2. {number[q] : q \in {p \in Ids : status[p] # "NONE"}} \cup {0} = 0..n
  <2>1. {number[q] : q \in {p \in Ids : status[p] # "NONE"}} = 1..n
    BY DEF NumbersOK, Made
  <2> HIDE DEF n
  <2> QED
    BY <1>1, <2>1
<1>3. Max(0..n) = n
  <2> HIDE DEF n
  <2>1. n \in 0..n /\ \A y \in 0..n : n >= y
    BY <1>1
  <2>2. Max(0..n) \in 0..n /\ \A y \in 0..n : Max(0..n) >= y
    BY <2>1 DEF Max
  <2> QED
    BY <1>1, <2>1, <2>2
<1> QED
  BY <1>2, <1>3 DEF NextNumber

LEMMA NoneTakesTheNumber ==
  ASSUME NumbersOK, NEW q \in numbering
  PROVE  ~NumberTaken(q)
<1> DEFINE n == Cardinality(Made)
<1>1. n \in Nat /\ number[q] = n + 1 /\ {number[p] : p \in Made} = 1..n
  BY MadeIsCounted DEF MadeCounts, NumbersOK
<1> HIDE DEF n
<1>2. \A p \in Made : number[p] # n + 1
  BY <1>1
<1> QED
  BY <1>1, <1>2 DEF NumberTaken, Made

(* No quote is added.                                                      *)
LEMMA NumbersStay ==
  ASSUME NumbersOK, UNCHANGED <<number, numbering>>,
         \A q \in Ids : status'[q] = "NONE" <=> status[q] = "NONE", numbering \subseteq Ids
  PROVE  NumbersOK'
<1>1. Made' = Made
  BY DEF Made
<1> QED
  BY <1>1 DEF NumbersOK

-----------------------------------------------------------------------------
(* What a step leaves alone.                                               *)

(* The sends do not move, and no quote that they found is lost.            *)
LEMMA MakersStay ==
  ASSUME TypeOK, SentOK, SendsOK, LinksOK,
         \A m \in Makers : pc'[m] = pc[m] /\ reply'[m] = reply[m],
         UNCHANGED <<linkVars, met>>,
         \A q \in Ids : /\ status[q] # "NONE" => status'[q] # "NONE"
                        /\ status[q] = "DRAFT" => status'[q] = "DRAFT"
  PROVE  SentOK' /\ SendsOK' /\ LinksOK'
<1>1. \A m \in Makers : SubjectOf[m] \in Ids /\ (InSend(m)' <=> InSend(m))
  BY QuotesAssumption DEF InSend
<1>2. \A q : Sending(q)' = Sending(q) /\ ActiveOf(q)' = ActiveOf(q)
  BY <1>1 DEF Sending, ActiveOf, linkVars
<1>3. SentOK'
  BY <1>1 DEF SentOK
<1>4. SendsOK'
  BY <1>2 DEF SendsOK, Sending
<1>5. LinksOK'
  BY <1>1, <1>2 DEF LinksOK, linkVars
<1> QED
  BY <1>3, <1>4, <1>5

(* The customers do not move, nor what they were told of.                  *)
LEMMA TapsStay ==
  ASSUME TypeOK, TapsOK, ApprovalsOK, AnswersAreTrue,
         \A r \in Taps : pc'[r] = pc[r] /\ reply'[r] = reply[r],
         \A m \in Makers : reply[m] = "ok" => reply'[m] = "ok",
         UNCHANGED <<token, task, tasks>>, met \subseteq met',
         \A q \in Ids : status[q] = "SENT" => status'[q] = "SENT",
         \A q \in Ids \ met' : \/ status'[q] = status[q]
                               \/ status[q] \in {"NONE", "DRAFT"} /\ status'[q] \in {"DRAFT", "SENT"}
  PROVE  TapsOK' /\ ApprovalsOK' /\ AnswersAreTrue'
<1>1. \A r : QuoteOf(r)' = QuoteOf(r)
  BY DEF QuoteOf
<1>2. \A q : Updating(q)' = Updating(q) /\ TasksOf(q)' = TasksOf(q)
  BY <1>1 DEF Updating, TasksOf
<1>3. TapsOK'
  BY DEF TapsOK
<1>4. ApprovalsOK'
  BY <1>2 DEF ApprovalsOK
<1>5. AnswerMatchesTasks'
  BY <1>2 DEF AnswersAreTrue, AnswerMatchesTasks
<1>6. ShownIsKept'
  <2> SUFFICES ASSUME NEW r \in Taps, reply[r] \in {"APPROVED", "DECLINED"}, QuoteOf(r) \notin met'
               PROVE  status'[QuoteOf(r)] = reply[r]
    BY <1>1 DEF ShownIsKept
  <2>1. status[QuoteOf(r)] = reply[r] /\ QuoteOf(r) \in Ids
    BY QuotesAssumption DEF AnswersAreTrue, ShownIsKept, TapsOK, QuoteOf
  <2> QED
    BY <2>1
<1> QED
  BY <1>3, <1>4, <1>5, <1>6 DEF AnswersAreTrue

-----------------------------------------------------------------------------
(* Creates and time.                                                       *)

LEMMA QuotesStart == Init => QInv
<1> SUFFICES ASSUME Init
             PROVE  QInv
  OBVIOUS
<1> USE DEF Init, LinkInit
<1>1. Cardinality(Ids) \in Nat
  BY MadeIsCounted DEF MadeCounts
<1>2. TypeOK
  BY <1>1 DEF TypeOK, LinkTypeOK, Requests
<1>3. NumbersOK
  <2>1. Made = {}
    BY DEF Made
  <2>2. Cardinality(Made) = 0
    BY <2>1, FS_EmptySet
  <2> QED
    BY <2>1, <2>2 DEF NumbersOK
<1>4. SentOK /\ SendsOK /\ LinksOK
  BY DEF SentOK, SendsOK, LinksOK, InSend, Sending, ActiveOf, Requests
<1>5. TapsOK /\ ApprovalsOK
  BY DEF TapsOK, ApprovalsOK, Updating, Requests
<1>6. AnswersAreTrue
  BY DEF AnswersAreTrue, AnswerMatchesTasks, ShownIsKept, TasksOf, Requests
<1> QED
  BY <1>2, <1>3, <1>4, <1>5, <1>6 DEF QInv

LEMMA NumbersKeeps ==
  ASSUME QInv, NEW q \in Ids, CreateNumbers(q)
  PROVE  QInv'
<1> USE DEF QInv, CreateNumbers
<1>1. NextNumber = Cardinality(Made) + 1 /\ NextNumber \in 0..Cardinality(Ids)
  <2> DEFINE n == Cardinality(Made)
  <2>1. n \in Nat /\ Cardinality(Ids) \in Nat /\ NextNumber = n + 1
    BY NextIsNext, MadeIsCounted DEF MadeCounts
  <2>2. q \in Ids \ Made
    BY DEF Made
  <2>3. n + 1 <= Cardinality(Ids)
    BY <2>2, MadeIsCounted DEF MadeCounts
  <2> HIDE DEF n
  <2>4. n + 1 \in 0..Cardinality(Ids)
    BY <2>1, <2>3
  <2> QED
    BY <2>1, <2>4 DEF n
<1>2. TypeOK'
  BY <1>1 DEF TypeOK, LinkTypeOK, linkVars
<1>3. NumbersOK'
  <2>1. Made' = Made
    BY DEF Made
  <2>2. \A p \in Made : number'[p] = number[p]
    BY DEF TypeOK, Made
  <2>3. number'[q] = Cardinality(Made) + 1
    BY <1>1 DEF TypeOK
  <2> QED
    BY <2>1, <2>2, <2>3 DEF NumbersOK
<1>4. SentOK' /\ SendsOK' /\ LinksOK'
  BY MakersStay
<1>5. TapsOK' /\ ApprovalsOK' /\ AnswersAreTrue'
  BY TapsStay
<1> QED
  BY <1>2, <1>3, <1>4, <1>5

(* The new quote has the number that all others leave free.                *)
LEMMA CreateKeeps ==
  ASSUME QInv, NEW q \in Ids, CreateCommits(q)
  PROVE  QInv'
<1> USE DEF QInv, CreateCommits, SetStatus
<1>1. TypeOK'
  BY DEF TypeOK, LinkTypeOK, linkVars, Statuses
<1>2. status[q] = "NONE" /\ numbering = {q}
  BY DEF NumbersOK
<1>3. NumbersOK'
  <2> DEFINE n == Cardinality(Made)
  <2>1. Made' = Made \cup {q} /\ q \in Ids \ Made
    BY <1>2 DEF Made, TypeOK
  <2>2. Cardinality(Made') = n + 1 /\ n \in Nat
    BY <2>1, MadeIsCounted DEF MadeCounts
  <2>3. number[q] = n + 1 /\ {number[p] : p \in Made} = 1..n
    BY <1>2 DEF NumbersOK
  <2> HIDE DEF n
  <2>4. {number[p] : p \in Made'} = 1..n \cup {n + 1}
    BY <2>1, <2>3
  <2>5. 1..n \cup {n + 1} = 1..(n + 1)
    BY <2>2
  <2>6. numbering' = {}
    BY <1>2
  <2> QED
    BY <2>2, <2>4, <2>5, <2>6 DEF NumbersOK
<1>4. SentOK' /\ SendsOK' /\ LinksOK'
  BY <1>2, MakersStay DEF TypeOK
<1>5. TapsOK' /\ ApprovalsOK' /\ AnswersAreTrue'
  BY <1>2, TapsStay DEF TypeOK
<1> QED
  BY <1>1, <1>3, <1>4, <1>5

LEMMA CreateAbortsKeeps ==
  ASSUME QInv, NEW q \in Ids, CreateAborts(q)
  PROVE  QInv'
<1> USE DEF QInv, CreateAborts
<1>1. TypeOK'
  BY MadeIsCounted DEF MadeCounts, TypeOK, LinkTypeOK, linkVars
<1>2. NumbersOK'
  <2>1. Made' = Made /\ numbering' = {} /\ q \notin Made
    BY DEF Made, NumbersOK
  <2>2. \A p \in Made : number'[p] = number[p]
    BY <2>1 DEF TypeOK, Made
  <2> QED
    BY <2>1, <2>2 DEF NumbersOK
<1>3. SentOK' /\ SendsOK' /\ LinksOK'
  BY MakersStay
<1>4. TapsOK' /\ ApprovalsOK' /\ AnswersAreTrue'
  BY TapsStay
<1> QED
  BY <1>1, <1>2, <1>3, <1>4

LEMMA ExpiresKeeps ==
  ASSUME QInv, NEW q \in Ids, QuoteExpires(q)
  PROVE  QInv'
<1> USE DEF QInv, QuoteExpires
<1>1. TypeOK'
  BY DEF TypeOK, LinkTypeOK, linkVars
<1>2. NumbersOK'
  BY NumbersStay DEF TypeOK
<1>3. SentOK' /\ SendsOK' /\ LinksOK'
  BY MakersStay
<1>4. TapsOK' /\ ApprovalsOK' /\ AnswersAreTrue'
  BY TapsStay
<1> QED
  BY <1>1, <1>2, <1>3, <1>4

LEMMA LinkExpiresKeeps ==
  ASSUME QInv, NEW m \in Makers, LinkExpires(m)
  PROVE  QInv'
<1> USE DEF QInv, LinkExpires, Expire, quoteVars
<1>1. TypeOK'
  BY DEF TypeOK, LinkTypeOK
<1>2. NumbersOK'
  BY NumbersStay DEF TypeOK
<1>3. \A q : ActiveOf(q)' \subseteq ActiveOf(q) /\ Sending(q)' = Sending(q)
  BY DEF ActiveOf, TypeOK, LinkTypeOK, Sending, InSend
<1>4. SentOK' /\ SendsOK'
  BY <1>3 DEF SentOK, SendsOK, InSend
<1>5. LinksOK'
  BY <1>3, QuotesAssumption DEF LinksOK, InSend
<1>6. TapsOK' /\ ApprovalsOK' /\ AnswersAreTrue'
  BY TapsStay
<1> QED
  BY <1>1, <1>2, <1>4, <1>5, <1>6

-----------------------------------------------------------------------------
(* Sends.                                                                  *)

LEMMA SendReadsKeeps ==
  ASSUME QInv, NEW m \in Makers, SendReads(m)
  PROVE  QInv'
<1> USE DEF QInv, SendReads, Goto, quoteVars
<1> DEFINE s == SubjectOf[m]
<1>1. s \in Ids /\ m \notin Taps /\ m \in Requests
  BY QuotesAssumption DEF Requests
<1>2. PICK l \in {"readDraft", "readSent"} :
        /\ pc[m] = "new" /\ pc' = [pc EXCEPT ![m] = l]
        /\ status[s] # "NONE" /\ (l = "readDraft" => status[s] = "DRAFT")
  OBVIOUS
<1>3. TypeOK'
  BY <1>1, <1>2 DEF TypeOK, LinkTypeOK, linkVars, Requests
<1>4. NumbersOK'
  BY NumbersStay DEF TypeOK
<1>5. /\ \A o \in Requests \ {m} : pc'[o] = pc[o]
      /\ pc'[m] = l /\ InSend(m)' /\ ~InSend(m)
  BY <1>1, <1>2 DEF TypeOK, InSend
<1>6. SentOK'
  BY <1>1, <1>2, <1>5 DEF SentOK, InSend, Requests
<1>7. SendsOK'
  <2>1. \A q : q # s => Sending(q)' = Sending(q)
    BY <1>5 DEF Sending, InSend, Requests
  <2>2. CASE s \in met'
    BY <2>1, <2>2, <1>5 DEF SendsOK, Sending, Requests
  <2>3. CASE s \notin met'
    <3>1. Sending(s) = {} /\ met' = met
      BY <2>3
    <3>2. Sending(s)' = {m}
      BY <3>1, <1>5 DEF Sending, InSend, Requests
    <3> QED
      BY <2>1, <3>1, <3>2, <1>2, <1>5 DEF SendsOK, Sending, Requests
  <2> QED
    BY <2>2, <2>3
<1>8. LinksOK'
  BY <1>5 DEF LinksOK, InSend, Requests, ActiveOf, linkVars
<1>9. TapsOK' /\ ApprovalsOK' /\ AnswersAreTrue'
  <2>1. \A r \in Taps : pc'[r] = pc[r]
    BY <1>1, <1>5 DEF Requests
  <2> QED
    BY <2>1, TapsStay
<1> QED
  BY <1>3, <1>4, <1>6, <1>7, <1>8, <1>9

(* A request of the staff ends without having done anything.               *)
LEMMA SendEndsKeeps ==
  ASSUME QInv, NEW m \in Makers, reply[m] # "ok",
         NEW x \in {"Conflict", "Error"}, End(m, x),
         (making[m] = "idle" /\ UNCHANGED linkVars) \/ Withdraw(m),
         UNCHANGED <<quoteVars, token, met>>
  PROVE  QInv'
<1> USE DEF QInv, End, Goto, quoteVars
<1>1. m \notin Taps /\ m \in Requests
  BY QuotesAssumption DEF Requests
<1>2. /\ link' = link /\ making'[m] = "idle"
      /\ making' \in [Makers -> {"idle", "revoking", "revoked", "linked"}]
      /\ targets' \in [Makers -> SUBSET Makers]
      /\ \A o \in Makers \ {m} : making'[o] = making[o] /\ targets'[o] = targets[o]
  BY DEF TypeOK, LinkTypeOK, linkVars, Withdraw, Idle
<1>3. TypeOK'
  BY <1>1, <1>2 DEF TypeOK, LinkTypeOK
<1>4. NumbersOK'
  BY NumbersStay DEF TypeOK
<1>5. /\ \A o \in Requests \ {m} : pc'[o] = pc[o] /\ reply'[o] = reply[o]
      /\ pc'[m] = "ended" /\ reply'[m] = x
  BY <1>1 DEF TypeOK
<1>6. SentOK'
  BY <1>5 DEF SentOK, InSend, Requests
<1>7. SendsOK'
  <2>1. \A q : Sending(q)' \subseteq Sending(q) \ {m}
    BY <1>5 DEF Sending, InSend, Requests
  <2> QED
    BY <2>1, <1>5 DEF SendsOK, Sending, Requests
<1>8. LinksOK'
  <2>1. \A q : ActiveOf(q)' = ActiveOf(q)
    BY <1>2 DEF ActiveOf
  <2> QED
    BY <1>2, <1>5, <2>1, QuotesAssumption DEF LinksOK, InSend, Requests
<1>9. TapsOK' /\ ApprovalsOK' /\ AnswersAreTrue'
  <2>1. /\ \A r \in Taps : pc'[r] = pc[r] /\ reply'[r] = reply[r]
        /\ \A o \in Makers : reply[o] = "ok" => reply'[o] = "ok"
    BY <1>1, <1>5 DEF Requests
  <2> QED
    BY <2>1, TapsStay
<1> QED
  BY <1>3, <1>4, <1>6, <1>7, <1>8, <1>9

(* The revoking UPDATE sees every active link of the quote, and none comes *)
(* while it waits, unless there is another send.                           *)
LEMMA SendLinksKeeps ==
  ASSUME QInv, NEW m \in Makers, SendLinks(m)
  PROVE  QInv'
<1> USE DEF QInv, SendLinks, quoteVars
<1>1. TypeOK'
  BY DEF TypeOK, LinkTypeOK, RevokeBegins, RevokeEnds, Insert, ActiveOf
<1>2. NumbersOK'
  BY NumbersStay DEF TypeOK
<1>3. SentOK' /\ SendsOK'
  BY DEF SentOK, SendsOK, InSend, Sending
<1>4. LinksOK'
  <2>1. link' = link /\ \A q : ActiveOf(q)' = ActiveOf(q)
    BY DEF RevokeBegins, RevokeEnds, Insert, ActiveOf
  <2>2. \A o \in Makers : making'[o] # "idle" => InSend(o)'
    BY DEF LinksOK, InSend, RevokeBegins, RevokeEnds, Insert, TypeOK, LinkTypeOK
  <2>3. /\ \A o \in Makers \ {m} : making'[o] = making[o] /\ targets'[o] = targets[o]
        /\ \/ targets'[m] = ActiveOf(SubjectOf[m])
           \/ making[m] # "idle" /\ targets'[m] = targets[m] \cap ActiveOf(SubjectOf[m])
           \/ making[m] # "idle" /\ targets'[m] = targets[m]
    BY DEF RevokeBegins, RevokeEnds, Insert, TypeOK, LinkTypeOK
  <2> QED
    BY <2>1, <2>2, <2>3 DEF LinksOK
<1>5. TapsOK' /\ ApprovalsOK' /\ AnswersAreTrue'
  BY TapsStay
<1> QED
  BY <1>1, <1>2, <1>3, <1>4, <1>5

(* The new link is the only active one, and the quote was still a DRAFT if *)
(* it becomes SENT - unless there was another send.                        *)
LEMMA SendCommitsKeeps ==
  ASSUME QInv, NEW m \in Makers, SendCommits(m)
  PROVE  QInv'
<1> USE DEF QInv
<1> DEFINE s == SubjectOf[m]
<1>1. s \in Ids /\ m \notin Taps /\ m \in Requests
  BY QuotesAssumption DEF Requests
<1>2. PICK x \in {"ok", "Error"} : End(m, x)
  BY DEF SendCommits
<1>3. /\ pc' = [pc EXCEPT ![m] = "ended"] /\ reply' = [reply EXCEPT ![m] = x]
      /\ UNCHANGED <<number, numbering, expired, task, tasks, token, met>>
  BY <1>2 DEF SendCommits, End, Goto
<1>4. /\ making[m] = "linked" /\ making'[m] = "idle"
      /\ making' \in [Makers -> {"idle", "revoking", "revoked", "linked"}]
      /\ targets' \in [Makers -> SUBSET Makers]
      /\ \A o \in Makers \ {m} : making'[o] = making[o] /\ targets'[o] = targets[o]
      /\ link' \in [Makers -> {"none", "active", "revoked", "expired"}]
      /\ \A l \in Makers : link'[l] = "active" => l = m \/ (link[l] = "active" /\ l \notin targets[m])
  BY DEF SendCommits, Publish, Idle, TypeOK, LinkTypeOK
<1>5. InSend(m) /\ status[s] # "NONE"
  BY <1>4 DEF LinksOK, SentOK
<1>6. \/ status' = status
      \/ /\ pc[m] = "readDraft" /\ Updating(s) = {}
         /\ status' = [status EXCEPT ![s] = "SENT"]
  BY DEF SendCommits, SetStatus
<1>7. TypeOK'
  <2>1. status' \in [Ids -> Statuses \cup {"NONE"}]
    BY <1>6 DEF TypeOK, Statuses
  <2> QED
    BY <1>3, <1>4, <2>1 DEF TypeOK, LinkTypeOK
<1>8. NumbersOK'
  <2>1. \A q \in Ids : status'[q] = "NONE" <=> status[q] = "NONE"
    BY <1>1, <1>5, <1>6 DEF TypeOK
  <2> QED
    BY <1>3, <2>1, NumbersStay DEF TypeOK
<1>9. /\ \A o \in Requests \ {m} : pc'[o] = pc[o] /\ reply'[o] = reply[o]
      /\ pc'[m] = "ended" /\ reply'[m] = x
  BY <1>1, <1>3 DEF TypeOK
<1>10. SentOK'
  <2>1. \A q \in Ids : status[q] # "NONE" => status'[q] # "NONE"
    BY <1>6 DEF TypeOK
  <2> QED
    BY <1>5, <1>9, <2>1, QuotesAssumption DEF SentOK, InSend, Requests
<1>11. SendsOK'
  <2>1. \A q : Sending(q)' = Sending(q) \ {m}
    BY <1>9 DEF Sending, InSend, Requests
  <2>2. s \notin met => Sending(s)' = {}
    BY <1>1, <1>5, <2>1 DEF SendsOK, Sending
  <2>3. \A q \in Ids : q # s => status'[q] = status[q]
    BY <1>6 DEF TypeOK
  <2> QED
    BY <1>3, <1>9, <2>1, <2>2, <2>3 DEF SendsOK, Sending, Requests
<1>12. LinksOK'
  <2>1. \A q : q # s => ActiveOf(q)' \subseteq ActiveOf(q)
    BY <1>4 DEF ActiveOf
  <2>2. s \notin met => ActiveOf(s)' \subseteq {m}
    BY <1>4 DEF ActiveOf, LinksOK
  <2>3. \A o \in Makers : making'[o] # "idle" => o # m /\ InSend(o)' /\ InSend(o)
    BY <1>4, <1>9 DEF LinksOK, InSend, Requests
  <2>4. \A o \in Makers \ {m} : InSend(o) /\ SubjectOf[o] \notin met => SubjectOf[o] # s
    BY <1>1, <1>5 DEF SendsOK, Sending
  <2> QED
    BY <1>3, <1>4, <2>1, <2>2, <2>3, <2>4 DEF LinksOK
<1>13. TapsOK' /\ ApprovalsOK' /\ AnswersAreTrue'
  <2>1. /\ \A r \in Taps : pc'[r] = pc[r] /\ reply'[r] = reply[r]
        /\ \A o \in Makers : reply[o] = "ok" => reply'[o] = "ok"
    BY <1>1, <1>5, <1>9 DEF Requests, SentOK, InSend
  <2>2. \A q \in Ids : status[q] = "SENT" => status'[q] = "SENT"
    BY <1>6 DEF TypeOK
  <2>3. \A q \in Ids \ met : \/ status'[q] = status[q]
                             \/ status[q] = "DRAFT" /\ status'[q] = "SENT"
    BY <1>1, <1>5, <1>6 DEF TypeOK, SendsOK, Sending
  <2> QED
    BY <1>3, <2>1, <2>2, <2>3, TapsStay
<1> QED
  BY <1>7, <1>8, <1>10, <1>11, <1>12, <1>13

-----------------------------------------------------------------------------
(* Customers.                                                              *)

TapLabels == {"resolved", "approve", "decline", "missed", "viewing", "ended"}
Replies == Statuses \cup {"none", "ok", "NotFound", "Conflict", "EXPIRED", "Error"}

(* A request of a customer moves on and writes nothing.                    *)
LEMMA TapMoves ==
  ASSUME QInv, NEW r \in Taps, NEW l \in TapLabels, NEW x \in Replies,
         pc[r] # "new", pc' = [pc EXCEPT ![r] = l], reply' = [reply EXCEPT ![r] = x],
         UNCHANGED <<quoteVars, token, met, linkVars>>,
         r \in tasks => l \in {"viewing", "ended"},
         x \in {"APPROVED", "DECLINED"} /\ QuoteOf(r) \notin met => status[QuoteOf(r)] = x
  PROVE  QInv'
<1> USE DEF QInv, quoteVars
<1>1. r \notin Makers /\ r \in Requests
  BY QuotesAssumption DEF Requests
<1>2. TypeOK'
  BY <1>1 DEF TypeOK, LinkTypeOK, linkVars, TapLabels, Replies
<1>3. NumbersOK'
  BY NumbersStay DEF TypeOK
<1>4. /\ \A o \in Requests \ {r} : pc'[o] = pc[o] /\ reply'[o] = reply[o]
      /\ pc'[r] = l /\ reply'[r] = x
  BY <1>1 DEF TypeOK
<1>5. SentOK' /\ SendsOK' /\ LinksOK'
  <2>1. \A m \in Makers : pc'[m] = pc[m] /\ reply'[m] = reply[m]
    BY <1>1, <1>4 DEF Requests
  <2> QED
    BY <2>1, MakersStay
<1>6. TapsOK'
  BY <1>1, <1>4 DEF TapsOK, TapLabels, Requests
<1>7. \A o : QuoteOf(o)' = QuoteOf(o)
  BY DEF QuoteOf
<1>8. ApprovalsOK'
  <2>1. \A q : Updating(q)' \subseteq Updating(q)
    BY <1>4, <1>7 DEF Updating, TapLabels, Requests
  <2> QED
    BY <2>1 DEF ApprovalsOK
<1>9. AnswersAreTrue'
  <2>1. AnswerMatchesTasks'
    BY <1>7 DEF AnswersAreTrue, AnswerMatchesTasks, TasksOf
  <2>2. ShownIsKept'
    BY <1>4, <1>7 DEF AnswersAreTrue, ShownIsKept, Requests
  <2> QED
    BY <2>1, <2>2 DEF AnswersAreTrue
<1> QED
  BY <1>2, <1>3, <1>5, <1>6, <1>8, <1>9

(* The same without an answer. *)
LEMMA TapGoes ==
  ASSUME QInv, NEW r \in Taps, NEW l \in TapLabels,
         pc[r] # "new", pc' = [pc EXCEPT ![r] = l],
         UNCHANGED <<quoteVars, token, reply, met, linkVars>>,
         r \in tasks => l \in {"viewing", "ended"}
  PROVE  QInv'
<1>1. reply[r] \in Replies /\ reply' = [reply EXCEPT ![r] = reply[r]]
  BY DEF QInv, TypeOK, Replies, Requests
<1>2. reply[r] \in {"APPROVED", "DECLINED"} /\ QuoteOf(r) \notin met => status[QuoteOf(r)] = reply[r]
  BY DEF QInv, AnswersAreTrue, ShownIsKept
<1> QED
  BY <1>1, <1>2, TapMoves

LEMMA ResolvesKeeps ==
  ASSUME QInv, NEW r \in Taps, TapResolves(r)
  PROVE  QInv'
<1> USE DEF QInv, quoteVars
<1>1. r \notin Makers /\ r \in Requests
  BY QuotesAssumption DEF Requests
<1>2. PICK m \in Makers, l \in {"resolved", "ended"}, x \in {"none", "NotFound"} :
        /\ reply[m] = "ok" /\ token' = [token EXCEPT ![r] = m]
        /\ pc[r] = "new" /\ pc' = [pc EXCEPT ![r] = l]
        /\ reply' = [reply EXCEPT ![r] = x]
        /\ UNCHANGED <<quoteVars, met, linkVars>>
  <2>1. reply[r] = "none" /\ reply = [reply EXCEPT ![r] = reply[r]]
    BY <1>1 DEF TapResolves, TapsOK, TypeOK
  <2> QED
    BY <2>1 DEF TapResolves, Goto, End
<1>3. TypeOK'
  BY <1>1, <1>2 DEF TypeOK, LinkTypeOK, linkVars
<1>4. NumbersOK'
  BY <1>2, NumbersStay DEF TypeOK
<1>5. /\ \A o \in Requests \ {r} : pc'[o] = pc[o] /\ reply'[o] = reply[o]
      /\ \A o \in Taps \ {r} : token'[o] = token[o]
      /\ pc'[r] = l /\ reply'[r] = x /\ token'[r] = m
  BY <1>1, <1>2 DEF TypeOK
<1>6. SentOK' /\ SendsOK' /\ LinksOK'
  <2>1. \A o \in Makers : pc'[o] = pc[o] /\ reply'[o] = reply[o]
    BY <1>1, <1>5 DEF Requests
  <2> QED
    BY <1>2, <2>1, MakersStay
<1>7. TapsOK'
  <2>1. \A o \in Makers : reply'[o] = reply[o]
    BY <1>1, <1>5 DEF Requests
  <2>2. r \notin tasks
    BY <1>2 DEF TapsOK
  <2> QED
    BY <1>2, <1>5, <2>1, <2>2 DEF TapsOK, Requests
<1>8. \A o \in Taps \ {r} : QuoteOf(o)' = QuoteOf(o)
  BY <1>5 DEF QuoteOf
<1>9. ApprovalsOK'
  <2>1. \A q : Updating(q)' \subseteq Updating(q)
    BY <1>5, <1>8 DEF Updating, Requests
  <2> QED
    BY <1>2, <2>1 DEF ApprovalsOK
<1>10. AnswersAreTrue'
  <2>1. r \notin tasks /\ tasks \subseteq Taps
    BY <1>2 DEF TapsOK, TypeOK
  <2>2. \A q : TasksOf(q)' = TasksOf(q)
    BY <1>2, <1>8, <2>1 DEF TasksOf
  <2>3. AnswerMatchesTasks'
    BY <1>2, <2>2 DEF AnswersAreTrue, AnswerMatchesTasks
  <2>4. ShownIsKept'
    BY <1>2, <1>5, <1>8 DEF AnswersAreTrue, ShownIsKept, Requests
  <2> QED
    BY <2>3, <2>4 DEF AnswersAreTrue
<1> QED
  BY <1>3, <1>4, <1>6, <1>7, <1>9, <1>10

(* What a request at work is about.                                        *)
LEMMA TapHasQuote ==
  ASSUME QInv, NEW r \in Taps, pc[r] # "new"
  PROVE  QuoteOf(r) \in Ids /\ status[QuoteOf(r)] \in Statuses
  BY QuotesAssumption DEF QInv, TapsOK, SentOK, QuoteOf, TypeOK

(* Opening, missing and viewing.                                           *)
LEMMA LooksKeeps ==
  ASSUME QInv, NEW r \in Taps, TapBegins(r) \/ TapOpens(r) \/ ApproveMisses(r) \/ TapViews(r)
  PROVE  QInv'
<1>1. r \in tasks => pc[r] \in {"viewing", "ended"}
  BY DEF QInv, TapsOK
<1>2. ASSUME NEW l \in TapLabels, Goto(r, l), reply' = reply,
             TapBegins(r) \/ TapOpens(r) \/ ApproveMisses(r)
      PROVE  QInv'
  <2>1. pc[r] \in {"resolved", "missed"} /\ UNCHANGED <<quoteVars, token, met, linkVars>>
    BY <1>2 DEF TapBegins, TapOpens, ApproveMisses
  <2> QED
    BY <1>1, <1>2, <2>1, TapGoes DEF Goto
<1>3. CASE TapBegins(r)
  BY <1>1, <1>2, <1>3, TapMoves DEF TapBegins, End, Goto, TapLabels, Replies
<1>4. CASE TapOpens(r)
  BY <1>2, <1>4 DEF TapOpens, TapLabels
<1>5. CASE ApproveMisses(r)
  BY <1>1, <1>2, <1>5, TapMoves DEF ApproveMisses, End, Goto, TapLabels, Replies
<1>6. CASE TapViews(r)
  <2> DEFINE x == IF Resolves(token[r]) THEN ViewOf(QuoteOf(r)) ELSE "NotFound"
  <2>1. x \in Replies /\ (x \in {"APPROVED", "DECLINED"} => status[QuoteOf(r)] = x)
    BY <1>6, TapHasQuote DEF TapViews, ViewOf, Replies, Statuses
  <2>2. pc[r] = "viewing" /\ pc' = [pc EXCEPT ![r] = "ended"] /\ reply' = [reply EXCEPT ![r] = x]
    BY <1>6 DEF TapViews, End, Goto
  <2> HIDE DEF x
  <2> QED
    BY <1>6, <2>1, <2>2, TapMoves DEF TapViews, TapLabels
<1> QED
  BY <1>3, <1>4, <1>5, <1>6

LEMMA ApproveUpdatesKeeps ==
  ASSUME QInv, NEW r \in Taps, ApproveUpdates(r)
  PROVE  QInv'
<1> USE DEF QInv, quoteVars
<1>1. r \notin Makers /\ r \in Requests /\ r \notin tasks
  BY QuotesAssumption DEF Requests, TapsOK, ApproveUpdates
<1>2. CASE ~Answerable(QuoteOf(r))
  BY <1>1, <1>2, TapGoes DEF ApproveUpdates, Goto, TapLabels
<1>3. CASE Answerable(QuoteOf(r))
  <2>1. /\ pc[r] = "approve" /\ Updating(QuoteOf(r)) = {} /\ status[QuoteOf(r)] = "SENT"
        /\ pc' = [pc EXCEPT ![r] = "approving"]
        /\ UNCHANGED <<quoteVars, token, reply, met, linkVars>>
    BY <1>3 DEF ApproveUpdates, Goto, Answerable
  <2>2. TypeOK'
    BY <1>1, <2>1 DEF TypeOK, LinkTypeOK, linkVars
  <2>3. NumbersOK'
    BY <2>1, NumbersStay DEF TypeOK
  <2>4. pc'[r] = "approving" /\ \A o \in Requests \ {r} : pc'[o] = pc[o]
    BY <1>1, <2>1 DEF TypeOK
  <2>5. SentOK' /\ SendsOK' /\ LinksOK'
    <3>1. \A m \in Makers : pc'[m] = pc[m]
      BY <1>1, <2>4 DEF Requests
    <3> QED
      BY <2>1, <3>1, MakersStay
  <2>6. TapsOK'
    BY <1>1, <2>1, <2>4 DEF TapsOK, Requests
  <2>7. \A o : QuoteOf(o)' = QuoteOf(o)
    BY <2>1 DEF QuoteOf
  <2>8. ApprovalsOK'
    <3>1. \A q : Updating(q)' = IF q = QuoteOf(r) THEN {r} ELSE Updating(q)
      BY <2>1, <2>4, <2>7 DEF Updating, Requests
    <3> QED
      BY <2>1, <3>1 DEF ApprovalsOK
  <2>9. AnswersAreTrue'
    BY <2>1, <2>7 DEF AnswersAreTrue, AnswerMatchesTasks, ShownIsKept, TasksOf
  <2> QED
    BY <2>2, <2>3, <2>5, <2>6, <2>8, <2>9
<1> QED
  BY <1>2, <1>3

(* A SENT quote that nobody else is approving gets its answer: no task had *)
(* it and nobody was shown another one.                                    *)
LEMMA AnswerKeeps ==
  ASSUME QInv, NEW r \in Taps, NEW s \in {"APPROVED", "DECLINED"},
         pc[r] \notin {"new", "ended"}, status[QuoteOf(r)] = "SENT",
         Updating(QuoteOf(r)) \subseteq {r}, r \notin tasks,
         pc' = [pc EXCEPT ![r] = "viewing"],
         status' = [status EXCEPT ![QuoteOf(r)] = s],
         s = "APPROVED" => task' = [task EXCEPT ![QuoteOf(r)] = r] /\ tasks' = tasks \cup {r},
         s = "DECLINED" => UNCHANGED <<task, tasks>>,
         UNCHANGED <<number, numbering, expired, token, reply, met, linkVars>>
  PROVE  QInv'
<1> USE DEF QInv
<1> DEFINE q == QuoteOf(r)
<1>1. r \notin Makers /\ r \in Requests /\ q \in Ids
  BY QuotesAssumption, TapHasQuote DEF Requests
<1>2. TypeOK'
  <2>1. status' \in [Ids -> Statuses \cup {"NONE"}]
    BY DEF TypeOK, Statuses
  <2>2. task' \in [Ids -> Taps \cup {NoTask}] /\ tasks' \subseteq Taps
    BY <1>1 DEF TypeOK
  <2>3. pc' \in [Requests -> {"new", "readDraft", "readSent", "resolved", "approve", "decline",
                              "missed", "approving", "viewing", "ended"}]
    BY <1>1 DEF TypeOK
  <2> QED
    BY <2>1, <2>2, <2>3 DEF TypeOK, LinkTypeOK, linkVars
<1>3. status'[q] = s /\ \A p \in Ids \ {q} : status'[p] = status[p]
  BY <1>1 DEF TypeOK
<1>4. NumbersOK'
  BY <1>3, NumbersStay DEF TypeOK
<1>5. pc'[r] = "viewing" /\ \A o \in Requests \ {r} : pc'[o] = pc[o]
  BY <1>1 DEF TypeOK
<1>6. SentOK' /\ SendsOK' /\ LinksOK'
  <2>1. \A m \in Makers : pc'[m] = pc[m]
    BY <1>1, <1>5 DEF Requests
  <2>2. \A p \in Ids : /\ status[p] # "NONE" => status'[p] # "NONE"
                      /\ status[p] = "DRAFT" => status'[p] = "DRAFT"
    BY <1>1, <1>3
  <2> QED
    BY <2>1, <2>2, MakersStay
<1>7. TapsOK'
  BY <1>1, <1>5 DEF TapsOK, Requests
<1>8. \A o : QuoteOf(o)' = QuoteOf(o)
  BY DEF QuoteOf
<1>9. ApprovalsOK'
  <2>1. \A p : Updating(p)' = Updating(p) \ {r}
    BY <1>5, <1>8 DEF Updating, Requests
  <2> QED
    BY <1>3, <2>1 DEF ApprovalsOK
<1>10. AnswerMatchesTasks'
  <2> SUFFICES ASSUME NEW p \in Ids \ met
               PROVE  TasksOf(p)' = IF status'[p] = "APPROVED" THEN {task'[p]} ELSE {}
    BY DEF AnswerMatchesTasks
  <2>1. TasksOf(p) = IF status[p] = "APPROVED" THEN {task[p]} ELSE {}
    BY DEF AnswersAreTrue, AnswerMatchesTasks
  <2>2. CASE p # q
    <3>1. TasksOf(p)' = TasksOf(p)
      BY <1>8, <2>2 DEF TasksOf
    <3>2. task'[p] = task[p] /\ status'[p] = status[p]
      BY <1>3, <2>2 DEF TypeOK
    <3> QED
      BY <2>1, <3>1, <3>2
  <2>3. CASE p = q
    <3>1. TasksOf(p) = {}
      BY <2>1, <2>3
    <3>2. TasksOf(p)' = IF s = "APPROVED" THEN {r} ELSE {}
      BY <1>8, <2>3, <3>1 DEF TasksOf
    <3>3. s = "APPROVED" => task'[p] = r
      BY <1>1, <2>3 DEF TypeOK
    <3> QED
      BY <1>3, <2>3, <3>2, <3>3
  <2> QED
    BY <2>2, <2>3
<1>11. ShownIsKept'
  <2> SUFFICES ASSUME NEW o \in Taps, reply[o] \in {"APPROVED", "DECLINED"}, QuoteOf(o) \notin met
               PROVE  status'[QuoteOf(o)] = reply[o]
    BY <1>8 DEF ShownIsKept
  <2>1. status[QuoteOf(o)] = reply[o] /\ QuoteOf(o) \in Ids
    BY QuotesAssumption DEF AnswersAreTrue, ShownIsKept, TapsOK, QuoteOf
  <2> QED
    BY <1>3, <2>1
<1> QED
  BY <1>2, <1>4, <1>6, <1>7, <1>9, <1>10, <1>11 DEF AnswersAreTrue

LEMMA AnswersKeep ==
  ASSUME QInv, NEW r \in Taps, ApproveCommits(r) \/ Decline(r)
  PROVE  QInv'
<1>1. r \notin tasks
  BY DEF QInv, TapsOK, ApproveCommits, Decline
<1>2. CASE ApproveCommits(r)
  <2>1. r \in Updating(QuoteOf(r)) /\ QuoteOf(r) \in Ids
    BY <1>2, TapHasQuote DEF ApproveCommits, Updating
  <2>2. status[QuoteOf(r)] = "SENT" /\ Updating(QuoteOf(r)) \subseteq {r}
    BY <2>1 DEF QInv, ApprovalsOK
  <2> QED
    BY <1>1, <1>2, <2>2, AnswerKeeps DEF ApproveCommits, SetStatus, Goto
<1>3. CASE Decline(r) /\ Answerable(QuoteOf(r))
  BY <1>1, <1>3, AnswerKeeps DEF Decline, SetStatus, Goto, Answerable
<1>4. CASE Decline(r) /\ ~Answerable(QuoteOf(r))
  BY <1>1, <1>4, TapMoves DEF Decline, End, Goto, TapLabels, Replies, quoteVars
<1> QED
  BY <1>2, <1>3, <1>4

-----------------------------------------------------------------------------
(* All steps.                                                              *)

LEMMA RollbackKeeps ==
  ASSUME QInv, NEW r \in Requests, pc[r] \notin {"new", "ended"}, Rollback(r)
  PROVE  QInv'
<1>1. CASE r \in Makers
  <2>1. reply[r] # "ok" /\ Withdraw(r)
    BY <1>1, QuotesAssumption DEF QInv, SentOK, Rollback
  <2> QED
    BY <1>1, <2>1, SendEndsKeeps DEF Rollback
<1>2. CASE r \in Taps
  BY <1>2, QuotesAssumption, TapMoves DEF Rollback, End, Goto, TapLabels, Replies
<1> QED
  BY <1>1, <1>2 DEF Requests

LEMMA RefusedKeeps ==
  ASSUME QInv, NEW m \in Makers, SendRefused(m)
  PROVE  QInv'
<1>1. reply[m] # "ok" /\ making[m] = "idle"
  BY DEF QInv, SentOK, LinksOK, InSend, SendRefused
<1> QED
  BY <1>1, SendEndsKeeps DEF SendRefused

LEMMA QuotesStep == QInv /\ [Next]_vars => QInv'
<1> SUFFICES ASSUME QInv, [Next]_vars
             PROVE  QInv'
  OBVIOUS
<1>1. CASE \E q \in Ids : CreateNumbers(q) \/ CreateCommits(q) \/ CreateAborts(q) \/ QuoteExpires(q)
  BY <1>1, NumbersKeeps, CreateKeeps, CreateAbortsKeeps, ExpiresKeeps
<1>2. CASE \E m \in Makers : SendStep(m) \/ LinkExpires(m)
  BY <1>2, SendReadsKeeps, RefusedKeeps, SendLinksKeeps, SendCommitsKeeps, LinkExpiresKeeps DEF SendStep
<1>3. CASE \E r \in Taps : TapStep(r)
  BY <1>3, ResolvesKeeps, LooksKeeps, ApproveUpdatesKeeps, AnswersKeep DEF TapStep
<1>4. CASE \E r \in Requests : Abort(r)
  BY <1>4, RollbackKeeps DEF Abort
<1>5. CASE BreakDeadlock
  <2>1. PICK m \in Makers, r \in Taps : Deadlocked(m, r) /\ (Rollback(m) \/ Rollback(r))
    BY <1>5 DEF BreakDeadlock
  <2>2. pc[m] \notin {"new", "ended"} /\ pc[r] \notin {"new", "ended"}
    BY <2>1 DEF Deadlocked, Updating
  <2> QED
    BY <2>1, <2>2, RollbackKeeps DEF Requests
<1>6. CASE UNCHANGED vars
  <2>1. UNCHANGED <<quoteVars, pc, token, reply, met, linkVars>>
    BY <1>6 DEF vars
  <2>2. TypeOK'
    BY <2>1 DEF QInv, TypeOK, LinkTypeOK, quoteVars, linkVars
  <2>3. NumbersOK'
    BY <2>1, NumbersStay DEF QInv, TypeOK, quoteVars
  <2>4. SentOK' /\ SendsOK' /\ LinksOK'
    BY <2>1, MakersStay DEF QInv, quoteVars
  <2>5. TapsOK' /\ ApprovalsOK' /\ AnswersAreTrue'
    BY <2>1, TapsStay DEF QInv, quoteVars
  <2> QED
    BY <2>2, <2>3, <2>4, <2>5 DEF QInv
<1> QED
  BY <1>1, <1>2, <1>3, <1>4, <1>5, <1>6 DEF Next

(* The invariant is more than the property.                                *)
LEMMA QuotesInvSuffices == QInv => QuotesAreSound
<1> SUFFICES ASSUME QInv
             PROVE  QuotesAreSound
  OBVIOUS
<1>1. NumbersAreDense
  BY NoneTakesTheNumber DEF QInv, NumbersOK, NumbersAreDense, Made
<1>2. OneActiveLink
  <2> SUFFICES ASSUME NEW q \in Ids \ met
               PROVE  Cardinality(ActiveOf(q)) <= 1
    BY DEF OneActiveLink
  <2>1. CASE ActiveOf(q) = {}
    BY <2>1, FS_EmptySet
  <2>2. ASSUME NEW a \in ActiveOf(q)
        PROVE  Cardinality(ActiveOf(q)) <= 1
    <3>1. ActiveOf(q) = {a}
      BY DEF QInv, LinksOK
    <3> QED
      BY <3>1, FS_Singleton
  <2> QED
    BY <2>1, <2>2
<1> QED
  BY <1>1, <1>2 DEF QInv, QuotesAreSound, RowsAreSound

(* For any quotes, sends and requests of customers: the quotes of a tenant *)
(* are numbered 1, 2, ...; a quote that no two sends met has one active    *)
(* link, has its one task exactly when it is approved, and what a customer *)
(* was shown of his answer stays so.                                       *)
THEOREM QuotesSound == Spec => []QuotesAreSound
  BY QuotesStart, QuotesStep, QuotesInvSuffices, PTL DEF Spec

-----------------------------------------------------------------------------
(* The pages in front of the quotes.                                       *)

(* Neither an answer to a quote nor the reason for which it cannot be      *)
(* answered is taken back.                                                 *)
Out == {"SENT"} \cup Answered
NoAnswer(q) == q \in expired \/ status[q] \in Answered \/ q \in met

(* What a send has found out, or told, is out.                             *)
OutOK ==
  \A m \in Makers : pc[m] = "readSent" \/ reply[m] = "ok" => status[SubjectOf[m]] \in Out

(* A request that is refused, or will be, came too late.                   *)
RefusalsOK ==
  \A r \in Taps :
    /\ pc[r] = "missed" \/ reply[r] = "Conflict" => NoAnswer(QuoteOf(r))
    /\ reply[r] = "EXPIRED" => QuoteOf(r) \in expired

(* A link is committed at the end of its send, so no send revokes its own. *)
LinksEnded ==
  \A m \in Makers :
    /\ link[m] # "none" => pc[m] = "ended"
    /\ \A o \in targets[m] : pc[o] = "ended"

PInv == QInv /\ LinksEnded /\ OutOK /\ RefusalsOK

(* A page's request has its link, and does what it was sent for.           *)
DeedsOK ==
  /\ deed \in [Taps -> {"none", "approve", "decline"}]
  /\ \A r \in Taps :
       /\ deed[r] # "none" => token[r] \in Makers /\ reply[token[r]] = "ok"
       /\ deed[r] = "decline" => r \notin tasks /\ pc[r] \notin {"approve", "approving"}

(* x, once read, is what it says of the quote.                             *)
ReadOK(x) ==
  /\ x \in Answered => status[Shown] = x \/ Shown \in met
  /\ x = "EXPIRED" => Shown \in expired

(* A customer's page in the state c.                                       *)
CustomerOK(c) ==
  /\ c \in Page
  /\ c.link # NoLink => reply[c.link] = "ok"
  /\ c.link = NoLink => c.read = "none" /\ c.data = "none" /\ c.mutation = "idle"
  /\ ReadOK(c.read) /\ ReadOK(c.data)
  /\ c.mutation # "idle" => c.tap \in Taps /\ token[c.tap] = c.link
  /\ c.mutation = "Conflict" => NoAnswer(Shown)

DeskAtRest == desk \in Desk /\ desk.creating = "no" /\ desk.row = "none"

CustomerInv == PInv /\ DeedsOK /\ CustomerOK(quotePage) /\ DeskAtRest

(* Staff do nothing with a quote before it is made.                        *)
NewOK(d) ==
  /\ d.creating = "no" =>
       Shown \notin numbering /\ status[Shown] = "NONE" /\ d.row = "none" /\ d.read \in {"none", "asked"}
  /\ d.creating \in {"no", "asked"} =>
       d.pending = {} /\ d.shared = NoLink /\ \A m \in Makers : pc[m] = "new"
  /\ d.creating = "left" => ~d.inTurn

(* While every answer was awaited, the only send under way is the last one,*)
(* and the links of the others stay as they are.                           *)
TurnsOK(d) ==
  d.inTurn =>
    /\ Shown \notin met
    /\ \A m \in Makers : pc[m] \notin {"new", "ended"} => m \in d.pending
    /\ d.pending \subseteq {d.last}
    /\ \A m \in d.pending : reply[m] = "ok" => Resolves(m)
    /\ d.shared # NoLink =>
         /\ pc[d.shared] = "ended" /\ d.shared \notin d.pending
         /\ Resolves(d.shared) \/ (d.last \in Makers /\ d.last # d.shared)

(* The page of staff in the state d.                                       *)
StaffOK(d) ==
  /\ d \in Desk /\ ReadOK(d.read) /\ ReadOK(d.row)
  /\ d.read # "EXPIRED" /\ NewOK(d) /\ TurnsOK(d)

CustomerAtRest ==
  quotePage \in Page /\ quotePage.data = "none" /\ quotePage.mutation = "idle"
  /\ deed = [r \in Taps |-> "none"]

StaffInv == PInv /\ StaffOK(desk) /\ CustomerAtRest

-----------------------------------------------------------------------------
(* What the steps of the server keep.                                      *)

Kept ==
  /\ met \subseteq met' /\ expired \subseteq expired'
  /\ \A q \in Ids :
       /\ status[q] \in Out => status'[q] \in Out
       /\ status[q] \in Answered /\ q \notin met' => status'[q] = status[q]
  /\ \A m \in Makers : reply[m] = "ok" => reply'[m] = "ok"

(* Who moves in a step: nobody, a send, a customer, or whose transaction   *)
(* is rolled back.                                                         *)
LEMMA WhoMoves ==
  ASSUME [Next]_vars
  PROVE  \/ UNCHANGED <<pc, reply, token>>
         \/ \E m \in Makers : SendStep(m)
         \/ \E r \in Taps : TapStep(r)
         \/ \E o \in Requests : pc[o] \notin {"new", "ended"} /\ Rollback(o)
<1>1. CASE \E q \in Ids : CreateNumbers(q) \/ CreateCommits(q) \/ CreateAborts(q) \/ QuoteExpires(q)
  BY <1>1 DEF CreateNumbers, CreateCommits, CreateAborts, QuoteExpires
<1>2. CASE \E m \in Makers : LinkExpires(m)
  BY <1>2 DEF LinkExpires
<1>3. CASE \E o \in Requests : Abort(o)
  BY <1>3 DEF Abort
<1>4. CASE BreakDeadlock
  <2>1. PICK m \in Makers, r \in Taps : Deadlocked(m, r) /\ (Rollback(m) \/ Rollback(r))
    BY <1>4 DEF BreakDeadlock
  <2>2. pc[m] \notin {"new", "ended"} /\ pc[r] \notin {"new", "ended"}
    BY <2>1 DEF Deadlocked, Updating
  <2> QED
    BY <2>1, <2>2 DEF Requests
<1>5. CASE UNCHANGED vars
  BY <1>5 DEF vars
<1> QED
  BY <1>1, <1>2, <1>3, <1>4, <1>5 DEF Next

(* A customer's step leaves the other requests, and their links, alone.    *)
LEMMA TapLeavesOthers ==
  ASSUME QInv, NEW o \in Taps, TapStep(o)
  PROVE  /\ \A x \in Requests \ {o} : pc'[x] = pc[x] /\ reply'[x] = reply[x]
         /\ \A x \in Taps \ {o} : token'[x] = token[x]
         /\ pc[o] # "new" => token' = token
<1>1. pc \in [Requests -> {"new", "readDraft", "readSent", "resolved", "approve", "decline",
                           "missed", "approving", "viewing", "ended"}]
      /\ reply \in [Requests -> Statuses \cup {"none", "ok", "NotFound", "Conflict", "EXPIRED", "Error"}]
      /\ token \in [Taps -> Makers \cup {NoLink}]
  BY DEF QInv, TypeOK
<1>2. \A x \in Requests \ {o} : pc'[x] = pc[x] /\ reply'[x] = reply[x]
  BY <1>1 DEF TapStep, TapResolves, TapBegins,
     TapOpens, ApproveUpdates, ApproveMisses, ApproveCommits, Decline, TapViews, Goto, End
<1>3. token' = token \/ TapResolves(o)
  BY DEF TapStep, TapBegins, TapOpens, ApproveUpdates, ApproveMisses, ApproveCommits, Decline, TapViews
<1>4. TapResolves(o) => pc[o] = "new" /\ \A x \in Taps \ {o} : token'[x] = token[x]
  BY <1>1 DEF TapResolves
<1> QED
  BY <1>2, <1>3, <1>4

(* A status moves forward, unless two sends have met.                      *)
LEMMA StatusMoves ==
  ASSUME QInv, [Next]_vars
  PROVE  /\ met \subseteq met' /\ expired \subseteq expired'
         /\ \A q \in Ids :
              \/ status'[q] = status[q]
              \/ status[q] = "NONE" /\ status'[q] = "DRAFT" /\ q \in numbering
              \/ status[q] = "SENT" /\ status'[q] \in Answered
              \/ status[q] # "NONE" /\ status'[q] = "SENT" /\ (q \in met \/ status[q] = "DRAFT")
<1> USE DEF Answered
<1>0. status \in [Ids -> Statuses \cup {"NONE"}]
  BY DEF QInv, TypeOK
<1>1. CASE \E q \in Ids : CreateNumbers(q) \/ CreateCommits(q) \/ CreateAborts(q) \/ QuoteExpires(q)
  <2>1. ASSUME NEW q \in Ids, CreateCommits(q)
        PROVE  status[q] = "NONE" /\ q \in numbering /\ status' = [status EXCEPT ![q] = "DRAFT"]
               /\ met' = met /\ expired' = expired
    BY <2>1 DEF QInv, NumbersOK, CreateCommits, SetStatus
  <2> QED
    BY <1>0, <1>1, <2>1 DEF CreateNumbers, CreateAborts, QuoteExpires
<1>2. ASSUME NEW m \in Makers, SendStep(m) \/ LinkExpires(m)
      PROVE  /\ met \subseteq met' /\ expired' = expired
             /\ \A q \in Ids :
                  \/ status'[q] = status[q]
                  \/ status[q] # "NONE" /\ status'[q] = "SENT" /\ (q \in met \/ status[q] = "DRAFT")
  <2>1. CASE SendCommits(m) /\ pc[m] = "readDraft"
    <3> DEFINE s == SubjectOf[m]
    <3>1. s \in Ids /\ status' = [status EXCEPT ![s] = "SENT"] /\ met' = met /\ expired' = expired
      BY <2>1, QuotesAssumption DEF SendCommits, SetStatus
    <3>2. status[s] # "NONE" /\ m \in Sending(s)
      BY <2>1 DEF QInv, SentOK, InSend, Sending
    <3>3. s \in met \/ status[s] = "DRAFT"
      BY <2>1, <3>1, <3>2 DEF QInv, SendsOK
    <3> QED
      BY <1>0, <3>1, <3>2, <3>3
  <2>2. CASE ~(SendCommits(m) /\ pc[m] = "readDraft")
    BY <1>2, <2>2 DEF SendStep, SendReads, SendRefused, SendLinks, SendCommits, LinkExpires, quoteVars
  <2> QED
    BY <2>1, <2>2
<1>3. ASSUME NEW r \in Taps, TapStep(r)
      PROVE  /\ met' = met /\ expired' = expired
             /\ \A q \in Ids : \/ status'[q] = status[q]
                               \/ status[q] = "SENT" /\ status'[q] \in Answered
  <2>1. CASE ApproveCommits(r)
    <3>1. r \in Updating(QuoteOf(r)) /\ QuoteOf(r) \in Ids
      BY <2>1, TapHasQuote DEF ApproveCommits, Updating
    <3>2. status[QuoteOf(r)] = "SENT"
      BY <3>1 DEF QInv, ApprovalsOK
    <3> QED
      BY <1>0, <2>1, <3>1, <3>2 DEF ApproveCommits, SetStatus
  <2>2. CASE Decline(r)
    BY <1>0, <2>2 DEF Decline, SetStatus, Answerable
  <2>3. CASE ~ApproveCommits(r) /\ ~Decline(r)
    BY <1>3, <2>3 DEF TapStep, TapResolves, TapBegins, TapOpens, ApproveUpdates, ApproveMisses,
                      TapViews, quoteVars
  <2> QED
    BY <2>1, <2>2, <2>3
<1>4. CASE \E o \in Requests : Abort(o)
  BY <1>4 DEF Abort, Rollback, quoteVars
<1>5. CASE BreakDeadlock
  BY <1>5 DEF BreakDeadlock, Rollback, quoteVars
<1>6. CASE UNCHANGED vars
  BY <1>6 DEF vars, quoteVars
<1> QED
  BY <1>1, <1>2, <1>3, <1>4, <1>5, <1>6 DEF Next

(* A send at work has not answered, and an answer of a send is its last.   *)
LEMMA SendMoves ==
  ASSUME QInv, [Next]_vars, NEW m \in Makers
  PROVE  \/ pc'[m] = pc[m] /\ reply'[m] = reply[m]
         \/ /\ reply[m] # "ok"
            /\ \/ SendReads(m) /\ reply'[m] = reply[m]
               \/ SendCommits(m)
               \/ pc'[m] = "ended" /\ reply'[m] # "ok"
<1>0. pc \in [Requests -> {"new", "readDraft", "readSent", "resolved", "approve", "decline",
                           "missed", "approving", "viewing", "ended"}]
      /\ reply \in [Requests -> Statuses \cup {"none", "ok", "NotFound", "Conflict", "EXPIRED", "Error"}]
      /\ m \in Requests /\ m \notin Taps
  BY QuotesAssumption DEF QInv, TypeOK, Requests
<1>1. reply[m] = "ok" => pc[m] = "ended"
  BY DEF QInv, SentOK
<1>3. CASE UNCHANGED <<pc, reply, token>>
  BY <1>3
<1>4. ASSUME NEW n \in Makers, SendStep(n) PROVE
         \/ pc'[m] = pc[m] /\ reply'[m] = reply[m]
         \/ /\ reply[m] # "ok"
            /\ \/ SendReads(m) /\ reply'[m] = reply[m]
               \/ SendCommits(m)
               \/ pc'[m] = "ended" /\ reply'[m] # "ok"
  <2>1. CASE n # m
    BY <1>0, <1>4, <2>1 DEF SendStep, SendReads, SendRefused, SendLinks, SendCommits, Goto, End, Requests
  <2>2. CASE n = m
    <3>1. SendLinks(m) => pc'[m] = pc[m] /\ reply'[m] = reply[m]
      BY DEF SendLinks
    <3>2. SendReads(m) => pc[m] # "ended" /\ reply'[m] = reply[m]
      BY DEF SendReads
    <3>3. SendRefused(m) => pc[m] # "ended" /\ pc'[m] = "ended" /\ reply'[m] # "ok"
      BY <1>0 DEF SendRefused, End, Goto
    <3>4. SendCommits(m) => pc[m] # "ended"
      BY DEF SendCommits
    <3> QED
      BY <1>1, <1>4, <2>2, <3>1, <3>2, <3>3, <3>4 DEF SendStep
  <2> QED
    BY <2>1, <2>2
<1>5. ASSUME NEW r \in Taps, TapStep(r) PROVE pc'[m] = pc[m] /\ reply'[m] = reply[m]
  BY <1>0, <1>5 DEF TapStep, TapResolves, TapBegins, TapOpens, ApproveUpdates, ApproveMisses,
                    ApproveCommits, Decline, TapViews, Goto, End, Requests
<1>6. ASSUME NEW o \in Requests, pc[o] \notin {"new", "ended"}, Rollback(o)
      PROVE  \/ pc'[m] = pc[m] /\ reply'[m] = reply[m]
             \/ reply[m] # "ok" /\ pc'[m] = "ended" /\ reply'[m] # "ok"
  BY <1>0, <1>1, <1>6 DEF Rollback, End, Goto
<1> QED
  BY <1>3, <1>4, <1>5, <1>6, WhoMoves

LEMMA StepKeeps == QInv /\ [Next]_vars => Kept
<1> SUFFICES ASSUME QInv, [Next]_vars PROVE Kept
  OBVIOUS
<1>1. \A m \in Makers : reply[m] = "ok" => reply'[m] = "ok"
  BY SendMoves
<1> QED
  BY <1>1, StatusMoves DEF Kept, Out, Answered

LEMMA OutKeeps == QInv /\ OutOK /\ [Next]_vars => OutOK'
<1> SUFFICES ASSUME QInv, OutOK, [Next]_vars,
                    NEW m \in Makers, pc'[m] = "readSent" \/ reply'[m] = "ok"
             PROVE  status'[SubjectOf[m]] \in Out
  BY DEF OutOK
<1> DEFINE s == SubjectOf[m]
<1>1. s \in Ids /\ (status[s] \in Out => status'[s] \in Out)
  BY StepKeeps, QuotesAssumption DEF Kept
<1>2. CASE pc'[m] = pc[m] /\ reply'[m] = reply[m]
  BY <1>1, <1>2 DEF OutOK
<1>3. CASE SendReads(m) /\ reply'[m] = reply[m] /\ reply[m] # "ok"
  <2>1. status[s] = "SENT"
    BY <1>3 DEF SendReads, Goto, QInv, TypeOK, Requests
  <2> QED
    BY <1>1, <2>1 DEF Out
<1>4. CASE SendCommits(m)
  <2>1. status \in [Ids -> Statuses \cup {"NONE"}]
    BY DEF QInv, TypeOK
  <2> QED
    BY <1>1, <1>4, <2>1 DEF SendCommits, SetStatus, OutOK, Out
<1> QED
  BY <1>2, <1>3, <1>4, SendMoves

(* What a customer's request does to itself.                               *)
LEMMA TapRefused ==
  ASSUME QInv, OutOK, RefusalsOK, NEW r \in Taps, TapStep(r) \/ Rollback(r), pc[r] # "new"
  PROVE  /\ pc'[r] = "missed" \/ reply'[r] = "Conflict" => NoAnswer(QuoteOf(r))
         /\ reply'[r] = "EXPIRED" => QuoteOf(r) \in expired
<1>0. pc \in [Requests -> {"new", "readDraft", "readSent", "resolved", "approve", "decline",
                           "missed", "approving", "viewing", "ended"}]
      /\ reply \in [Requests -> Statuses \cup {"none", "ok", "NotFound", "Conflict", "EXPIRED", "Error"}]
      /\ r \in Requests
  BY DEF QInv, TypeOK, Requests
<1>1. /\ pc[r] = "missed" \/ reply[r] = "Conflict" => NoAnswer(QuoteOf(r))
      /\ reply[r] = "EXPIRED" => QuoteOf(r) \in expired
  BY DEF RefusalsOK
<1>2. status[QuoteOf(r)] \in Out
  BY QuotesAssumption DEF QInv, TapsOK, OutOK, QuoteOf
<1>3. ~Answerable(QuoteOf(r)) => NoAnswer(QuoteOf(r))
  BY <1>2 DEF Answerable, NoAnswer, Out
<1>4. CASE TapResolves(r)
  BY <1>4 DEF TapResolves
<1>5. CASE TapBegins(r)
  BY <1>0, <1>1, <1>5 DEF TapBegins, Goto, End, NoAnswer
<1>6. CASE TapOpens(r)
  BY <1>0, <1>1, <1>6 DEF TapOpens, Goto
<1>7. CASE ApproveUpdates(r)
  BY <1>0, <1>1, <1>3, <1>7 DEF ApproveUpdates, Goto
<1>8. CASE ApproveMisses(r)
  BY <1>0, <1>1, <1>8 DEF ApproveMisses, Goto, End
<1>9. CASE ApproveCommits(r)
  BY <1>0, <1>1, <1>9 DEF ApproveCommits, Goto
<1>10. CASE Decline(r)
  BY <1>0, <1>1, <1>3, <1>10 DEF Decline, Goto, End
<1>11. CASE TapViews(r)
  <2>1. reply'[r] \in {ViewOf(QuoteOf(r)), "NotFound"} /\ pc'[r] = "ended"
    BY <1>0, <1>11 DEF TapViews, End, Goto
  <2>2. status[QuoteOf(r)] \in {"SENT", "APPROVED", "DECLINED"}
    BY <1>2 DEF Out, Answered
  <2> QED
    BY <2>1, <2>2 DEF ViewOf
<1>12. CASE Rollback(r)
  BY <1>0, <1>1, <1>12 DEF Rollback, End, Goto
<1> QED
  BY <1>4, <1>5, <1>6, <1>7, <1>8, <1>9, <1>10, <1>11, <1>12 DEF TapStep

LEMMA NoAnswerStays ==
  ASSUME Kept, NEW q \in Ids, NoAnswer(q)
  PROVE  NoAnswer(q)'
BY DEF Kept, NoAnswer

LEMMA RefusalsKeep == QInv /\ OutOK /\ RefusalsOK /\ [Next]_vars => RefusalsOK'
<1> SUFFICES ASSUME QInv, OutOK, RefusalsOK, [Next]_vars, NEW r \in Taps
             PROVE  /\ pc'[r] = "missed" \/ reply'[r] = "Conflict" => NoAnswer(QuoteOf(r))'
                    /\ reply'[r] = "EXPIRED" => QuoteOf(r)' \in expired'
  BY DEF RefusalsOK
<1>0. Kept
  BY StepKeeps
<1>1. pc \in [Requests -> {"new", "readDraft", "readSent", "resolved", "approve", "decline",
                           "missed", "approving", "viewing", "ended"}]
      /\ reply \in [Requests -> Statuses \cup {"none", "ok", "NotFound", "Conflict", "EXPIRED", "Error"}]
      /\ r \in Requests /\ r \notin Makers
  BY QuotesAssumption DEF QInv, TypeOK, Requests
<1>2. ASSUME pc[r] # "new", token'[r] = token[r],
             pc'[r] = "missed" \/ reply'[r] = "Conflict" => NoAnswer(QuoteOf(r)),
             reply'[r] = "EXPIRED" => QuoteOf(r) \in expired
      PROVE  /\ pc'[r] = "missed" \/ reply'[r] = "Conflict" => NoAnswer(QuoteOf(r))'
             /\ reply'[r] = "EXPIRED" => QuoteOf(r)' \in expired'
  <2>1. QuoteOf(r)' = QuoteOf(r) /\ QuoteOf(r) \in Ids
    BY <1>2, TapHasQuote DEF QuoteOf
  <2>2. PICK q \in Ids : q = QuoteOf(r)
    BY <2>1
  <2>3. NoAnswer(q) => NoAnswer(q)'
    BY <1>0, NoAnswerStays
  <2>4. NoAnswer(QuoteOf(r)) => NoAnswer(QuoteOf(r))'
    BY <2>1, <2>2, <2>3 DEF NoAnswer
  <2> QED
    BY <1>0, <1>2, <2>1, <2>4 DEF Kept
<1>3. ASSUME pc'[r] = pc[r], reply'[r] = reply[r], token'[r] = token[r]
      PROVE  /\ pc'[r] = "missed" \/ reply'[r] = "Conflict" => NoAnswer(QuoteOf(r))'
             /\ reply'[r] = "EXPIRED" => QuoteOf(r)' \in expired'
  <2>1. CASE pc[r] = "new"
    BY <1>3, <2>1 DEF QInv, TapsOK
  <2>2. CASE pc[r] # "new"
    BY <1>2, <1>3, <2>2 DEF RefusalsOK
  <2> QED
    BY <2>1, <2>2
<1>4. CASE UNCHANGED <<pc, reply, token>>
  BY <1>3, <1>4
<1>5. CASE \E m \in Makers : SendStep(m)
  BY <1>1, <1>3, <1>5 DEF SendStep, SendReads, SendRefused, SendLinks, SendCommits, Goto, End
<1>6. ASSUME NEW o \in Taps, TapStep(o) PROVE
             /\ pc'[r] = "missed" \/ reply'[r] = "Conflict" => NoAnswer(QuoteOf(r))'
             /\ reply'[r] = "EXPIRED" => QuoteOf(r)' \in expired'
  <2>1. CASE o # r
    <3>1. pc'[r] = pc[r] /\ reply'[r] = reply[r] /\ token'[r] = token[r]
      BY <1>1, <1>6, <2>1, TapLeavesOthers
    <3> QED
      BY <1>3, <3>1
  <2>2. CASE o = r /\ pc[r] = "new"
    <3>1. pc'[r] # "missed" /\ reply'[r] \in {"none", "NotFound"}
      BY <1>1, <1>6, <2>2 DEF QInv, TapsOK, TapStep, TapResolves, TapBegins, TapOpens, ApproveUpdates,
                       ApproveMisses, ApproveCommits, Decline, TapViews, Goto, End
    <3> QED
      BY <3>1
  <2>3. CASE o = r /\ pc[r] # "new"
    <3>1. token'[r] = token[r]
      BY <1>6, <2>3 DEF TapStep, TapResolves, TapBegins, TapOpens, ApproveUpdates,
                        ApproveMisses, ApproveCommits, Decline, TapViews
    <3> QED
      BY <1>2, <1>6, <2>3, <3>1, TapRefused
  <2> QED
    BY <2>1, <2>2, <2>3
<1>7. ASSUME NEW o \in Requests, pc[o] \notin {"new", "ended"}, Rollback(o) PROVE
             /\ pc'[r] = "missed" \/ reply'[r] = "Conflict" => NoAnswer(QuoteOf(r))'
             /\ reply'[r] = "EXPIRED" => QuoteOf(r)' \in expired'
  <2>0. token' = token
    BY <1>7 DEF Rollback
  <2>1. CASE o # r
    <3>1. pc'[r] = pc[r] /\ reply'[r] = reply[r]
      BY <1>1, <1>7, <2>1 DEF Rollback, End, Goto
    <3> QED
      BY <1>3, <2>0, <3>1
  <2>2. CASE o = r
    BY <1>2, <1>7, <2>0, <2>2, TapRefused
  <2> QED
    BY <2>1, <2>2
<1> QED
  BY <1>4, <1>5, <1>6, <1>7, WhoMoves

LEMMA LinksEndedKeeps == QInv /\ LinksEnded /\ [Next]_vars => LinksEnded'
<1> SUFFICES ASSUME QInv, LinksEnded, [Next]_vars PROVE LinksEnded'
  OBVIOUS
<1>1. ASSUME NEW m \in Makers, pc[m] = "ended" PROVE pc'[m] = "ended"
  <2>1. ~SendReads(m) /\ ~SendCommits(m)
    BY <1>1 DEF SendReads, SendCommits
  <2> QED
    BY <1>1, <2>1, SendMoves
<1>2. /\ targets \in [Makers -> SUBSET Makers] /\ link \in [Makers -> {"none", "active", "revoked", "expired"}]
      /\ pc \in [Requests -> {"new", "readDraft", "readSent", "resolved", "approve", "decline",
                              "missed", "approving", "viewing", "ended"}]
      /\ Makers \subseteq Requests
  BY DEF QInv, TypeOK, LinkTypeOK, Requests
<1>3. CASE UNCHANGED linkVars
  BY <1>1, <1>2, <1>3 DEF LinksEnded, linkVars
<1>4. ASSUME NEW n \in Makers, SendLinks(n) PROVE LinksEnded'
  <2>1. link' = link /\ \A m \in Makers : targets'[m] \subseteq targets[m] \cup ActiveOf(SubjectOf[m])
    BY <1>2, <1>4 DEF SendLinks, RevokeBegins, RevokeEnds, Insert
  <2> QED
    BY <1>1, <1>2, <2>1 DEF LinksEnded, ActiveOf
<1>5. ASSUME NEW n \in Makers, SendCommits(n) PROVE LinksEnded'
  <2>1. pc'[n] = "ended"
    BY <1>2, <1>5 DEF SendCommits, End, Goto
  <2>2. \A m \in Makers :
          /\ link'[m] # "none" => m = n \/ m \in targets[n] \/ link[m] # "none"
          /\ targets'[m] \subseteq targets[m]
    BY <1>2, <1>5 DEF SendCommits, Publish, Idle
  <2> QED
    BY <1>1, <1>2, <2>1, <2>2 DEF LinksEnded
<1>6. ASSUME NEW n \in Makers, Withdraw(n) PROVE LinksEnded'
  <2>1. link' = link /\ \A m \in Makers : targets'[m] \subseteq targets[m]
    BY <1>2, <1>6 DEF Withdraw, Idle
  <2> QED
    BY <1>1, <1>2, <2>1 DEF LinksEnded
<1>7. ASSUME NEW n \in Makers, LinkExpires(n) PROVE LinksEnded'
  <2>1. targets' = targets /\ link[n] = "active" /\ \A m \in Makers \ {n} : link'[m] = link[m]
    BY <1>2, <1>7 DEF LinkExpires, Expire
  <2> QED
    BY <1>1, <1>2, <2>1 DEF LinksEnded
<1>8. CASE \E q \in Ids : CreateNumbers(q) \/ CreateCommits(q) \/ CreateAborts(q) \/ QuoteExpires(q)
  BY <1>3, <1>8 DEF CreateNumbers, CreateCommits, CreateAborts, QuoteExpires
<1>9. CASE \E m \in Makers : SendStep(m) \/ LinkExpires(m)
  BY <1>3, <1>4, <1>5, <1>7, <1>9 DEF SendStep, SendReads, SendRefused
<1>10. CASE \E r \in Taps : TapStep(r)
  BY <1>3, <1>10 DEF TapStep, TapResolves, TapBegins, TapOpens, ApproveUpdates, ApproveMisses,
                     ApproveCommits, Decline, TapViews
<1>11. CASE (\E r \in Requests : Abort(r)) \/ BreakDeadlock
  BY <1>3, <1>6, <1>11 DEF Abort, BreakDeadlock, Rollback
<1>12. CASE UNCHANGED vars
  BY <1>3, <1>12 DEF vars
<1> QED
  BY <1>8, <1>9, <1>10, <1>11, <1>12 DEF Next

LEMMA PStart == Init => PInv
<1> SUFFICES ASSUME Init PROVE PInv
  OBVIOUS
<1>1. LinksEnded
  BY DEF Init, LinkInit, LinksEnded
<1> QED
  BY <1>1, QuotesStart, QuotesAssumption DEF PInv, Init, OutOK, RefusalsOK, Requests

LEMMA PStep == PInv /\ [Next]_vars => PInv' /\ Kept
BY QuotesStep, StepKeeps, OutKeeps, RefusalsKeep, LinksEndedKeeps DEF PInv

-----------------------------------------------------------------------------
(* The customer's page.                                                    *)

LEMMA ReadStays ==
  ASSUME Kept, NEW x, ReadOK(x)
  PROVE  ReadOK(x)'
<1>1. Shown \in Ids
  BY QuotePagesAssumption
<1> QED
  BY <1>1 DEF Kept, ReadOK

(* A page that a step does not touch.                                      *)
LEMMA CustomerStays ==
  ASSUME Kept, NEW c, CustomerOK(c),
         \A r \in Taps : token[r] # NoLink => token'[r] = token[r]
  PROVE  CustomerOK(c)'
<1> USE QuotesAssumption, QuotePagesAssumption
<1>1. ReadOK(c.read)' /\ ReadOK(c.data)'
  BY ReadStays DEF CustomerOK
<1>2. c.link # NoLink => c.link \in Makers
  BY DEF CustomerOK, Page
<1>3. c.link # NoLink => reply'[c.link] = "ok"
  BY <1>2 DEF CustomerOK, Kept
<1>4. c.mutation # "idle" => c.tap \in Taps /\ token'[c.tap] = c.link
  BY DEF CustomerOK
<1>5. NoAnswer(Shown) => NoAnswer(Shown)'
  BY NoAnswerStays
<1> QED
  BY <1>1, <1>3, <1>4, <1>5 DEF CustomerOK

(* A step of the server, which no page sees before it is told.             *)
LEMMA ServerStep ==
  ASSUME CustomerInv, PInv', Kept, UNCHANGED pageVars,
         \A r \in Taps : token[r] # NoLink => token'[r] = token[r],
         \A r \in Taps : deed[r] = "decline" => r \notin tasks' /\ pc'[r] \notin {"approve", "approving"}
  PROVE  CustomerInv'
<1> USE QuotesAssumption, QuotePagesAssumption
<1>1. DeedsOK'
  <2> SUFFICES ASSUME NEW r \in Taps, deed[r] # "none"
               PROVE  token'[r] \in Makers /\ reply'[token'[r]] = "ok"
    BY DEF CustomerInv, DeedsOK, pageVars
  <2>1. token[r] \in Makers /\ reply[token[r]] = "ok"
    BY DEF CustomerInv, DeedsOK
  <2> QED
    BY <2>1 DEF Kept
<1>2. PICK c : c = quotePage
  OBVIOUS
<1>3. CustomerOK(c)'
  BY <1>2, CustomerStays DEF CustomerInv
<1>4. quotePage' = c
  BY <1>2 DEF pageVars
<1>5. CustomerOK(quotePage)'
  BY <1>3, <1>4 DEF CustomerOK, ReadOK, NoAnswer
<1>6. DeskAtRest'
  BY DEF CustomerInv, DeskAtRest, pageVars
<1> QED
  BY <1>1, <1>5, <1>6 DEF CustomerInv

(* A step of the page with itself.                                         *)
LEMMA CustomerTurns ==
  ASSUME CustomerInv, NEW c, Turn(c), CustomerOK(c)
  PROVE  CustomerInv'
<1>1. UNCHANGED vars /\ quotePage' = c /\ UNCHANGED <<desk, deed>>
  BY DEF Turn
<1>2. PInv'
  BY <1>1, PStep DEF CustomerInv
<1>3. UNCHANGED <<quoteVars, pc, token, reply, met, linkVars>>
  BY <1>1 DEF vars
<1>4. DeedsOK' /\ DeskAtRest'
  BY <1>1, <1>3 DEF CustomerInv, DeedsOK, DeskAtRest, quoteVars
<1>5. CustomerOK(quotePage)'
  BY <1>1, <1>3 DEF CustomerOK, ReadOK, NoAnswer, quoteVars
<1> QED
  BY <1>2, <1>4, <1>5 DEF CustomerInv

LEMMA CustomerPageKeeps ==
  ASSUME CustomerInv,
         \/ Read \/ ReadResolves \/ ReadAnswers \/ ReadHeard \/ ReadFails
         \/ \E b \in BOOLEAN : Confirming(b)
         \/ ResponseHeard \/ ResponseLost
  PROVE  CustomerInv'
<1> DEFINE c == quotePage
<1> USE QuotesAssumption, QuotePagesAssumption
<1>0. CustomerOK(c) /\ c \in Page /\ PInv /\ QInv
  BY DEF CustomerInv, CustomerOK, PInv
<1>a. ReadOK("none") /\ ReadOK("asked") /\ ReadOK("resolved")
  BY DEF ReadOK, Answered
<1>1. CASE Read
  <2>1. PICK m \in Makers :
          /\ reply[m] = "ok" /\ c.link \in {NoLink, m} /\ c.reads < MaxReads
          /\ Turn([c EXCEPT !.reads = @ + 1, !.link = m, !.read = "asked"])
    BY <1>1 DEF Read
  <2> DEFINE n == c.reads + 1
             x == [c EXCEPT !.reads = n, !.link = m, !.read = "asked"]
  <2>2. n \in 0..MaxReads
    BY <1>0, <2>1 DEF Page
  <2>3. x = [c EXCEPT !.reads = @ + 1, !.link = m, !.read = "asked"]
    OBVIOUS
  <2>4. Turn(x)
    BY <2>1, <2>3
  <2> HIDE DEF n
  <2>5. x \in Page
    BY <1>0, <2>2 DEF Page
  <2>6. CustomerOK(x)
    BY <1>0, <1>a, <2>1, <2>5 DEF Page, CustomerOK
  <2> HIDE DEF x
  <2> QED
    BY <2>4, <2>6, CustomerTurns
<1>2. CASE ReadResolves
  <2> DEFINE x == [c EXCEPT !.read = "resolved"]
  <2>1. Turn(x) /\ c.read = "asked"
    BY <1>2 DEF ReadResolves
  <2>2. x \in Page
    BY <1>0 DEF Page
  <2>3. CustomerOK(x)
    BY <1>0, <1>a, <2>1, <2>2 DEF Page, CustomerOK
  <2> HIDE DEF x
  <2> QED
    BY <2>1, <2>3, CustomerTurns
<1>3. CASE ReadAnswers
  <2> DEFINE v == ViewOf(SubjectOf[c.link])
             x == [c EXCEPT !.read = v]
  <2>1. Turn(x) /\ c.read = "resolved"
    BY <1>3 DEF ReadAnswers
  <2>2. c.link \in Makers /\ reply[c.link] = "ok" /\ SubjectOf[c.link] = Shown
    BY <1>0, <2>1 DEF CustomerOK, Page
  <2>3. status[Shown] \in Out
    BY <1>0, <2>2 DEF PInv, OutOK
  <2>4. v \in ViewStatuses /\ ReadOK(v)
    BY <2>2, <2>3 DEF ViewOf, Out, Answered, ReadOK, ViewStatuses, Statuses
  <2> HIDE DEF v
  <2>5. x \in Page
    BY <1>0, <2>4 DEF Page
  <2>6. CustomerOK(x)
    BY <1>0, <2>1, <2>2, <2>4, <2>5 DEF Page, CustomerOK
  <2> HIDE DEF x
  <2> QED
    BY <2>1, <2>6, CustomerTurns
<1>4. CASE ReadHeard
  <2> DEFINE x == [c EXCEPT !.read = "none", !.error = FALSE, !.data = c.read]
  <2>1. Turn(x) /\ c.read \in ViewStatuses
    BY <1>4 DEF ReadHeard
  <2>2. x \in Page
    BY <1>0, <2>1 DEF Page
  <2>3. CustomerOK(x)
    BY <1>0, <1>a, <2>1, <2>2 DEF Page, CustomerOK, ViewStatuses, Statuses
  <2> HIDE DEF x
  <2> QED
    BY <2>1, <2>3, CustomerTurns
<1>5. CASE ReadFails
  <2> DEFINE x == [c EXCEPT !.read = "none", !.error = TRUE]
  <2>1. Turn(x) /\ c.read = "asked"
    BY <1>5 DEF ReadFails
  <2>2. x \in Page
    BY <1>0, <2>1 DEF Page
  <2>3. CustomerOK(x)
    BY <1>0, <1>a, <2>1, <2>2 DEF Page, CustomerOK
  <2> HIDE DEF x
  <2> QED
    BY <2>1, <2>3, CustomerTurns
<1>6. ASSUME NEW b \in BOOLEAN, Confirming(b) PROVE CustomerInv'
  <2> DEFINE x == [c EXCEPT !.confirming = b]
  <2>1. Turn(x)
    BY <1>6 DEF Confirming
  <2>2. x \in Page
    BY <1>0 DEF Page
  <2>3. CustomerOK(x)
    BY <1>0, <2>2 DEF Page, CustomerOK
  <2> HIDE DEF x
  <2> QED
    BY <2>1, <2>3, CustomerTurns
<1>7. CASE ResponseHeard
  <2> DEFINE a == reply[c.tap]
  <2>1. c.mutation = "pending" /\ pc[c.tap] = "ended"
        /\ Turn(IF a \in ViewStatuses
                THEN [c EXCEPT !.mutation = "ok", !.data = a, !.confirming = FALSE]
                ELSE [c EXCEPT !.mutation = ErrorOf(a)])
    BY <1>7 DEF ResponseHeard
  <2>2. c.tap \in Taps /\ c.link # NoLink /\ c.link \in Makers /\ token[c.tap] = c.link
        /\ QuoteOf(c.tap) = Shown
    BY <1>0, <2>1 DEF CustomerOK, Page, QuoteOf
  <2>3. ReadOK(a)
    BY <1>0, <2>2 DEF ReadOK, PInv, RefusalsOK, QInv, AnswersAreTrue, ShownIsKept, Answered
  <2>4. a = "Conflict" => NoAnswer(Shown)
    BY <1>0, <2>2 DEF PInv, RefusalsOK
  <2> HIDE DEF a
  <2>5. CASE a \in ViewStatuses
    <3> DEFINE x == [c EXCEPT !.mutation = "ok", !.data = a, !.confirming = FALSE]
    <3>1. x \in Page
      BY <1>0, <2>5 DEF Page
    <3>2. CustomerOK(x)
      BY <1>0, <2>2, <2>3, <3>1 DEF Page, CustomerOK
    <3>3. Turn(x)
      BY <2>1, <2>5
    <3> HIDE DEF x
    <3> QED
      BY <3>2, <3>3, CustomerTurns
  <2>6. CASE a \notin ViewStatuses
    <3> DEFINE e == ErrorOf(a)
               x == [c EXCEPT !.mutation = e]
    <3>1. e \in {"Conflict", "failed"} /\ (e = "Conflict" => a = "Conflict")
      BY DEF ErrorOf
    <3>2. Turn(x)
      BY <2>1, <2>6
    <3> HIDE DEF e
    <3>3. x \in Page
      BY <1>0, <3>1 DEF Page
    <3>4. CustomerOK(x)
      BY <1>0, <2>2, <2>4, <3>1, <3>3 DEF Page, CustomerOK
    <3> HIDE DEF x
    <3> QED
      BY <3>2, <3>4, CustomerTurns
  <2> QED
    BY <2>5, <2>6
<1>8. CASE ResponseLost
  <2> DEFINE x == [c EXCEPT !.mutation = "failed"]
  <2>1. Turn(x) /\ c.mutation = "pending"
    BY <1>8 DEF ResponseLost, ErrorOf
  <2>2. x \in Page
    BY <1>0 DEF Page
  <2>3. CustomerOK(x)
    BY <1>0, <2>1, <2>2 DEF Page, CustomerOK
  <2> HIDE DEF x
  <2> QED
    BY <2>1, <2>3, CustomerTurns
<1> QED
  BY <1>1, <1>2, <1>3, <1>4, <1>5, <1>6, <1>7, <1>8

(* A request that nobody has made gets a link, and has done nothing.       *)
LEMMA FreshTap ==
  ASSUME PInv, NEW r \in Taps, NEW l \in Makers, pc[r] = "new",
         token' = [token EXCEPT ![r] = l],
         UNCHANGED <<quoteVars, pc, reply, met, linkVars>>
  PROVE  PInv' /\ Kept
<1> USE DEF PInv, QInv, quoteVars
<1>1. token \in [Taps -> Makers \cup {NoLink}] /\ \A o \in Taps \ {r} : token'[o] = token[o]
  BY DEF TypeOK
<1>2. TypeOK'
  BY <1>1 DEF TypeOK, LinkTypeOK, linkVars
<1>3. NumbersOK'
  BY NumbersStay DEF TypeOK
<1>4. SentOK' /\ SendsOK' /\ LinksOK'
  BY MakersStay
<1>5. r \notin tasks /\ tasks \subseteq Taps /\ reply[r] = "none"
  BY DEF TapsOK, TypeOK
<1>6. TapsOK'
  BY <1>1, <1>5 DEF TapsOK
<1>7. \A o \in Taps \ {r} : QuoteOf(o)' = QuoteOf(o)
  BY <1>1 DEF QuoteOf
<1>8. ApprovalsOK'
  <2>1. \A q : Updating(q)' \subseteq Updating(q)
    BY <1>7 DEF Updating
  <2> QED
    BY <2>1 DEF ApprovalsOK
<1>9. AnswersAreTrue'
  <2>1. \A q : TasksOf(q)' = TasksOf(q)
    BY <1>5, <1>7 DEF TasksOf
  <2>2. AnswerMatchesTasks'
    BY <2>1 DEF AnswersAreTrue, AnswerMatchesTasks
  <2>3. ShownIsKept'
    BY <1>5, <1>7 DEF AnswersAreTrue, ShownIsKept
  <2> QED
    BY <2>2, <2>3 DEF AnswersAreTrue
<1>10. OutOK' /\ LinksEnded'
  BY DEF OutOK, LinksEnded, linkVars
<1>11. RefusalsOK'
  BY <1>5, <1>7 DEF RefusalsOK, NoAnswer
<1>12. Kept
  BY DEF Kept
<1> QED
  BY <1>2, <1>3, <1>4, <1>6, <1>8, <1>9, <1>10, <1>11, <1>12

LEMMA RespondKeeps ==
  ASSUME CustomerInv, NEW d \in {"approve", "decline"}, Respond(d)
  PROVE  CustomerInv'
<1> DEFINE c == quotePage
<1> USE QuotesAssumption, QuotePagesAssumption
<1>0. CustomerOK(c) /\ c \in Page /\ PInv /\ DeedsOK /\ TapsOK
  BY DEF CustomerInv, CustomerOK, PInv, QInv
<1>1. PICK r \in Taps :
        /\ NextTap(r)
        /\ token' = [token EXCEPT ![r] = c.link]
        /\ deed' = [deed EXCEPT ![r] = d]
        /\ quotePage' = [c EXCEPT !.tap = r, !.mutation = "pending"]
  BY DEF Respond
<1>2. UNCHANGED <<quoteVars, pc, reply, met, linkVars, desk>>
  BY DEF Respond
<1>3. c.link \in Makers /\ reply[c.link] = "ok"
  <2>1. Screen = "SENT"
    BY DEF Respond
  <2>2. c.data = "none" /\ c.read = "none" => Screen # "SENT"
    BY DEF Screen
  <2>3. c.link # NoLink
    BY <1>0, <2>1, <2>2 DEF CustomerOK
  <2> QED
    BY <1>0, <2>3 DEF CustomerOK, Page
<1>4. token[r] = NoLink
  BY <1>1 DEF NextTap
<1>5. pc[r] = "new" /\ r \notin tasks
  BY <1>0, <1>4 DEF TapsOK
<1>6. PInv' /\ Kept
  BY <1>0, <1>1, <1>2, <1>3, <1>5, FreshTap
<1>7. token \in [Taps -> Makers \cup {NoLink}] /\ deed \in [Taps -> {"none", "approve", "decline"}]
  BY <1>0 DEF PInv, QInv, TypeOK, DeedsOK
<1>8. DeedsOK'
  BY <1>0, <1>1, <1>2, <1>3, <1>5, <1>7 DEF DeedsOK, quoteVars
<1>9. PICK x : x = [c EXCEPT !.tap = r, !.mutation = "pending"]
  OBVIOUS
<1>10. x \in Page
  BY <1>0, <1>9 DEF Page
<1>11. CustomerOK(x)'
  <2>1. /\ x.link = c.link /\ x.read = c.read /\ x.data = c.data
        /\ x.tap = r /\ x.mutation = "pending"
    BY <1>0, <1>9 DEF Page
  <2>2. ReadOK(x.read)' /\ ReadOK(x.data)'
    <3>1. ReadOK(x.read) /\ ReadOK(x.data)
      BY <1>0, <2>1 DEF CustomerOK
    <3> QED
      BY <1>6, <3>1, ReadStays
  <2>3. token'[r] = c.link /\ reply' = reply
    BY <1>1, <1>2, <1>7
  <2> QED
    BY <1>3, <1>10, <2>1, <2>2, <2>3 DEF CustomerOK, ReadOK
<1>12. CustomerOK(quotePage)'
  BY <1>1, <1>9, <1>11 DEF CustomerOK, ReadOK, NoAnswer
<1>13. DeskAtRest'
  BY <1>2 DEF CustomerInv, DeskAtRest
<1> QED
  BY <1>6, <1>8, <1>12, <1>13 DEF CustomerInv

(* The server's steps.  A request to decline does not approve.             *)
LEMMA TapKeepsDeed ==
  ASSUME CustomerInv, NEW o \in Taps, TapStep(o), NEW r \in Taps, deed[r] = "decline",
         TapBegins(o) /\ deed[o] # "none" =>
           pc'[o] \in {deed[o], IF deed[o] = "approve" THEN "missed" ELSE "ended"}
  PROVE  r \notin tasks' /\ pc'[r] \notin {"approve", "approving"}
<1>0. QInv /\ r \notin tasks /\ pc[r] \notin {"approve", "approving"}
  BY DEF CustomerInv, PInv, DeedsOK
<1>1. pc \in [Requests -> {"new", "readDraft", "readSent", "resolved", "approve", "decline",
                           "missed", "approving", "viewing", "ended"}] /\ r \in Requests
  BY <1>0 DEF QInv, TypeOK, Requests
<1>2. r \notin tasks'
  BY <1>0 DEF TapStep, TapResolves, TapBegins, TapOpens, ApproveUpdates, ApproveMisses,
              ApproveCommits, Decline, TapViews, quoteVars
<1>3. CASE o # r
  BY <1>0, <1>1, <1>2, <1>3, TapLeavesOthers
<1>4. CASE o = r
  BY <1>0, <1>1, <1>2, <1>4 DEF TapStep, TapResolves, TapBegins, TapOpens, ApproveUpdates,
     ApproveMisses, ApproveCommits, Decline, TapViews, Goto, End
<1> QED
  BY <1>3, <1>4

LEMMA CustomerTapKeeps ==
  ASSUME CustomerInv, NEW o \in Taps, TapStep(o), UNCHANGED pageVars,
         TapResolves(o) => token[o] = NoLink \/ token' = token,
         TapBegins(o) /\ deed[o] # "none" =>
           pc'[o] \in {deed[o], IF deed[o] = "approve" THEN "missed" ELSE "ended"}
  PROVE  CustomerInv'
<1>1. PInv' /\ Kept
  BY PStep DEF CustomerInv, Next
<1>2. \A r \in Taps : token[r] # NoLink => token'[r] = token[r]
  <2>1. QInv
    BY DEF CustomerInv, PInv
  <2>2. CASE TapResolves(o)
    BY <2>1, <2>2, TapLeavesOthers
  <2>3. CASE ~TapResolves(o)
    BY <2>3 DEF TapStep, TapBegins, TapOpens, ApproveUpdates, ApproveMisses, ApproveCommits, Decline, TapViews
  <2> QED
    BY <2>2, <2>3
<1>3. \A r \in Taps : deed[r] = "decline" => r \notin tasks' /\ pc'[r] \notin {"approve", "approving"}
  BY TapKeepsDeed
<1> QED
  BY <1>1, <1>2, <1>3, ServerStep

(* Steps of the server for staff, and the loser of a deadlock.             *)
LEMMA CustomerOthersKeep ==
  ASSUME CustomerInv, UNCHANGED pageVars,
         \/ CreateNumbers(Shown) \/ CreateCommits(Shown) \/ QuoteExpires(Shown) \/ BreakDeadlock
         \/ \E m \in Makers : SendStep(m)
         \/ UNCHANGED vars
  PROVE  CustomerInv'
<1> USE QuotesAssumption, QuotePagesAssumption
<1>0. QInv /\ DeedsOK
  BY DEF CustomerInv, PInv
<1>1. PInv' /\ Kept
  BY PStep DEF CustomerInv, Next
<1>2. token' = token /\ tasks' = tasks
  BY DEF CreateNumbers, CreateCommits, QuoteExpires, BreakDeadlock, Rollback, SendStep,
         SendReads, SendRefused, SendLinks, SendCommits, quoteVars, vars
<1>3. \A r \in Taps : pc'[r] \in {pc[r], "ended"}
  BY <1>0 DEF CreateNumbers, CreateCommits, QuoteExpires, BreakDeadlock, Rollback, SendStep,
         SendReads, SendRefused, SendLinks, SendCommits, vars, Goto, End, QInv, TypeOK, Requests
<1>4. \A r \in Taps : deed[r] = "decline" => r \notin tasks' /\ pc'[r] \notin {"approve", "approving"}
  BY <1>0, <1>2, <1>3 DEF DeedsOK
<1> QED
  BY <1>1, <1>2, <1>4, ServerStep

LEMMA CustomerStep == CustomerInv /\ [CustomerNext]_<<vars, pageVars>> => CustomerInv'
<1> SUFFICES ASSUME CustomerInv, [CustomerNext]_<<vars, pageVars>> PROVE CustomerInv'
  OBVIOUS
<1> USE QuotesAssumption, QuotePagesAssumption
<1>1. ASSUME NEW r \in Taps, TapArrives(r) PROVE CustomerInv'
  <2>1. token[r] \in Makers /\ reply[token[r]] = "ok" /\ token' = token
        /\ token \in [Taps -> Makers \cup {NoLink}]
    BY <1>1 DEF TapArrives, CustomerInv, DeedsOK, PInv, QInv, TypeOK
  <2>2. token' = [token EXCEPT ![r] = token[r]]
    BY <2>1
  <2>3. TapResolves(r) /\ UNCHANGED pageVars /\ pc[r] = "new"
    BY <1>1, <2>1, <2>2 DEF TapArrives, TapResolves
  <2>4. TapStep(r) /\ ~TapBegins(r)
    BY <2>3 DEF TapStep, TapBegins
  <2> QED
    BY <2>1, <2>3, <2>4, CustomerTapKeeps
<1>2. ASSUME NEW r \in Taps, TapActs(r) PROVE CustomerInv'
  <2>1. TapStep(r) /\ ~TapResolves(r) /\ UNCHANGED pageVars
    BY <1>2 DEF TapActs, TapStep, TapBegins, TapResolves
  <2> QED
    BY <1>2, <2>1, CustomerTapKeeps DEF TapActs
<1>3. ASSUME NEW r \in Taps, UNCHANGED pageVars,
             \/ NextTap(r) /\ TapResolves(r)
             \/ ApproveUpdates(r) \/ ApproveMisses(r) \/ ApproveCommits(r) \/ Decline(r) \/ TapViews(r)
      PROVE  CustomerInv'
  <2>1. TapStep(r) /\ ~TapBegins(r)
    BY <1>3 DEF TapStep, TapBegins, TapResolves, ApproveUpdates, ApproveMisses, ApproveCommits,
                Decline, TapViews
  <2>2. TapResolves(r) => token[r] = NoLink
    BY <1>3 DEF NextTap, TapResolves, ApproveUpdates, ApproveMisses, ApproveCommits, Decline, TapViews
  <2> QED
    BY <1>3, <2>1, <2>2, CustomerTapKeeps
<1>4. CASE Serve({m \in Makers : \A o \in Makers \ {m} : pc[o] \in {"new", "ended"}}, Taps)
  BY <1>3, <1>4, CustomerOthersKeep DEF Serve
<1> QED
  BY <1>1, <1>2, <1>4, CustomerPageKeeps, RespondKeeps, CustomerOthersKeep DEF CustomerNext, pageVars

-----------------------------------------------------------------------------
(* The page of staff.                                                      *)

(* A step of the page with itself.                                         *)
LEMMA StaffTurns ==
  ASSUME StaffInv, NEW d, TurnDesk(d), StaffOK(d)
  PROVE  StaffInv'
<1>1. UNCHANGED vars /\ desk' = d /\ UNCHANGED <<quotePage, deed>>
  BY DEF TurnDesk
<1>2. PInv'
  BY <1>1, PStep DEF StaffInv
<1>3. UNCHANGED <<quoteVars, pc, token, reply, met, linkVars>>
  BY <1>1 DEF vars
<1>4. CustomerAtRest'
  BY <1>1 DEF StaffInv, CustomerAtRest
<1>5. StaffOK(desk)'
  BY <1>1, <1>3 DEF StaffOK, ReadOK, NewOK, TurnsOK, Resolves, quoteVars, linkVars
<1> QED
  BY <1>2, <1>4, <1>5 DEF StaffInv

(* A step of the server, which the page does not see before it is told.    *)
LEMMA StaffWaits ==
  ASSUME StaffInv, [Next]_vars, UNCHANGED pageVars, NewOK(desk)', TurnsOK(desk)'
  PROVE  StaffInv'
<1>1. PInv' /\ Kept
  BY PStep DEF StaffInv
<1>2. PICK d : d = desk
  OBVIOUS
<1>3. ReadOK(d.read) /\ ReadOK(d.row) /\ d \in Desk /\ d.read # "EXPIRED" /\ desk' = d
  BY <1>2 DEF StaffInv, StaffOK, pageVars
<1>4. ReadOK(d.read)' /\ ReadOK(d.row)'
  BY <1>1, <1>3, ReadStays
<1>5. StaffOK(desk)'
  BY <1>3, <1>4 DEF StaffOK, ReadOK
<1>6. CustomerAtRest'
  BY DEF StaffInv, CustomerAtRest, pageVars
<1> QED
  BY <1>1, <1>5, <1>6 DEF StaffInv

(* While a quote is not made, no number of it is about.                    *)
LEMMA NotMadeYet ==
  ASSUME StaffInv, [Next]_vars, desk.creating = "no", numbering' \subseteq numbering
  PROVE  Shown \notin numbering' /\ status'[Shown] = "NONE"
<1>1. Shown \in Ids /\ Shown \notin numbering /\ status[Shown] = "NONE" /\ QInv
  BY QuotePagesAssumption DEF StaffInv, StaffOK, NewOK, PInv
<1> QED
  BY <1>1, StatusMoves

(* No send moves.                                                          *)
LEMMA StaffSeesNothing ==
  ASSUME StaffInv, [Next]_vars, UNCHANGED pageVars, numbering' \subseteq numbering,
         \A m \in Makers : pc'[m] = pc[m] /\ reply'[m] = reply[m],
         met' = met, link' = link
  PROVE  StaffInv'
<1> USE QuotesAssumption, QuotePagesAssumption
<1>1. desk' = desk /\ desk \in Desk /\ NewOK(desk) /\ TurnsOK(desk)
  BY DEF pageVars, StaffInv, StaffOK
<1>2. NewOK(desk)'
  BY <1>1, NotMadeYet DEF NewOK
<1>3. TurnsOK(desk)'
  BY <1>1 DEF TurnsOK, Resolves, Desk
<1> QED
  BY <1>2, <1>3, StaffWaits

(* A send moves that the page has asked for: in turn, it is the only one.  *)
LEMMA StaffSends ==
  ASSUME StaffInv, [Next]_vars, UNCHANGED pageVars, numbering' = numbering,
         NEW n \in Makers, Pressed(n), pc[n] # "ended",
         \A m \in Makers \ {n} : pc'[m] = pc[m] /\ reply'[m] = reply[m],
         met' = met \/ (pc[n] = "new" /\ Sending(Shown) # {}),
         reply'[n] = "ok" => link'[n] = "active"
  PROVE  StaffInv'
<1> USE QuotesAssumption, QuotePagesAssumption
<1>1. desk' = desk /\ desk \in Desk /\ NewOK(desk) /\ TurnsOK(desk)
  BY DEF pageVars, StaffInv, StaffOK
<1>2. desk.creating \notin {"no", "asked"}
  BY <1>1 DEF NewOK, Pressed
<1>3. NewOK(desk)'
  BY <1>1, <1>2 DEF NewOK
<1>4. TurnsOK(desk)'
  <2> SUFFICES ASSUME desk.inTurn PROVE TurnsOK(desk)'
    BY <1>1 DEF TurnsOK
  <2>1. n \in desk.pending
    BY <1>1 DEF TurnsOK, Pressed
  <2>2. desk.pending = {n} /\ desk.last = n
    BY <1>1, <2>1 DEF TurnsOK
  <2>3. \A m \in Makers \ {n} : pc[m] \in {"new", "ended"}
    BY <1>1, <2>2 DEF TurnsOK
  <2>4. met' = met
    BY <2>3 DEF Sending, InSend
  <2>5. desk.shared # NoLink => desk.shared \in Makers \ {n} /\ pc[desk.shared] = "ended"
    BY <1>1, <2>2 DEF TurnsOK, Desk
  <2> QED
    BY <1>1, <2>2, <2>3, <2>4, <2>5 DEF TurnsOK, Resolves
<1> QED
  BY <1>3, <1>4, StaffWaits

(* What invalidateQueries leaves of a page.                                *)
LEMMA InvalidatedKeeps ==
  ASSUME NEW d \in Desk
  PROVE  /\ Invalidated(d) \in Desk
         /\ Invalidated(d).read \in {"none", "asked"}
         /\ Invalidated(d).row = d.row /\ Invalidated(d).creating = d.creating
         /\ Invalidated(d).pending = d.pending /\ Invalidated(d).last = d.last
         /\ Invalidated(d).shared = d.shared /\ Invalidated(d).inTurn = d.inTurn
<1>1. CASE d.reads < MaxReads
  <2> DEFINE n == d.reads + 1
             x == [d EXCEPT !.reads = n, !.read = "asked"]
  <2>1. n \in 0..MaxReads
    BY <1>1, QuotePagesAssumption DEF Desk
  <2>2. Invalidated(d) = x
    BY <1>1 DEF Invalidated
  <2> HIDE DEF n
  <2> QED
    BY <2>1, <2>2 DEF Desk
<1>2. CASE ~(d.reads < MaxReads)
  <2>1. Invalidated(d) = [d EXCEPT !.read = "none"]
    BY <1>2 DEF Invalidated
  <2> QED
    BY <2>1 DEF Desk
<1> QED
  BY <1>1, <1>2

LEMMA NothingRead == ReadOK("none") /\ ReadOK("asked")
  BY DEF ReadOK, Answered

(* The page's query.                                                       *)
LEMMA DeskQueryKeeps ==
  ASSUME StaffInv, DeskReads \/ DeskAnswers \/ DeskHeard
  PROVE  StaffInv'
<1> USE QuotesAssumption, QuotePagesAssumption
<1>0. desk \in Desk /\ StaffOK(desk) /\ QInv
  BY DEF StaffInv, StaffOK, PInv
<1>1. CASE DeskReads
  <2> DEFINE n == desk.reads + 1
             x == [desk EXCEPT !.reads = n, !.read = "asked"]
  <2>1. n \in 0..MaxReads
    BY <1>0, <1>1 DEF DeskReads, Desk
  <2>2. TurnDesk(x)
    BY <1>1 DEF DeskReads
  <2> HIDE DEF n
  <2>3. /\ x \in Desk /\ x.read = "asked" /\ x.row = desk.row /\ x.creating = desk.creating
        /\ x.pending = desk.pending /\ x.last = desk.last /\ x.shared = desk.shared
        /\ x.inTurn = desk.inTurn
    BY <1>0, <2>1 DEF Desk
  <2> HIDE DEF x
  <2>4. StaffOK(x)
    BY <1>0, <2>3, NothingRead DEF StaffOK, NewOK, TurnsOK
  <2> QED
    BY <2>2, <2>4, StaffTurns
<1>2. CASE DeskAnswers
  <2> DEFINE v == status[Shown]
             x == [desk EXCEPT !.read = v]
  <2>1. v \in Statuses /\ TurnDesk(x)
    BY <1>0, <1>2 DEF DeskAnswers, QInv, TypeOK
  <2>2. ReadOK(v) /\ v # "EXPIRED"
    BY <2>1 DEF ReadOK, Statuses
  <2>3. desk.creating # "no"
    BY <1>0, <1>2 DEF StaffOK, NewOK, DeskAnswers
  <2> HIDE DEF v
  <2>4. /\ x \in Desk /\ x.read = v /\ x.row = desk.row /\ x.creating = desk.creating
        /\ x.pending = desk.pending /\ x.last = desk.last /\ x.shared = desk.shared
        /\ x.inTurn = desk.inTurn
    BY <1>0, <2>1 DEF Desk
  <2> HIDE DEF x
  <2>5. StaffOK(x)
    BY <1>0, <2>2, <2>3, <2>4 DEF StaffOK, NewOK, TurnsOK
  <2> QED
    BY <2>1, <2>5, StaffTurns
<1>3. CASE DeskHeard
  <2> DEFINE x == [desk EXCEPT !.read = "none", !.row = desk.read]
  <2>1. desk.read \in Statuses /\ TurnDesk(x)
    BY <1>3 DEF DeskHeard
  <2>2. desk.creating # "no"
    BY <1>0, <2>1 DEF StaffOK, NewOK, Statuses
  <2>3. /\ x \in Desk /\ x.read = "none" /\ x.row = desk.read /\ x.creating = desk.creating
        /\ x.pending = desk.pending /\ x.last = desk.last /\ x.shared = desk.shared
        /\ x.inTurn = desk.inTurn
    BY <1>0, <2>1 DEF Desk
  <2> HIDE DEF x
  <2>4. StaffOK(x)
    BY <1>0, <2>2, <2>3, NothingRead DEF StaffOK, NewOK, TurnsOK
  <2> QED
    BY <2>1, <2>4, StaffTurns
<1> QED
  BY <1>1, <1>2, <1>3

(* The quote is made, in a dialog that may have been closed by then.       *)
LEMMA DeskCreatesKeeps ==
  ASSUME StaffInv, Create \/ LeaveDialog
  PROVE  StaffInv'
<1> USE QuotesAssumption, QuotePagesAssumption
<1>0. desk \in Desk /\ StaffOK(desk) /\ PInv
  BY DEF StaffInv, StaffOK
<1>1. CASE Create
  <2>1. CreateNumbers(Shown) /\ UNCHANGED <<quotePage, deed>> /\ desk.creating = "no"
        /\ desk' = [desk EXCEPT !.creating = "asked"]
    BY <1>1 DEF Create
  <2>2. PInv' /\ Kept
    BY <1>0, <2>1, PStep DEF Next
  <2>3. PICK x : x = [desk EXCEPT !.creating = "asked"]
    OBVIOUS
  <2>4. /\ x \in Desk /\ x.read = desk.read /\ x.row = desk.row /\ x.creating = "asked"
        /\ x.pending = desk.pending /\ x.last = desk.last /\ x.shared = desk.shared
        /\ x.inTurn = desk.inTurn
    BY <1>0, <2>3 DEF Desk
  <2>5. UNCHANGED <<status, expired, pc, reply, met, link>>
    BY <2>1 DEF CreateNumbers, linkVars
  <2>6. StaffOK(x)
    BY <1>0, <2>1, <2>4 DEF StaffOK, NewOK, TurnsOK
  <2>7. StaffOK(desk)'
    BY <2>1, <2>3, <2>4, <2>5, <2>6 DEF StaffOK, ReadOK, NewOK, TurnsOK, Resolves
  <2>8. CustomerAtRest'
    BY <2>1 DEF StaffInv, CustomerAtRest
  <2> QED
    BY <2>2, <2>7, <2>8 DEF StaffInv
<1>2. CASE LeaveDialog
  <2> DEFINE x == [desk EXCEPT !.creating = "left", !.inTurn = FALSE]
  <2>1. TurnDesk(x)
    BY <1>2 DEF LeaveDialog
  <2>2. /\ x \in Desk /\ x.read = desk.read /\ x.row = desk.row /\ x.creating = "left"
        /\ x.inTurn = FALSE
    BY <1>0 DEF Desk
  <2> HIDE DEF x
  <2>3. StaffOK(x)
    BY <1>0, <2>2 DEF StaffOK, NewOK, TurnsOK
  <2> QED
    BY <2>1, <2>3, StaffTurns
<1> QED
  BY <1>1, <1>2

(* A send is asked for: after the quote was made, or by the button.        *)
LEMMA DeskPressKeeps ==
  ASSUME StaffInv, NEW m \in Makers, NEW d, TurnDesk(d), d \in Desk,
         pc[m] = "new", m \notin desk.pending,
         d.read \in {"none", "asked", desk.read}, d.row = desk.row,
         d.creating = "done" \/ (d.creating = desk.creating /\ d.creating \notin {"no", "asked"}),
         d.pending = desk.pending \cup {m}, d.last = m,
         d.shared = desk.shared, d.inTurn = desk.inTurn, desk.inTurn => desk.pending = {}
  PROVE  StaffInv'
<1> USE QuotesAssumption, QuotePagesAssumption
<1>0. desk \in Desk /\ StaffOK(desk) /\ QInv
  BY DEF StaffInv, StaffOK, PInv
<1>1. NewOK(d)
  BY <1>0 DEF StaffOK, NewOK
<1>2. reply[m] # "ok"
  BY <1>0 DEF QInv, SentOK
<1>3. TurnsOK(d)
  BY <1>0, <1>2 DEF StaffOK, TurnsOK, Desk
<1>4. ReadOK(d.read) /\ ReadOK(d.row) /\ d.read # "EXPIRED"
  BY <1>0, NothingRead DEF StaffOK
<1> QED
  BY <1>1, <1>3, <1>4, StaffTurns DEF StaffOK

LEMMA DeskSendsKeeps ==
  ASSUME StaffInv,
         \/ Created \/ PressOther
         \/ \E m \in Makers : Press(m) \/ Sent(m) \/ SendLost(m)
  PROVE  StaffInv'
<1> USE QuotesAssumption, QuotePagesAssumption
<1>0. desk \in Desk /\ StaffOK(desk) /\ QInv /\ NewOK(desk) /\ TurnsOK(desk)
  BY DEF StaffInv, StaffOK, PInv
<1>a. \A m \in Makers :
        /\ SendOf(m) \in Desk /\ SendOf(m).pending = desk.pending \cup {m} /\ SendOf(m).last = m
        /\ SendOf(m).read = desk.read /\ SendOf(m).row = desk.row
        /\ SendOf(m).creating = desk.creating /\ SendOf(m).shared = desk.shared
        /\ SendOf(m).inTurn = desk.inTurn
  BY <1>0 DEF SendOf, Desk
<1>b. \A m \in Makers : NextPress(m) => pc[m] = "new" /\ m \notin desk.pending
  <2> SUFFICES ASSUME NEW m \in Makers, NextPress(m) PROVE ~Pressed(m)
    BY DEF Pressed
  <2>1. PICK i \in DOMAIN Presses :
          m = Presses[i] /\ {j \in DOMAIN Presses : ~Pressed(Presses[j])} = i..Len(Presses)
    BY DEF NextPress
  <2>2. i \in i..Len(Presses)
    BY <2>1
  <2> QED
    BY <2>1, <2>2
<1>1. CASE Created
  <2>1. PICK m \in Makers : NextPress(m) /\ TurnDesk([Invalidated(SendOf(m)) EXCEPT !.creating = "done"])
    BY <1>1 DEF Created
  <2>2. PICK s \in Desk : s = Invalidated(SendOf(m))
    BY <1>a, InvalidatedKeeps
  <2>3. /\ s.read \in {"none", "asked"} /\ s.row = desk.row
        /\ s.pending = desk.pending \cup {m} /\ s.last = m
        /\ s.shared = desk.shared /\ s.inTurn = desk.inTurn
    BY <1>a, <2>2, InvalidatedKeeps
  <2>4. PICK d : d = [s EXCEPT !.creating = "done"]
    OBVIOUS
  <2>5. /\ d \in Desk /\ d.read = s.read /\ d.row = s.row /\ d.creating = "done"
        /\ d.pending = s.pending /\ d.last = s.last /\ d.shared = s.shared /\ d.inTurn = s.inTurn
    BY <2>2, <2>4 DEF Desk
  <2>6. desk.inTurn => desk.pending = {}
    BY <1>0, <1>1 DEF Created, NewOK
  <2> QED
    BY <1>b, <2>1, <2>2, <2>3, <2>4, <2>5, <2>6, DeskPressKeeps
<1>2. ASSUME NEW m \in Makers, Press(m) PROVE StaffInv'
  <2>1. desk.creating # "no"
    BY <1>0, <1>2 DEF Press, CanSend, NewOK
  <2>2. desk.inTurn => desk.pending = {}
    BY <1>0, <1>2 DEF Press, Loading, TurnsOK
  <2>3. PICK d : d = SendOf(m)
    OBVIOUS
  <2> QED
    BY <1>a, <1>b, <1>2, <2>1, <2>2, <2>3, DeskPressKeeps DEF Press
<1>3. CASE PressOther
  <2> DEFINE x == [desk EXCEPT !.last = NoLink, !.inTurn = FALSE]
  <2>1. TurnDesk(x) /\ desk.pending # {}
    BY <1>3 DEF PressOther, Loading
  <2>2. /\ x \in Desk /\ x.read = desk.read /\ x.row = desk.row /\ x.creating = desk.creating
        /\ x.inTurn = FALSE
    BY <1>0 DEF Desk
  <2> HIDE DEF x
  <2>3. StaffOK(x)
    BY <1>0, <2>1, <2>2 DEF StaffOK, NewOK, TurnsOK
  <2> QED
    BY <2>1, <2>3, StaffTurns
<1>4. ASSUME NEW m \in Makers, Sent(m) PROVE StaffInv'
  <2>0. m \in desk.pending /\ pc[m] = "ended" /\ desk.creating \notin {"no", "asked"}
    BY <1>0, <1>4 DEF Sent, NewOK
  <2>1. PICK d : d = [desk EXCEPT !.pending = @ \ {m}]
    OBVIOUS
  <2>2. TurnDesk(IF reply[m] = "ok" THEN Invalidated([d EXCEPT !.shared = m]) ELSE d)
    BY <1>4, <2>1 DEF Sent
  <2>3. /\ d \in Desk /\ d.read = desk.read /\ d.row = desk.row /\ d.creating = desk.creating
        /\ d.pending = desk.pending \ {m} /\ d.last = desk.last /\ d.shared = desk.shared
        /\ d.inTurn = desk.inTurn
    BY <1>0, <2>1 DEF Desk
  <2>4. CASE reply[m] = "ok"
    <3>1. PICK s \in Desk : s = [d EXCEPT !.shared = m]
      BY <2>3 DEF Desk
    <3>2. /\ s.read = desk.read /\ s.row = desk.row /\ s.creating = desk.creating
          /\ s.pending = desk.pending \ {m} /\ s.last = desk.last /\ s.shared = m
          /\ s.inTurn = desk.inTurn
      BY <2>3, <3>1 DEF Desk
    <3>3. PICK x : x = Invalidated(s)
      OBVIOUS
    <3>4. /\ x \in Desk /\ x.read \in {"none", "asked"} /\ x.row = desk.row
          /\ x.creating = desk.creating /\ x.pending = desk.pending \ {m}
          /\ x.last = desk.last /\ x.shared = m /\ x.inTurn = desk.inTurn
      BY <3>2, <3>3, InvalidatedKeeps
    <3>5. TurnsOK(x)
      BY <1>0, <2>0, <2>4, <3>4 DEF TurnsOK
    <3>6. NewOK(x)
      BY <1>0, <2>0, <3>4 DEF NewOK
    <3>7. StaffOK(x)
      BY <1>0, <3>4, <3>5, <3>6, NothingRead DEF StaffOK
    <3> QED
      BY <2>2, <2>4, <3>1, <3>3, <3>7, StaffTurns
  <2>5. CASE reply[m] # "ok"
    <3>1. TurnsOK(d)
      BY <1>0, <2>0, <2>3 DEF TurnsOK
    <3>2. NewOK(d)
      BY <1>0, <2>0, <2>3 DEF NewOK
    <3>3. StaffOK(d)
      BY <1>0, <2>3, <3>1, <3>2 DEF StaffOK
    <3> QED
      BY <2>2, <2>5, <3>3, StaffTurns
  <2> QED
    BY <2>4, <2>5
<1>5. ASSUME NEW m \in Makers, SendLost(m) PROVE StaffInv'
  <2> DEFINE x == [desk EXCEPT !.pending = @ \ {m}, !.inTurn = FALSE]
  <2>1. TurnDesk(x) /\ desk.pending # {}
    BY <1>5 DEF SendLost
  <2>2. /\ x \in Desk /\ x.read = desk.read /\ x.row = desk.row /\ x.creating = desk.creating
        /\ x.inTurn = FALSE
    BY <1>0 DEF Desk
  <2> HIDE DEF x
  <2>3. StaffOK(x)
    BY <1>0, <2>1, <2>2 DEF StaffOK, NewOK, TurnsOK
  <2> QED
    BY <2>1, <2>3, StaffTurns
<1> QED
  BY <1>1, <1>2, <1>3, <1>4, <1>5

(* The server's steps.                                                     *)
LEMMA StaffServed ==
  ASSUME StaffInv, UNCHANGED pageVars,
         \/ CreateCommits(Shown) \/ QuoteExpires(Shown) \/ BreakDeadlock
         \/ \E m \in Makers : Pressed(m) /\ SendStep(m)
         \/ \E r \in Taps : TapStep(r)
         \/ UNCHANGED vars
  PROVE  StaffInv'
<1> USE QuotesAssumption, QuotePagesAssumption
<1>0. pc \in [Requests -> {"new", "readDraft", "readSent", "resolved", "approve", "decline",
                           "missed", "approving", "viewing", "ended"}]
      /\ reply \in [Requests -> Statuses \cup {"none", "ok", "NotFound", "Conflict", "EXPIRED", "Error"}]
      /\ Makers \cap Taps = {} /\ Makers \subseteq Requests /\ Taps \subseteq Requests
      /\ link \in [Makers -> {"none", "active", "revoked", "expired"}]
  BY DEF StaffInv, PInv, QInv, TypeOK, LinkTypeOK, Requests
<1>1. CASE CreateCommits(Shown) \/ QuoteExpires(Shown)
  <2>1. [Next]_vars
    BY <1>1 DEF Next
  <2>2. numbering' \subseteq numbering /\ UNCHANGED <<pc, reply, met, link>>
    BY <1>1 DEF CreateCommits, QuoteExpires, linkVars
  <2> QED
    BY <2>1, <2>2, StaffSeesNothing
<1>2. ASSUME NEW m \in Makers, Pressed(m), SendStep(m) PROVE StaffInv'
  <2>1. [Next]_vars
    BY <1>2 DEF Next
  <2>2. numbering' = numbering /\ pc[m] # "ended"
    BY <1>2, <1>0 DEF SendStep, SendReads, SendRefused, SendLinks, SendCommits, InSend, quoteVars,
                      StaffInv, PInv, QInv, LinksOK, Publish
  <2>3. \A n \in Makers \ {m} : pc'[n] = pc[n] /\ reply'[n] = reply[n]
    BY <1>2, <1>0 DEF SendStep, SendReads, SendRefused, SendLinks, SendCommits, Goto, End
  <2>4. met' = met \/ (pc[m] = "new" /\ Sending(Shown) # {})
    BY <1>2 DEF SendStep, SendReads, SendRefused, SendLinks, SendCommits
  <2>5. reply'[m] = "ok" => link'[m] = "active"
    <3>1. reply[m] # "ok"
      BY <2>2 DEF StaffInv, PInv, QInv, SentOK
    <3>2. CASE SendCommits(m)
      <4>1. m \notin targets[m]
        BY <2>2 DEF StaffInv, PInv, LinksEnded
      <4> QED
        BY <3>2, <4>1 DEF SendCommits, Publish
    <3>3. CASE ~SendCommits(m)
      BY <1>0, <1>2, <3>1, <3>3 DEF SendStep, SendReads, SendRefused, SendLinks, End
    <3> QED
      BY <3>2, <3>3
  <2> QED
    BY <1>2, <2>1, <2>2, <2>3, <2>4, <2>5, StaffSends
<1>3. ASSUME NEW r \in Taps, TapStep(r) PROVE StaffInv'
  <2>1. [Next]_vars
    BY <1>3 DEF Next
  <2>2. UNCHANGED <<numbering, met, link>>
    BY <1>3 DEF TapStep, TapResolves, TapBegins, TapOpens, ApproveUpdates, ApproveMisses,
                ApproveCommits, Decline, TapViews, quoteVars, linkVars
  <2>3. QInv
    BY DEF StaffInv, PInv
  <2>4. \A m \in Makers : pc'[m] = pc[m] /\ reply'[m] = reply[m]
    BY <1>0, <1>3, <2>3, TapLeavesOthers
  <2> QED
    BY <2>1, <2>2, <2>4, StaffSeesNothing
<1>4. CASE BreakDeadlock
  <2>1. PICK m \in Makers, r \in Taps : Deadlocked(m, r) /\ (Rollback(m) \/ Rollback(r))
    BY <1>4 DEF BreakDeadlock
  <2>2. [Next]_vars
    BY <1>4 DEF Next
  <2>3. UNCHANGED <<numbering, met, link>> /\ pc[m] = "readDraft"
    BY <2>1, <1>0 DEF Rollback, Withdraw, quoteVars, linkVars, Deadlocked
  <2>4. CASE Rollback(r)
    <3>1. \A n \in Makers : pc'[n] = pc[n] /\ reply'[n] = reply[n]
      BY <1>0, <2>4 DEF Rollback, End, Goto
    <3> QED
      BY <2>2, <2>3, <3>1, StaffSeesNothing
  <2>5. CASE Rollback(m)
    <3>1. /\ \A n \in Makers \ {m} : pc'[n] = pc[n] /\ reply'[n] = reply[n]
          /\ reply'[m] # "ok"
      BY <1>0, <2>5 DEF Rollback, End, Goto
    <3>2. Pressed(m)
      BY <2>3 DEF Pressed
    <3> QED
      BY <2>2, <2>3, <3>1, <3>2, StaffSends
  <2> QED
    BY <2>1, <2>4, <2>5
<1>5. CASE UNCHANGED vars
  <2>1. UNCHANGED <<numbering, pc, reply, met, link>>
    BY <1>5 DEF vars, quoteVars, linkVars
  <2> QED
    BY <1>5, <2>1, StaffSeesNothing
<1> QED
  BY <1>1, <1>2, <1>3, <1>4, <1>5

LEMMA StaffStep == StaffInv /\ [StaffNext]_<<vars, pageVars>> => StaffInv'
<1> SUFFICES ASSUME StaffInv, [StaffNext]_<<vars, pageVars>> PROVE StaffInv'
  OBVIOUS
<1>1. ASSUME NEW r \in Taps, TapActs(r) PROVE StaffInv'
  BY <1>1, StaffServed DEF TapActs, TapStep
<1>2. CASE Serve({m \in Makers : Pressed(m)}, {Sendings[1]})
  <2>1. ASSUME NEW r \in {Sendings[1]}, NextTap(r), TapResolves(r) PROVE \E t \in Taps : TapStep(t)
    <3>1. r \in Taps
      BY <2>1, QuotePagesAssumption DEF NextTap
    <3> QED
      BY <2>1, <3>1 DEF TapStep
  <2>2. ASSUME NEW r \in Taps,
               ApproveUpdates(r) \/ ApproveMisses(r) \/ ApproveCommits(r) \/ Decline(r) \/ TapViews(r)
        PROVE  \E t \in Taps : TapStep(t)
    BY <2>2 DEF TapStep
  <2> QED
    BY <1>2, <2>1, <2>2, StaffServed DEF Serve
<1>3. CASE UNCHANGED <<vars, pageVars>>
  BY <1>3, StaffServed DEF vars, pageVars
<1> QED
  BY <1>1, <1>2, <1>3, DeskQueryKeeps, DeskCreatesKeeps, DeskSendsKeeps DEF StaffNext

-----------------------------------------------------------------------------
LEMMA PagesStart == QuotePagesInit => CustomerInv /\ StaffInv
<1> SUFFICES ASSUME QuotePagesInit PROVE CustomerInv /\ StaffInv
  OBVIOUS
<1> USE QuotesAssumption, QuotePagesAssumption DEF QuotePagesInit, PagesInit
<1>1. PInv
  BY PStart
<1>2. DeedsOK /\ DeskAtRest
  BY DEF DeedsOK, DeskAtRest, Desk
<1>3. CustomerOK(quotePage)
  BY DEF CustomerOK, ReadOK, Answered, Page
<1>4. CustomerAtRest
  BY DEF CustomerAtRest, Page
<1>5. desk \in Desk /\ NewOK(desk) /\ TurnsOK(desk)
  BY DEF Desk, NewOK, TurnsOK, Init, Requests
<1>6. StaffOK(desk)
  BY <1>5 DEF StaffOK, ReadOK, Answered
<1> QED
  BY <1>1, <1>2, <1>3, <1>4, <1>6 DEF CustomerInv, StaffInv

(* The invariants are more than the property.                              *)
LEMMA PagesSuffice == CustomerInv \/ StaffInv => QuotePagesAreTrue
<1>1. ASSUME CustomerInv PROVE QuotePagesAreTrue
  <2>1. \A r \in tasks : deed[r] \in {"none", "approve"}
    BY <1>1 DEF CustomerInv, DeedsOK, PInv, QInv, TypeOK
  <2> QED
    BY <1>1, <2>1 DEF CustomerInv, CustomerOK, DeskAtRest, ReadOK, NoAnswer, QuotePagesAreTrue,
                      CustomerReadsTruth, StaffReadTruth, Answered
<1>2. ASSUME StaffInv PROVE QuotePagesAreTrue
  <2>1. \A r \in tasks : deed[r] \in {"none", "approve"}
    BY <1>2 DEF StaffInv, CustomerAtRest, PInv, QInv, TypeOK
  <2>2. CustomerReadsTruth
    BY <1>2, <2>1 DEF StaffInv, CustomerAtRest, CustomerReadsTruth, Answered
  <2>3. StaffReadTruth
    BY <1>2 DEF StaffInv, StaffOK, TurnsOK, ReadOK, StaffReadTruth
  <2> QED
    BY <1>2, <2>2, <2>3 DEF StaffInv, StaffOK, CustomerAtRest, QuotePagesAreTrue
<1> QED
  BY <1>1, <1>2

(* For any sends and requests, however reads, requests and lost answers    *)
(* overtake each other: the customer's page says only what is so, and no   *)
(* task is made for who did not press "approve"; the page of staff says    *)
(* what is so, sends once at a time and shows a link that works, if it     *)
(* awaited the answer to all it asked for.                                 *)
THEOREM QuotePagesTrue == (CustomerSpec => []QuotePagesAreTrue) /\ (StaffSpec => []QuotePagesAreTrue)
<1>1. CustomerSpec => []QuotePagesAreTrue
  BY PagesStart, CustomerStep, PagesSuffice, PTL DEF CustomerSpec
<1>2. StaffSpec => []QuotePagesAreTrue
  BY PagesStart, StaffStep, PagesSuffice, PTL DEF StaffSpec
<1> QED
  BY <1>1, <1>2

-----------------------------------------------------------------------------
(* Day: induction, recursion, and the places of a finite order. *)

LEMMA Induction ==
  ASSUME NEW S, 0 \in S, \A n \in Nat : n \in S => n + 1 \in S
  PROVE  Nat \subseteq S
<1> DEFINE T == Nat \ S
           R == OpToRel(<, Nat)
<1>1. SUFFICES ASSUME T # {} PROVE FALSE
  OBVIOUS
<1>2. IsWellFoundedOn(R, Nat)
  BY NatLessThanWellFounded
<1>3. PICK x \in T : \A y \in T : ~(<<y, x>> \in R)
  <2>1. T \subseteq Nat
    OBVIOUS
  <2> HIDE DEF R, T
  <2> QED  BY <1>1, <1>2, <2>1, WFMin
<1>4. x # 0 /\ x \in Nat
  BY <1>3
<1>5. x - 1 \in Nat /\ x - 1 < x /\ x = (x - 1) + 1
  BY <1>4
<1>6. x - 1 \in T
  BY <1>5, <1>3
<1>7. <<x - 1, x>> \in R
  BY <1>5, <1>4 DEF OpToRel
<1> QED  BY <1>3, <1>6, <1>7

(* f is computed from b in N steps. *)
Computes(f, N, T, b, step) ==
  /\ f \in [0..N -> T] /\ f[0] = b
  /\ \A n \in 1..N : f[n] = step[<<n, f[n - 1]>>]

(* A recursion over 0..N has a solution. *)
LEMMA Recursion ==
  ASSUME NEW N \in Nat, NEW T, NEW b \in T, NEW step \in [(1..N) \X T -> T]
  PROVE  \E f : Computes(f, N, T, b, step)
<1> DEFINE Good(f, m) == f[0] = b /\ \A n \in 1..m : f[n] = step[<<n, f[n - 1]>>]
           S == {m \in Nat : m \in 0..N => \E f \in [0..m -> T] : Good(f, m)}
<1>1. 0 \in S
  <2>1. [n \in 0..0 |-> b] \in [0..0 -> T] /\ Good([n \in 0..0 |-> b], 0)
    OBVIOUS
  <2> QED  BY <2>1
<1>2. ASSUME NEW m \in Nat, m \in S PROVE m + 1 \in S
  <2>1. SUFFICES ASSUME m + 1 \in 0..N
                 PROVE  \E f \in [0..(m + 1) -> T] : Good(f, m + 1)
    OBVIOUS
  <2>2. m \in 0..N
    BY <2>1
  <2>3. PICK f \in [0..m -> T] : Good(f, m)
    BY <1>2, <2>2
  <2> DEFINE v == step[<<m + 1, f[m]>>]
             g == [n \in 0..(m + 1) |-> IF n = m + 1 THEN v ELSE f[n]]
  <2>4. v \in T
    BY <2>1, <2>3
  <2>5. g \in [0..(m + 1) -> T]
    <3> HIDE DEF v
    <3>1. \A n \in 0..(m + 1) : n = m + 1 \/ n \in 0..m
      OBVIOUS
    <3> QED  BY <2>3, <2>4, <3>1
  <2>6. g[0] = b
    BY <2>3
  <2>7. ASSUME NEW n \in 1..(m + 1) PROVE g[n] = step[<<n, g[n - 1]>>]
    <3>1. CASE n = m + 1
      <4>1. n - 1 = m /\ n \in 0..(m + 1) /\ n - 1 \in 0..(m + 1) /\ m # m + 1 /\ n - 1 # m + 1
        BY <3>1
      <4>2. g[n] = v
        BY <4>1, <3>1
      <4>3. g[n - 1] = f[m]
        BY <4>1, <3>1
      <4> QED  BY <4>2, <4>3, <3>1
    <3>2. CASE n # m + 1
      <4>1. n \in 1..m /\ n - 1 \in 0..m /\ n - 1 # m + 1 /\ n \in 0..(m + 1) /\ n - 1 \in 0..(m + 1)
        BY <3>2
      <4>2. g[n] = f[n]
        BY <4>1, <3>2
      <4>3. g[n - 1] = f[n - 1]
        BY <4>1, <3>2
      <4> QED  BY <4>2, <4>3, <2>3, <4>1
    <3> QED  BY <3>1, <3>2
  <2>8. Good(g, m + 1)
    <3> HIDE DEF g
    <3> QED  BY <2>6, <2>7
  <2> HIDE DEF g, Good
  <2> QED  BY <2>5, <2>8
<1>3. Nat \subseteq S
  <2> HIDE DEF S
  <2> QED  BY <1>1, <1>2, Induction
<1>4. N \in S
  BY <1>3
<1>5. PICK f \in [0..N -> T] : Good(f, N)
  BY <1>4
<1> QED  BY <1>5 DEF Computes

LEMMA SetInduction ==
  ASSUME NEW S, IsFiniteSet(S), NEW P, {} \in P,
         \A s \in SUBSET S : \A x \in S \ s : s \in P => s \cup {x} \in P
  PROVE  S \in P
<1> DEFINE N == {n \in Nat : \A s \in SUBSET S : Cardinality(s) = n => s \in P}
<1>1. \A s \in SUBSET S : IsFiniteSet(s) /\ Cardinality(s) \in Nat
  BY FS_Subset, FS_CardinalityType
<1>2. 0 \in N
  BY <1>1, FS_EmptySet
<1>3. ASSUME NEW n \in Nat, n \in N PROVE n + 1 \in N
  <2> SUFFICES ASSUME NEW s \in SUBSET S, Cardinality(s) = n + 1 PROVE s \in P
    OBVIOUS
  <2>0. n + 1 # 0 /\ (n + 1) - 1 = n /\ IsFiniteSet(s)
    BY <1>1
  <2>1. s # {}
    BY <2>0, FS_EmptySet
  <2>2. PICK x \in s : TRUE
    BY <2>1
  <2>3. Cardinality(s \ {x}) = n
    <3> HIDE DEF N
    <3> QED  BY <2>0, <2>2, FS_RemoveElement
  <2>4. s \ {x} \in P /\ x \in S \ (s \ {x}) /\ (s \ {x}) \cup {x} = s /\ s \ {x} \in SUBSET S
    BY <2>3, <1>3, <2>2
  <2> HIDE DEF N
  <2> QED  BY <2>4
<1>4. Nat \subseteq N
  <2> HIDE DEF N
  <2> QED  BY <1>2, <1>3, Induction
<1> QED  BY <1>1, <1>4

(* R orders S: strictly, and any two of them. *)
Ordered(R, S) ==
  /\ \A v \in S : <<v, v>> \notin R
  /\ \A u, v, w \in S : <<u, v>> \in R /\ <<v, w>> \in R => <<u, w>> \in R
  /\ \A v, w \in S : v # w => <<v, w>> \in R \/ <<w, v>> \in R

(* A finite set has a first member. *)
LEMMA FirstOfOrder ==
  ASSUME NEW S, IsFiniteSet(S), S # {}, NEW R, Ordered(R, S)
  PROVE  \E v \in S : \A w \in S : <<w, v>> \notin R
<1> DEFINE P == {s \in SUBSET S : s = {} \/ \E v \in s : \A w \in s : <<w, v>> \notin R}
<1>1. {} \in P
  OBVIOUS
<1>2. ASSUME NEW s \in SUBSET S, NEW x \in S \ s, s \in P PROVE s \cup {x} \in P
  <2>1. CASE s = {}
    <3>1. \A w \in s \cup {x} : <<w, x>> \notin R
      BY <2>1 DEF Ordered
    <3> QED  BY <3>1
  <2>2. CASE s # {}
    <3>1. PICK m \in s : \A w \in s : <<w, m>> \notin R
      BY <1>2, <2>2
    <3>2. CASE <<x, m>> \in R
      <4>1. \A w \in s \cup {x} : <<w, x>> \notin R
        BY <3>1, <3>2 DEF Ordered
      <4> QED  BY <4>1
    <3>3. CASE <<x, m>> \notin R
      BY <3>1, <3>3
    <3> QED  BY <3>2, <3>3
  <2> QED  BY <2>1, <2>2
<1>3. S \in P
  <2> HIDE DEF P
  <2> QED  BY <1>1, <1>2, SetInduction
<1> QED  BY <1>3

(* The place of v in the order, from 0. *)
Rank(R, S, v) == Cardinality({w \in S : <<w, v>> \in R})

LEMMA RankIsPlace ==
  ASSUME NEW S, IsFiniteSet(S), NEW R, Ordered(R, S)
  PROVE  /\ Cardinality(S) \in Nat
         /\ \A v \in S : Rank(R, S, v) \in Nat /\ Rank(R, S, v) < Cardinality(S)
         /\ \A v, w \in S : <<v, w>> \in R => Rank(R, S, v) < Rank(R, S, w)
         /\ \A v, w \in S : Rank(R, S, v) = Rank(R, S, w) => v = w
         /\ \A k \in 1..Cardinality(S) : \E v \in S : Rank(R, S, v) = k - 1
<1> DEFINE B(v) == {w \in S : <<w, v>> \in R}
           N == Cardinality(S)
           f == [v \in S |-> Rank(R, S, v) + 1]
<1>1. N \in Nat
  BY FS_CardinalityType
<1>2. \A T \in SUBSET S : IsFiniteSet(T) /\ Cardinality(T) \in Nat /\ Cardinality(T) <= N /\ (Cardinality(T) = N => T = S)
  BY FS_Subset, FS_CardinalityType
<1>3. ASSUME NEW v \in S PROVE Rank(R, S, v) \in Nat /\ Rank(R, S, v) < N
  <2>1. B(v) \in SUBSET S /\ B(v) # S
    BY DEF Ordered
  <2>2. Rank(R, S, v) = Cardinality(B(v))
    BY DEF Rank
  <2> HIDE DEF B, N
  <2>3. Cardinality(B(v)) \in Nat /\ Cardinality(B(v)) <= N /\ Cardinality(B(v)) # N
    BY <1>2, <2>1
  <2> QED  BY <1>1, <2>2, <2>3
<1>4. ASSUME NEW v \in S, NEW w \in S, <<v, w>> \in R PROVE Rank(R, S, v) < Rank(R, S, w)
  <2>1. B(v) \in SUBSET B(w) /\ B(v) # B(w) /\ B(w) \in SUBSET S
    BY <1>4 DEF Ordered
  <2>2. Rank(R, S, v) = Cardinality(B(v)) /\ Rank(R, S, w) = Cardinality(B(w))
    BY DEF Rank
  <2> HIDE DEF B, N
  <2>3. IsFiniteSet(B(w))
    BY <1>2, <2>1
  <2>4. Cardinality(B(v)) <= Cardinality(B(w)) /\ Cardinality(B(v)) # Cardinality(B(w))
    BY <2>1, <2>3, FS_Subset
  <2>5. Rank(R, S, v) \in Nat /\ Rank(R, S, w) \in Nat
    BY <1>3
  <2> QED  BY <2>2, <2>4, <2>5
<1>5. ASSUME NEW v \in S, NEW w \in S, Rank(R, S, v) = Rank(R, S, w) PROVE v = w
  <2>1. Rank(R, S, v) \in Nat /\ Rank(R, S, w) \in Nat
    BY <1>3
  <2>2. <<v, w>> \notin R /\ <<w, v>> \notin R
    BY <1>4, <1>5, <2>1
  <2> QED  BY <2>2 DEF Ordered
<1>6. \A k \in 1..N : \E v \in S : Rank(R, S, v) = k - 1
  <2>1. f \in [S -> 1..N]
    <3> SUFFICES ASSUME NEW v \in S PROVE Rank(R, S, v) + 1 \in 1..N
      OBVIOUS
    <3> HIDE DEF N
    <3> QED  BY <1>1, <1>3
  <2>2. f \in Injection(S, 1..N)
    <3> SUFFICES ASSUME NEW v \in S, NEW w \in S, f[v] = f[w] PROVE v = w
      BY <2>1 DEF Injection, IsInjective
    <3>1. Rank(R, S, v) + 1 = Rank(R, S, w) + 1 /\ Rank(R, S, v) \in Nat /\ Rank(R, S, w) \in Nat
      BY <1>3
    <3> QED  BY <1>5, <3>1
  <2>3. IsFiniteSet(1..N) /\ Cardinality(1..N) = N
    BY <1>1, FS_Interval
  <2>4. f \in Surjection(S, 1..N)
    <3> HIDE DEF f
    <3> QED  BY <2>2, <2>3, FS_Injection
  <2> SUFFICES ASSUME NEW k \in 1..N PROVE \E v \in S : Rank(R, S, v) = k - 1
    OBVIOUS
  <2>5. PICK v \in S : f[v] = k
    BY <2>4 DEF Surjection
  <2>6. Rank(R, S, v) + 1 = k /\ Rank(R, S, v) \in Nat
    BY <2>5, <1>3
  <2> QED  BY <1>1, <2>6
<1> HIDE DEF N
<1> QED  BY <1>1, <1>3, <1>4, <1>5, <1>6 DEF N

-----------------------------------------------------------------------------
(* The order of the visits, and the tour from one nearest neighbour to the
   next: it is all of the pool, each once. *)

(* The order of the visits as a relation. *)
Order == {p \in Visits \X Visits : Earlier(p[1], p[2])}

LEMMA EarlierIs ==
  ASSUME DayTypeOK, NEW v \in Visits, NEW w \in Visits
  PROVE  /\ Earlier(v, w) <=>
              \/ stop[v].when # Unknown /\ (stop[w].when = Unknown \/ stop[v].when < stop[w].when)
              \/ /\ stop[v].when = stop[w].when
                 /\ Priority[v] < Priority[w] \/ (Priority[v] = Priority[w] /\ v < w)
         /\ stop[v].when # Unknown => stop[v].when \in Nat
         /\ Priority[v] \in Nat /\ v \in Nat
<1>1. stop[v].when \in Nat \cup {Unknown} /\ stop[w].when \in Nat \cup {Unknown}
  BY DEF DayTypeOK, Stop
<1>2. Priority[v] \in Nat /\ Priority[w] \in Nat /\ v \in Nat /\ w \in Nat
  BY DayAssumption
<1>3. stop[v].when # Unknown => stop[v].when \in Nat
  BY <1>1
<1> QED  BY <1>2, <1>3 DEF Earlier

LEMMA OrderOrders ==
  ASSUME DayTypeOK
  PROVE  /\ \A v, w \in Visits : <<v, w>> \in Order <=> Earlier(v, w)
         /\ \A S \in SUBSET Visits : Ordered(Order, S) /\ IsFiniteSet(S)
<1>1. \A v, w \in Visits : <<v, w>> \in Order <=> Earlier(v, w)
  BY DEF Order
<1>2. \A v \in Visits : ~Earlier(v, v)
  BY EarlierIs
<1>3. ASSUME NEW u \in Visits, NEW v \in Visits, NEW w \in Visits, Earlier(u, v), Earlier(v, w)
      PROVE  Earlier(u, w)
  BY <1>3, EarlierIs
<1>4. ASSUME NEW v \in Visits, NEW w \in Visits, v # w PROVE Earlier(v, w) \/ Earlier(w, v)
  BY <1>4, EarlierIs
<1>5. ASSUME NEW S \in SUBSET Visits PROVE Ordered(Order, S) /\ IsFiniteSet(S)
  BY <1>1, <1>2, <1>3, <1>4, FS_Subset, DayAssumption DEF Ordered
<1> QED  BY <1>1, <1>5

(* What is in order is all of the set, each once, the earlier first. *)
LEMMA InOrderIs ==
  ASSUME DayTypeOK, NEW S \in SUBSET Visits
  PROVE  /\ IsFiniteSet(S) /\ Cardinality(S) \in Nat
         /\ InOrder(S) \in [1..Cardinality(S) -> S]
         /\ \A i, j \in 1..Cardinality(S) : i < j => Earlier(InOrder(S)[i], InOrder(S)[j])
         /\ \A v \in S : \E i \in 1..Cardinality(S) : InOrder(S)[i] = v
<1> DEFINE N == Cardinality(S)
<1>1. Ordered(Order, S) /\ IsFiniteSet(S)
  BY OrderOrders
<1>2. \A v \in S : Cardinality({w \in S : Earlier(w, v)}) = Rank(Order, S, v)
  <2> SUFFICES ASSUME NEW v \in S PROVE Cardinality({w \in S : Earlier(w, v)}) = Rank(Order, S, v)
    OBVIOUS
  <2>1. {w \in S : Earlier(w, v)} = {w \in S : <<w, v>> \in Order}
    BY OrderOrders
  <2> QED  BY <2>1 DEF Rank
<1>3. /\ N \in Nat
      /\ \A v \in S : Rank(Order, S, v) \in Nat /\ Rank(Order, S, v) < N
      /\ \A v, w \in S : <<v, w>> \in Order => Rank(Order, S, v) < Rank(Order, S, w)
      /\ \A v, w \in S : Rank(Order, S, v) = Rank(Order, S, w) => v = w
      /\ \A k \in 1..N : \E v \in S : Rank(Order, S, v) = k - 1
  BY <1>1, RankIsPlace
<1>4. InOrder(S) = [k \in 1..N |-> CHOOSE v \in S : Cardinality({w \in S : Earlier(w, v)}) = k - 1]
  BY DEF InOrder
<1>5. ASSUME NEW k \in 1..N PROVE InOrder(S)[k] \in S /\ Rank(Order, S, InOrder(S)[k]) = k - 1
  <2>1. PICK v \in S : Rank(Order, S, v) = k - 1
    BY <1>3
  <2>2. Cardinality({w \in S : Earlier(w, v)}) = k - 1
    BY <2>1, <1>2
  <2>3. InOrder(S)[k] = CHOOSE u \in S : Cardinality({w \in S : Earlier(w, u)}) = k - 1
    BY <1>4
  <2>4. InOrder(S)[k] \in S /\ Cardinality({w \in S : Earlier(w, InOrder(S)[k])}) = k - 1
    BY <2>2, <2>3
  <2> QED  BY <2>4, <1>2
<1> HIDE DEF N
<1>6. ASSUME NEW i \in 1..N, NEW j \in 1..N, i < j PROVE Earlier(InOrder(S)[i], InOrder(S)[j])
  <2> DEFINE a == InOrder(S)[i]
             b == InOrder(S)[j]
  <2>1. a \in S /\ b \in S /\ Rank(Order, S, a) = i - 1 /\ Rank(Order, S, b) = j - 1
    BY <1>5
  <2> HIDE DEF a, b
  <2>2. a # b /\ <<b, a>> \notin Order
    BY <2>1, <1>3, <1>6
  <2>3. <<a, b>> \in Order
    BY <2>1, <2>2, <1>1 DEF Ordered
  <2>4. Earlier(a, b)
    BY <2>1, <2>3, OrderOrders
  <2> QED  BY <2>4 DEF a, b
<1>7. ASSUME NEW v \in S PROVE \E i \in 1..N : InOrder(S)[i] = v
  <2>1. Rank(Order, S, v) + 1 \in 1..N /\ (Rank(Order, S, v) + 1) - 1 = Rank(Order, S, v)
    BY <1>3
  <2>2. InOrder(S)[Rank(Order, S, v) + 1] \in S
    BY <2>1, <1>5
  <2>3. Rank(Order, S, InOrder(S)[Rank(Order, S, v) + 1]) = Rank(Order, S, v)
    BY <2>1, <1>5
  <2>4. InOrder(S)[Rank(Order, S, v) + 1] = v
    BY <2>2, <2>3, <1>3
  <2> QED  BY <2>1, <2>4
<1>8. InOrder(S) \in [1..N -> S]
  BY <1>4, <1>5 DEF N
<1> QED  BY <1>1, <1>3, <1>6, <1>7, <1>8 DEF N

LEMMA WhereIs ==
  ASSUME DayTypeOK, NEW v \in Visits
  PROVE  Where(v) \in Places \cup {Unknown} /\ (Located(v) => Where(v) \in Places /\ Where(v) \in Int)
<1>1. stop[v].own \in Places \cup {Unknown} /\ stop[v].site \in Sites
  BY DEF DayTypeOK, Stop
<1>2. place[stop[v].site] \in Places \cup {Unknown}
  BY <1>1 DEF DayTypeOK
<1> QED  BY <1>1, <1>2, DayAssumption DEF Where, Located

(* The order by the distance to a place. *)
NearOrder(here) == {p \in Visits \X Visits : Nearer(p[1], p[2], here)}

LEMMA NearOrders ==
  ASSUME DayTypeOK, NEW here \in Places \cup {Unknown}, NEW S \in SUBSET {v \in Visits : Located(v)}
  PROVE  Ordered(NearOrder(here), S)
<1>1. \A v, w \in Visits : <<v, w>> \in NearOrder(here) <=> Nearer(v, w, here)
  BY DEF NearOrder
<1>2. Ordered(Order, S) /\ \A v, w \in S : <<v, w>> \in Order <=> Earlier(v, w)
  BY OrderOrders
<1>3. CASE here = Unknown
  <2>1. \A v, w \in S : <<v, w>> \in NearOrder(here) <=> <<v, w>> \in Order
    BY <1>1, <1>2, <1>3 DEF Nearer
  <2> QED  BY <2>1, <1>2 DEF Ordered
<1>4. CASE here # Unknown
  <2> DEFINE d(v) == Far(here, Where(v))
  <2>1. \A v \in S : d(v) \in Int
    <3>1. here \in Int
      BY <1>4, DayAssumption
    <3> QED  BY <3>1, WhereIs DEF Far
  <2>2. \A v, w \in S : Nearer(v, w, here) <=> IF d(v) = d(w) THEN Earlier(v, w) ELSE d(v) < d(w)
    BY <1>4 DEF Nearer
  <2> HIDE DEF d
  <2>3. \A v, w \in S : <<v, w>> \in NearOrder(here) <=> (d(v) < d(w) \/ (d(v) = d(w) /\ <<v, w>> \in Order))
    <3> SUFFICES ASSUME NEW v \in S, NEW w \in S
                 PROVE  <<v, w>> \in NearOrder(here) <=> (d(v) < d(w) \/ (d(v) = d(w) /\ <<v, w>> \in Order))
      OBVIOUS
    <3>1. <<v, w>> \in NearOrder(here) <=> Nearer(v, w, here)
      BY <1>1
    <3>2. <<v, w>> \in Order <=> Earlier(v, w)
      BY <1>2
    <3>3. d(v) \in Int /\ d(w) \in Int
      BY <2>1
    <3>4. CASE d(v) = d(w)
      <4>1. Nearer(v, w, here) <=> Earlier(v, w)
        BY <2>2, <3>4
      <4> QED  BY <3>1, <3>2, <3>3, <3>4, <4>1
    <3>5. CASE d(v) # d(w)
      <4>1. Nearer(v, w, here) <=> d(v) < d(w)
        BY <2>2, <3>5
      <4> QED  BY <3>1, <3>3, <3>5, <4>1
    <3> QED  BY <3>4, <3>5
  <2> QED  BY <1>2, <2>1, <2>3 DEF Ordered
<1> QED  BY <1>3, <1>4

LEMMA NearestIs ==
  ASSUME DayTypeOK, NEW here \in Places \cup {Unknown}, NEW S \in SUBSET {v \in Visits : Located(v)}, S # {}
  PROVE  /\ Nearest(S, here) \in S
         /\ here # Unknown => \A w \in S : Far(here, Where(Nearest(S, here))) <= Far(here, Where(w))
<1>1. IsFiniteSet(S) /\ Ordered(NearOrder(here), S)
  BY NearOrders, OrderOrders
<1>2. PICK v \in S : \A w \in S : <<w, v>> \notin NearOrder(here)
  BY <1>1, FirstOfOrder
<1>3. \A w \in S : ~Nearer(w, v, here)
  BY <1>2 DEF NearOrder
<1> DEFINE n == Nearest(S, here)
<1>4. n \in S /\ \A w \in S : ~Nearer(w, n, here)
  BY <1>3 DEF Nearest
<1> HIDE DEF n
<1>5. ASSUME here # Unknown, NEW w \in S PROVE Far(here, Where(n)) <= Far(here, Where(w))
  <2>1. here \in Int /\ Where(n) \in Int /\ Where(w) \in Int
    BY <1>4, <1>5, WhereIs, DayAssumption
  <2>2. Far(here, Where(n)) \in Int /\ Far(here, Where(w)) \in Int
    BY <2>1 DEF Far
  <2> QED  BY <1>4, <1>5, <2>2 DEF Nearer
<1> QED  BY <1>4, <1>5 DEF n

(* t visits members of P, each once, from one nearest neighbour to the next. *)
After(t, here, i) == IF i = 1 THEN here ELSE Where(t[i - 1])
Left(P, t, i) == P \ {t[k] : k \in 1..(i - 1)}
Travels(t, P, here, n) ==
  /\ t \in Seq(P) /\ Len(t) = n
  /\ \A i, j \in 1..n : t[i] = t[j] => i = j
  /\ \A i \in 1..n : t[i] = Nearest(Left(P, t, i), After(t, here, i)) /\ Left(P, t, i) # {}

Further(t, P, here) ==
  Append(t, Nearest(P \ Range(t), IF Len(t) = 0 THEN here ELSE Where(t[Len(t)])))

LEMMA TravelsOn ==
  ASSUME DayTypeOK, NEW P \in SUBSET {v \in Visits : Located(v)}, NEW here \in Places \cup {Unknown},
         NEW n \in Nat, n < Cardinality(P), NEW t, Travels(t, P, here, n)
  PROVE  Travels(Further(t, P, here), P, here, n + 1)
<1> DEFINE h == IF Len(t) = 0 THEN here ELSE Where(t[Len(t)])
           R == Range(t)
           x == Nearest(P \ R, h)
           u == Append(t, x)
<1>1. IsFiniteSet(P) /\ Cardinality(P) \in Nat
  BY OrderOrders, FS_CardinalityType
<1>2. t \in [1..n -> P] /\ Len(t) = n /\ R = {t[k] : k \in 1..n} /\ R \in SUBSET P
  BY DEF Travels, Range
<1>3. P \ R # {}
  <2>1. ~(t \in Surjection(1..n, P))
    <3> SUFFICES ASSUME t \in Surjection(1..n, P) PROVE FALSE
      OBVIOUS
    <3>1. IsFiniteSet(1..n) /\ Cardinality(1..n) = n
      BY FS_Interval
    <3>2. Cardinality(P) <= Cardinality(1..n)
      BY <3>1, FS_Surjection
    <3> QED  BY <3>1, <3>2, <1>1
  <2> QED  BY <2>1, <1>2 DEF Surjection
<1>4. h \in Places \cup {Unknown}
  <2>1. CASE n = 0
    BY <2>1, <1>2
  <2>2. CASE n # 0
    <3>1. t[n] \in P
      BY <2>2, <1>2
    <3> QED  BY <2>2, <1>2, <3>1, WhereIs
  <2> QED  BY <2>1, <2>2
<1>5. x \in P \ R
  <2> HIDE DEF h, R
  <2> QED  BY <1>3, <1>4, NearestIs
<1> HIDE DEF x
<1>6. /\ u \in Seq(P) /\ Len(u) = n + 1 /\ u[n + 1] = x
      /\ \A i \in 1..n : u[i] = t[i]
  BY <1>2, <1>5 DEF Travels
<1> HIDE DEF u
<1>7. ASSUME NEW i \in 1..(n + 1), NEW j \in 1..(n + 1), u[i] = u[j] PROVE i = j
  <2>1. CASE i # n + 1 /\ j # n + 1
    <3>1. i \in 1..n /\ j \in 1..n
      BY <2>1
    <3> QED  BY <3>1, <1>6, <1>7 DEF Travels
  <2>2. CASE i = n + 1 /\ j # n + 1
    <3>1. j \in 1..n
      BY <2>2
    <3> QED  BY <3>1, <1>2, <1>5, <1>6, <1>7, <2>2
  <2>3. CASE i # n + 1 /\ j = n + 1
    <3>1. i \in 1..n
      BY <2>3
    <3> QED  BY <3>1, <1>2, <1>5, <1>6, <1>7, <2>3
  <2> QED  BY <2>1, <2>2, <2>3
<1>8. ASSUME NEW i \in 1..(n + 1)
      PROVE  u[i] = Nearest(Left(P, u, i), After(u, here, i)) /\ Left(P, u, i) # {}
  <2>1. Left(P, u, i) = Left(P, t, i)
    <3>1. \A k \in 1..(i - 1) : u[k] = t[k]
      BY <1>6
    <3> QED  BY <3>1 DEF Left
  <2>2. CASE i # n + 1
    <3>1. i \in 1..n /\ (i # 1 => i - 1 \in 1..n)
      BY <2>2
    <3>2. After(u, here, i) = After(t, here, i)
      BY <3>1, <1>6 DEF After
    <3> QED  BY <2>1, <3>1, <3>2, <1>6 DEF Travels
  <2>3. CASE i = n + 1
    <3>1. i - 1 = n
      BY <2>3
    <3>2. Left(P, t, i) = P \ R
      BY <1>2, <3>1 DEF Left
    <3>3. After(u, here, i) = h
      <4>1. CASE n = 0
        BY <4>1, <1>2, <3>1 DEF After
      <4>2. CASE n # 0
        <5>1. u[n] = t[n] /\ i # 1
          BY <4>2, <1>6, <3>1
        <5> QED  BY <5>1, <4>2, <1>2, <3>1 DEF After
      <4> QED  BY <4>1, <4>2
    <3> QED  BY <2>1, <2>3, <3>2, <3>3, <1>3, <1>6 DEF x
  <2> QED  BY <2>2, <2>3
<1>9. Further(t, P, here) = u
  BY DEF Further, u, x
<1> QED  BY <1>6, <1>7, <1>8, <1>9 DEF Travels

TourStep(P, here, n, t) ==
  Append(t, Nearest(P \ Range(t), IF n = 1 THEN here ELSE Where(t[n - 1])))
Touring(f, P, here) ==
  /\ f[0] = <<>>
  /\ \A n \in 1..Cardinality(P) :
       TourStep(P, here, n, f[n - 1]) \in Seq(P) => f[n] = TourStep(P, here, n, f[n - 1])

LEMMA TouringTravels ==
  ASSUME DayTypeOK, NEW P \in SUBSET {v \in Visits : Located(v)}, NEW here \in Places \cup {Unknown},
         NEW f, Touring(f, P, here)
  PROVE  \A n \in 0..Cardinality(P) : Travels(f[n], P, here, n)
<1> DEFINE N == Cardinality(P)
           S == {n \in Nat : n \in 0..N => Travels(f[n], P, here, n)}
<1>1. N \in Nat
  BY OrderOrders, FS_CardinalityType
<1>2. 0 \in S
  <2>1. f[0] = <<>> /\ f[0] \in Seq(P) /\ Len(f[0]) = 0
    BY DEF Touring
  <2>2. 1..0 = {}
    OBVIOUS
  <2>3. Travels(f[0], P, here, 0)
    BY <2>1, <2>2 DEF Travels
  <2> QED  BY <2>3
<1>3. ASSUME NEW n \in Nat, n \in S PROVE n + 1 \in S
  <2> SUFFICES ASSUME n + 1 \in 0..N PROVE Travels(f[n + 1], P, here, n + 1)
    OBVIOUS
  <2>1. n \in 0..N /\ n < N /\ n + 1 \in 1..N /\ (n + 1) - 1 = n
    BY <1>1
  <2>2. Travels(f[n], P, here, n)
    BY <2>1, <1>3
  <2>3. Len(f[n]) = n
    BY <2>2 DEF Travels
  <2>4. Further(f[n], P, here) = TourStep(P, here, n + 1, f[n])
    <3>1. CASE n = 0
      BY <3>1, <2>3 DEF Further, TourStep
    <3>2. CASE n # 0
      BY <3>2, <2>3, <2>1 DEF Further, TourStep
    <3> QED  BY <3>1, <3>2
  <2>5. Travels(Further(f[n], P, here), P, here, n + 1)
    <3> HIDE DEF N, S
    <3>1. n < Cardinality(P)
      BY <2>1 DEF N
    <3> QED  BY <3>1, <2>2, TravelsOn
  <2>6. TourStep(P, here, n + 1, f[n]) \in Seq(P)
    BY <2>4, <2>5 DEF Travels
  <2>7. f[n + 1] = TourStep(P, here, n + 1, f[n])
    BY <2>1, <2>6 DEF Touring
  <2> QED  BY <2>4, <2>5, <2>7
<1>4. Nat \subseteq S
  <2> HIDE DEF S
  <2> QED  BY <1>2, <1>3, Induction
<1> SUFFICES ASSUME NEW n \in 0..N PROVE Travels(f[n], P, here, n)
  OBVIOUS
<1>5. n \in S
  BY <1>4, <1>1
<1> QED  BY <1>5

LEMMA ToursTravel ==
  ASSUME DayTypeOK, NEW P \in SUBSET {v \in Visits : Located(v)}, NEW here \in Places \cup {Unknown}
  PROVE  Travels(Tour(P, here), P, here, Cardinality(P))
<1> DEFINE N == Cardinality(P)
           step == [p \in (1..N) \X Seq(P) |->
                      IF TourStep(P, here, p[1], p[2]) \in Seq(P) THEN TourStep(P, here, p[1], p[2]) ELSE <<>>]
<1>1. N \in Nat
  BY OrderOrders, FS_CardinalityType
<1>2. step \in [(1..N) \X Seq(P) -> Seq(P)] /\ <<>> \in Seq(P)
  <2>1. <<>> \in Seq(P)
    OBVIOUS
  <2> QED  BY <2>1
<1>3. \A n \in 1..N : \A t \in Seq(P) :
        TourStep(P, here, n, t) \in Seq(P) => step[<<n, t>>] = TourStep(P, here, n, t)
  OBVIOUS
<1>4. PICK f : Computes(f, N, Seq(P), <<>>, step)
  <2> HIDE DEF step, N
  <2> QED  BY <1>1, <1>2, Recursion
<1> HIDE DEF step
<1>5. f \in [0..N -> Seq(P)] /\ f[0] = <<>> /\ \A n \in 1..N : f[n] = step[<<n, f[n - 1]>>]
  BY <1>4 DEF Computes
<1>6. \A n \in 1..N : f[n - 1] \in Seq(P)
  <2> SUFFICES ASSUME NEW n \in 1..N PROVE f[n - 1] \in Seq(P)
    OBVIOUS
  <2> HIDE DEF N
  <2>1. n - 1 \in 0..N
    BY <1>1
  <2> QED  BY <2>1, <1>5
<1>7. Touring(f, P, here)
  <2> SUFFICES ASSUME NEW n \in 1..N, TourStep(P, here, n, f[n - 1]) \in Seq(P)
               PROVE  f[n] = TourStep(P, here, n, f[n - 1])
    BY <1>5 DEF Touring
  <2> QED  BY <1>3, <1>5, <1>6
<1>8. \A n \in 0..N : Travels(f[n], P, here, n)
  BY <1>7, TouringTravels
<1>9. ASSUME NEW n \in 1..N PROVE f[n] = TourStep(P, here, n, f[n - 1])
  <2> HIDE DEF N
  <2>1. n \in Nat /\ n - 1 \in Nat /\ n - 1 \in 0..N /\ n \in 0..N /\ n - 1 < N /\ (n - 1) + 1 = n
    BY <1>1
  <2>2. Travels(f[n - 1], P, here, n - 1)
    BY <2>1, <1>8
  <2>3. Travels(Further(f[n - 1], P, here), P, here, n)
    <3>1. n - 1 < Cardinality(P)
      BY <2>1 DEF N
    <3>2. Travels(Further(f[n - 1], P, here), P, here, (n - 1) + 1)
      BY <3>1, <2>1, <2>2, TravelsOn
    <3> QED  BY <3>2, <2>1
  <2>4. Further(f[n - 1], P, here) = TourStep(P, here, n, f[n - 1])
    <3>1. Len(f[n - 1]) = n - 1
      BY <2>2 DEF Travels
    <3>2. Len(f[n - 1]) = 0 <=> n = 1
      BY <3>1, <2>1
    <3> QED  BY <3>1, <3>2 DEF Further, TourStep
  <2>5. TourStep(P, here, n, f[n - 1]) \in Seq(P)
    BY <2>3, <2>4 DEF Travels
  <2> QED  BY <2>5, <1>3, <1>5, <1>6
<1> DEFINE Solves(g) == g = [n \in 0..N |-> IF n = 0 THEN <<>> ELSE TourStep(P, here, n, g[n - 1])]
<1>10. Solves(f)
  <2> DEFINE g == [n \in 0..N |-> IF n = 0 THEN <<>> ELSE TourStep(P, here, n, f[n - 1])]
  <2>1. \A n \in 0..N : f[n] = g[n]
    <3> SUFFICES ASSUME NEW n \in 0..N PROVE f[n] = g[n]
      OBVIOUS
    <3>1. CASE n = 0
      BY <3>1, <1>5
    <3>2. CASE n # 0
      <4>1. n \in 1..N
        BY <3>2
      <4> QED  BY <4>1, <3>2, <1>9
    <3> QED  BY <3>1, <3>2
  <2>2. f = g
    <3>1. g = [n \in 0..N |-> g[n]]
      OBVIOUS
    <3>2. f = [n \in 0..N |-> f[n]]
      BY <1>5
    <3> HIDE DEF g
    <3> QED  BY <2>1, <3>1, <3>2
  <2> QED  BY <2>2
<1>11. Tours(P, here) = CHOOSE g : Solves(g)
  BY DEF Tours, TourStep
<1> DEFINE T == Tours(P, here)
<1>12. Solves(T)
  <2> HIDE DEF Solves
  <2> QED  BY <1>10, <1>11
<1> HIDE DEF T
<1>13. T[0] = <<>> /\ \A n \in 1..N : T[n] = TourStep(P, here, n, T[n - 1])
  BY <1>12, <1>1
<1>14. Touring(T, P, here)
  BY <1>13 DEF Touring
<1>15. \A n \in 0..N : Travels(T[n], P, here, n)
  BY <1>14, TouringTravels
<1>16. Tour(P, here) = T[N] /\ N \in 0..N
  BY <1>1 DEF Tour, T
<1> QED  BY <1>15, <1>16

(* The tour is all of the pool. *)
LEMMA TourIs ==
  ASSUME DayTypeOK, NEW P \in SUBSET {v \in Visits : Located(v)}, NEW here \in Places \cup {Unknown}
  PROVE  /\ Tour(P, here) \in [1..Cardinality(P) -> P]
         /\ \A i, j \in 1..Cardinality(P) : Tour(P, here)[i] = Tour(P, here)[j] => i = j
         /\ \A v \in P : \E i \in 1..Cardinality(P) : Tour(P, here)[i] = v
         /\ \A i, j \in 1..Cardinality(P) : i < j /\ After(Tour(P, here), here, i) # Unknown =>
              Far(After(Tour(P, here), here, i), Where(Tour(P, here)[i]))
                <= Far(After(Tour(P, here), here, i), Where(Tour(P, here)[j]))
<1> DEFINE t == Tour(P, here)
           N == Cardinality(P)
<1>1. Travels(t, P, here, N)
  BY ToursTravel
<1>2. N \in Nat /\ IsFiniteSet(P)
  BY OrderOrders, FS_CardinalityType
<1> HIDE DEF t
<1>3. t \in [1..N -> P] /\ \A i, j \in 1..N : t[i] = t[j] => i = j
  BY <1>1 DEF Travels
<1>4. \A v \in P : \E i \in 1..N : t[i] = v
  <2>1. t \in Injection(1..N, P)
    BY <1>3 DEF Injection, IsInjective
  <2>2. Cardinality(1..N) = N
    BY <1>2, FS_Interval
  <2>3. t \in Surjection(1..N, P)
    BY <1>2, <2>1, <2>2, FS_Injection
  <2> QED  BY <2>3 DEF Surjection
<1>5. ASSUME NEW i \in 1..N, NEW j \in 1..N, i < j, After(t, here, i) # Unknown
      PROVE  Far(After(t, here, i), Where(t[i])) <= Far(After(t, here, i), Where(t[j]))
  <2> DEFINE h == After(t, here, i)
             S == Left(P, t, i)
  <2> HIDE DEF N
  <2>1. h \in Places \cup {Unknown}
    <3>1. CASE i = 1
      BY <3>1 DEF After
    <3>2. CASE i # 1
      <4>1. i - 1 \in 1..N
        BY <3>2, <1>2
      <4>2. t[i - 1] \in P
        BY <4>1, <1>3
      <4> QED  BY <4>2, <3>2, WhereIs DEF After
    <3> QED  BY <3>1, <3>2
  <2>2. t[j] \in S
    <3>1. \A k \in 1..(i - 1) : k \in 1..N /\ k # j
      BY <1>2, <1>5
    <3>2. \A k \in 1..(i - 1) : t[k] # t[j]
      BY <3>1, <1>3
    <3>3. t[j] \in P
      BY <1>3
    <3> QED  BY <3>2, <3>3 DEF Left
  <2>3. t[i] = Nearest(S, h) /\ S \in SUBSET {v \in Visits : Located(v)} /\ S # {}
    BY <1>1, <2>2 DEF Travels, Left
  <2>4. h # Unknown
    BY <1>5
  <2> HIDE DEF h, S
  <2>5. Far(h, Where(t[i])) <= Far(h, Where(t[j]))
    BY <2>1, <2>2, <2>3, <2>4, NearestIs
  <2> QED  BY <2>5 DEF h
<1> QED  BY <1>3, <1>4, <1>5 DEF t

-----------------------------------------------------------------------------
(* The stops of a day, in three parts. *)

LEMMA LastPlaceIs ==
  ASSUME DayTypeOK, NEW st \in SUBSET Visits, NEW A, A = InOrder(Fixed(st)),
         NEW a, a = Cardinality(Fixed(st)), NEW known, known = {j \in 1..a : Located(A[j])}
  PROVE  /\ LastPlace(st) \in Places \cup {Unknown}
         /\ LastPlace(st) = IF known = {} THEN home ELSE Where(A[Max(known)])
<1> DEFINE K == {v \in Fixed(st) : Located(v)}
           Latest(v) == \A w \in K : ~Earlier(v, w)
<1>1. K \in SUBSET Visits /\ Fixed(st) \in SUBSET Visits
  BY DEF Fixed
<1>2. /\ a \in Nat /\ A \in [1..a -> Fixed(st)]
      /\ \A i, j \in 1..a : i < j => Earlier(A[i], A[j])
      /\ \A v \in Fixed(st) : \E i \in 1..a : A[i] = v
  BY <1>1, InOrderIs
<1>3. LastPlace(st) = IF K = {} THEN home ELSE Where(CHOOSE v \in K : Latest(v))
  BY DEF LastPlace
<1>4. known = {} <=> K = {}
  BY <1>2
<1>5. CASE K = {}
  BY <1>3, <1>4, <1>5 DEF DayTypeOK
<1>6. CASE K # {}
  <2> DEFINE R == {p \in Visits \X Visits : <<p[2], p[1]>> \in Order}
             v == CHOOSE u \in K : Latest(u)
  <2>1. Ordered(R, K) /\ IsFiniteSet(K)
    <3>1. Ordered(Order, K) /\ IsFiniteSet(K)
      BY <1>1, OrderOrders
    <3>2. \A x, y \in K : <<x, y>> \in R <=> <<y, x>> \in Order
      BY <1>1
    <3> HIDE DEF R, K
    <3> QED  BY <3>1, <3>2 DEF Ordered
  <2>2. PICK u \in K : \A w \in K : <<w, u>> \notin R
    <3> HIDE DEF R, K
    <3> QED  BY <1>6, <2>1, FirstOfOrder
  <2>3. Latest(u)
    BY <2>2, <1>1, OrderOrders
  <2>4. v \in K /\ Latest(v)
    <3> HIDE DEF Latest
    <3> QED  BY <2>2, <2>3
  <2> HIDE DEF v
  <2>5. PICK k \in 1..a : A[k] = v
    BY <2>4, <1>2
  <2>6. k \in known
    BY <2>4, <2>5
  <2>7. \A j \in known : j \in Int /\ k >= j
    <3> SUFFICES ASSUME NEW j \in known, k < j PROVE FALSE
      BY <1>2
    <3>1. A[j] \in K /\ Earlier(A[k], A[j])
      BY <1>2
    <3> QED  BY <3>1, <2>4, <2>5
  <2>8. Max(known) = k
    <3>1. Max(known) \in known /\ \A j \in known : Max(known) >= j
      BY <2>6, <2>7 DEF Max
    <3> QED  BY <2>6, <2>7, <3>1
  <2>9. LastPlace(st) = Where(A[Max(known)])
    BY <1>3, <1>6, <2>5, <2>8 DEF v
  <2> QED  BY <2>9, <2>4, <2>5, <2>8, <1>1, <1>4, <1>6, WhereIs
<1> QED  BY <1>5, <1>6

LEMMA SeqOf ==
  ASSUME NEW X, NEW n \in Nat, NEW f \in [1..n -> X]
  PROVE  f \in Seq(X) /\ Len(f) = n
<1> QED  OBVIOUS

Joined(s, a, b, c, A, B, C) ==
  /\ DOMAIN s = 1..(a + b + c) /\ Len(s) = a + b + c
  /\ \A i \in 1..a : s[i] = A[i]
  /\ \A i \in 1..b : s[a + i] = B[i]
  /\ \A i \in 1..c : s[a + b + i] = C[i]

LEMMA ThreeParts ==
  ASSUME NEW a \in Nat, NEW b \in Nat, NEW c \in Nat, NEW X, NEW A \in [1..a -> X],
         NEW B \in [1..b -> X], NEW C \in [1..c -> X]
  PROVE  Joined(A \o B \o C, a, b, c, A, B, C)
<1>1. A \in Seq(X) /\ Len(A) = a /\ B \in Seq(X) /\ Len(B) = b /\ C \in Seq(X) /\ Len(C) = c
  <2>1. \A n \in Nat : \A f \in [1..n -> X] : f \in Seq(X) /\ Len(f) = n
    BY SeqOf
  <2> QED  BY <2>1
<1> DEFINE D == A \o B
<1>2. D \in Seq(X) /\ Len(D) = a + b /\ (\A i \in 1..a : D[i] = A[i]) /\ (\A i \in 1..b : D[a + i] = B[i])
  <2>1. D \in Seq(X) /\ Len(D) = a + b /\ \A i \in 1..(a + b) : D[i] = IF i <= a THEN A[i] ELSE B[i - a]
    BY <1>1, ConcatProperties
  <2> HIDE DEF D
  <2>2. \A i \in 1..b : a + i \in 1..(a + b) /\ ~(a + i <= a) /\ (a + i) - a = i
    OBVIOUS
  <2>3. \A i \in 1..a : i \in 1..(a + b) /\ i <= a
    OBVIOUS
  <2> QED  BY <2>1, <2>2, <2>3
<1> HIDE DEF D
<1> DEFINE E == D \o C
           n == a + b
<1>3. E \in Seq(X) /\ Len(E) = n + c /\ (\A i \in 1..n : E[i] = D[i]) /\ (\A i \in 1..c : E[n + i] = C[i])
  <2>1. E \in Seq(X) /\ Len(E) = n + c /\ \A i \in 1..(n + c) : E[i] = IF i <= n THEN D[i] ELSE C[i - n]
    <3>1. D \in Seq(X) /\ Len(D) = n
      BY <1>2
    <3> HIDE DEF n
    <3>2. /\ D \o C \in Seq(X) /\ Len(D \o C) = Len(D) + Len(C)
          /\ \A i \in 1..Len(D) + Len(C) : (D \o C)[i] = IF i <= Len(D) THEN D[i] ELSE C[i - Len(D)]
      BY <1>1, <3>1, ConcatProperties
    <3> QED  BY <1>1, <3>1, <3>2
  <2>0. n \in Nat
    OBVIOUS
  <2> HIDE DEF E, n
  <2>2. \A i \in 1..c : n + i \in 1..(n + c) /\ ~(n + i <= n) /\ (n + i) - n = i
    BY <2>0
  <2>3. \A i \in 1..n : i \in 1..(n + c) /\ i <= n
    BY <2>0
  <2> QED  BY <2>1, <2>2, <2>3
<1>4. A \o B \o C = E
  BY DEF D
<1> HIDE DEF E
<1>5. \A i \in 1..a : i \in 1..n
  OBVIOUS
<1>6. \A i \in 1..b : a + i \in 1..n
  OBVIOUS
<1>7. DOMAIN E = 1..(n + c)
  BY <1>3
<1> QED  BY <1>2, <1>3, <1>4, <1>5, <1>6, <1>7 DEF Joined

Unplaced(st) == {v \in st : ~Scheduled(v) /\ ~Located(v)}

(* The stops: appointments, then those on the way, then those that cannot
   be placed, at positions 1..a, a+1..a+b and a+b+1..a+b+c. *)
Parts(s, st, a, b, c) ==
  /\ a \in Nat /\ b \in Nat /\ c \in Nat
  /\ a = Cardinality(Fixed(st)) /\ b = Cardinality(Placed(st)) /\ c = Cardinality(Unplaced(st))
  /\ DOMAIN s = 1..(a + b + c) /\ Len(s) = a + b + c
  /\ \A i \in 1..a : s[i] \in Fixed(st) /\ s[i] = InOrder(Fixed(st))[i]
  /\ \A i \in 1..b : s[a + i] \in Placed(st) /\ s[a + i] = Tour(Placed(st), LastPlace(st))[i]
  /\ \A i \in 1..c : s[a + b + i] \in Unplaced(st) /\ s[a + b + i] = InOrder(Unplaced(st))[i]

LEMMA StopsHaveParts ==
  ASSUME DayTypeOK, NEW st \in SUBSET Visits
  PROVE  \E a, b, c : Parts(OrderStops(st), st, a, b, c)
<1> DEFINE a == Cardinality(Fixed(st))
           b == Cardinality(Placed(st))
           c == Cardinality(Unplaced(st))
           A == InOrder(Fixed(st))
           B == Tour(Placed(st), LastPlace(st))
           C == InOrder(Unplaced(st))
           s == OrderStops(st)
<1>1. /\ Fixed(st) \in SUBSET Visits /\ Unplaced(st) \in SUBSET Visits
      /\ Placed(st) \in SUBSET {v \in Visits : Located(v)} /\ Placed(st) \in SUBSET Visits
      /\ Fixed(st) \in SUBSET st /\ Placed(st) \in SUBSET st /\ Unplaced(st) \in SUBSET st
  BY DEF Fixed, Placed, Unplaced
<1>2. a \in Nat /\ A \in [1..a -> Fixed(st)] /\ c \in Nat /\ C \in [1..c -> Unplaced(st)]
  BY <1>1, InOrderIs
<1>3. LastPlace(st) \in Places \cup {Unknown}
  BY LastPlaceIs
<1>4. b \in Nat /\ B \in [1..b -> Placed(st)]
  BY <1>1, <1>3, TourIs, OrderOrders, FS_CardinalityType
<1>5. s = A \o B \o C
  BY DEF OrderStops, Unplaced
<1> HIDE DEF a, b, c, A, B, C, s
<1>6. A \in [1..a -> st] /\ B \in [1..b -> st] /\ C \in [1..c -> st]
  BY <1>1, <1>2, <1>4
<1>7. /\ DOMAIN s = 1..(a + b + c) /\ Len(s) = a + b + c
      /\ \A i \in 1..a : s[i] = A[i]
      /\ \A i \in 1..b : s[a + i] = B[i]
      /\ \A i \in 1..c : s[a + b + i] = C[i]
  <2>1. a \in Nat /\ b \in Nat /\ c \in Nat
    BY <1>2, <1>4
  <2>2. Joined(A \o B \o C, a, b, c, A, B, C)
    BY <2>1, <1>6, ThreeParts
  <2> QED  BY <1>5, <2>2 DEF Joined
<1>8. Parts(s, st, a, b, c)
  BY <1>2, <1>4, <1>7 DEF Parts, a, b, c, A, B, C
<1> QED  BY <1>8 DEF s

(* In which part a position lies. *)
LEMMA WhichPart ==
  ASSUME NEW st \in SUBSET Visits, NEW a, NEW b, NEW c, NEW s, Parts(s, st, a, b, c), NEW i \in DOMAIN s
  PROVE  /\ i \in Int /\ 1 <= i /\ i <= a + b + c /\ s[i] \in st
         /\ i <= a <=> Scheduled(s[i])
         /\ i <= a + b <=> Scheduled(s[i]) \/ Located(s[i])
         /\ i <= a => i \in 1..a /\ s[i] \in Fixed(st) /\ s[i] = InOrder(Fixed(st))[i]
         /\ a < i /\ i <= a + b => /\ i - a \in 1..b /\ s[i] \in Placed(st)
                                   /\ s[i] = Tour(Placed(st), LastPlace(st))[i - a]
         /\ a + b < i => /\ i - (a + b) \in 1..c /\ s[i] \in Unplaced(st)
                         /\ s[i] = InOrder(Unplaced(st))[i - (a + b)]
<1>1. a \in Nat /\ b \in Nat /\ c \in Nat /\ i \in 1..(a + b + c)
  BY DEF Parts
<1>2. CASE i <= a
  <2>1. i \in 1..a
    BY <1>1, <1>2
  <2>2. s[i] \in Fixed(st) /\ s[i] = InOrder(Fixed(st))[i]
    BY <2>1 DEF Parts
  <2>3. s[i] \in st /\ Scheduled(s[i])
    BY <2>2 DEF Fixed
  <2> QED  BY <1>1, <1>2, <2>1, <2>2, <2>3
<1>3. CASE a < i /\ i <= a + b
  <2>1. i - a \in 1..b /\ a + (i - a) = i
    BY <1>1, <1>3
  <2>2. s[a + (i - a)] \in Placed(st) /\ s[a + (i - a)] = Tour(Placed(st), LastPlace(st))[i - a]
    BY <2>1 DEF Parts
  <2>3. s[i] \in Placed(st) /\ s[i] = Tour(Placed(st), LastPlace(st))[i - a]
    BY <2>1, <2>2
  <2>4. s[i] \in st /\ ~Scheduled(s[i]) /\ Located(s[i])
    BY <2>3 DEF Placed
  <2> QED  BY <1>1, <1>3, <2>1, <2>3, <2>4
<1>4. CASE a + b < i
  <2>1. i - (a + b) \in 1..c /\ a + b + (i - (a + b)) = i
    BY <1>1, <1>4
  <2>2. /\ s[a + b + (i - (a + b))] \in Unplaced(st)
        /\ s[a + b + (i - (a + b))] = InOrder(Unplaced(st))[i - (a + b)]
    BY <2>1 DEF Parts
  <2>3. s[i] \in Unplaced(st) /\ s[i] = InOrder(Unplaced(st))[i - (a + b)]
    BY <2>1, <2>2
  <2>4. s[i] \in st /\ ~Scheduled(s[i]) /\ ~Located(s[i])
    BY <2>3 DEF Unplaced
  <2> QED  BY <1>1, <1>4, <2>1, <2>3, <2>4
<1> QED  BY <1>1, <1>2, <1>3, <1>4

(* What comes first comes in order. *)
LEMMA PartsInOrder ==
  ASSUME DayTypeOK, NEW st \in SUBSET Visits, NEW a, NEW b, NEW c, NEW s, Parts(s, st, a, b, c),
         NEW i \in DOMAIN s, NEW j \in DOMAIN s, i < j
  PROVE  /\ s[i] # s[j]
         /\ Scheduled(s[j]) => Scheduled(s[i]) /\ stop[s[i]].when <= stop[s[j]].when
         /\ Located(s[j]) => Scheduled(s[i]) \/ Located(s[i])
<1>1. a \in Nat /\ b \in Nat /\ c \in Nat /\ i \in Int /\ j \in Int /\ s[i] \in Visits /\ s[j] \in Visits
  <2>1. a \in Nat /\ b \in Nat /\ c \in Nat
    BY DEF Parts
  <2>2. i \in Int /\ s[i] \in st
    BY WhichPart
  <2>3. j \in Int /\ s[j] \in st
    BY WhichPart
  <2> QED  BY <2>1, <2>2, <2>3
<1>0. /\ i <= a <=> Scheduled(s[i])
      /\ i <= a + b <=> Scheduled(s[i]) \/ Located(s[i])
  BY WhichPart
<1>9. /\ j <= a <=> Scheduled(s[j])
      /\ j <= a + b <=> Scheduled(s[j]) \/ Located(s[j])
  BY WhichPart
<1>2. Scheduled(s[j]) => Scheduled(s[i])
  BY <1>0, <1>1, <1>9
<1>3. Located(s[j]) => Scheduled(s[i]) \/ Located(s[i])
  BY <1>0, <1>1, <1>9
<1>4. CASE j <= a
  <2>1. i \in 1..a /\ j \in 1..a /\ s[i] = InOrder(Fixed(st))[i] /\ s[j] = InOrder(Fixed(st))[j]
    BY <1>1, <1>4, WhichPart
  <2>2. Fixed(st) \in SUBSET Visits /\ a = Cardinality(Fixed(st))
    BY DEF Fixed, Parts
  <2>3. Earlier(InOrder(Fixed(st))[i], InOrder(Fixed(st))[j])
    BY <2>1, <2>2, InOrderIs
  <2>4. Earlier(s[i], s[j]) /\ ~Earlier(s[i], s[i]) /\ Scheduled(s[i]) /\ Scheduled(s[j])
    BY <1>1, <1>4, <2>1, <2>3, WhichPart, EarlierIs
  <2>5. s[i] # s[j]
    BY <2>4
  <2>6. stop[s[i]].when <= stop[s[j]].when
    <3>1. stop[s[i]].when \in Nat /\ stop[s[j]].when \in Nat
      BY <1>1, <2>4, EarlierIs DEF Scheduled
    <3> QED  BY <1>1, <2>4, <3>1, EarlierIs DEF Scheduled
  <2> QED  BY <1>2, <1>3, <2>5, <2>6
<1>5. CASE a < j /\ j <= a + b
  <2>1. ~Scheduled(s[j]) /\ s[j] = Tour(Placed(st), LastPlace(st))[j - a] /\ j - a \in 1..b
    BY <1>1, <1>5, WhichPart
  <2>2. CASE a < i
    <3>1. s[i] = Tour(Placed(st), LastPlace(st))[i - a] /\ i - a \in 1..b /\ i - a # j - a
      BY <1>1, <1>5, <2>2, WhichPart
    <3>2. /\ Placed(st) \in SUBSET {v \in Visits : Located(v)} /\ b = Cardinality(Placed(st))
          /\ LastPlace(st) \in Places \cup {Unknown}
      BY LastPlaceIs DEF Placed, Parts
    <3>3. s[i] # s[j]
      BY <2>1, <3>1, <3>2, TourIs
    <3> QED  BY <1>3, <2>1, <3>3
  <2>3. CASE i <= a
    <3>1. Scheduled(s[i])
      BY <1>1, <2>3, WhichPart
    <3> QED  BY <1>3, <2>1, <3>1
  <2> QED  BY <1>1, <2>2, <2>3
<1>6. CASE a + b < j
  <2>1. /\ ~Scheduled(s[j]) /\ ~Located(s[j])
        /\ s[j] = InOrder(Unplaced(st))[j - (a + b)] /\ j - (a + b) \in 1..c
    BY <1>1, <1>6, WhichPart
  <2>2. CASE a + b < i
    <3>1. /\ s[i] = InOrder(Unplaced(st))[i - (a + b)] /\ i - (a + b) \in 1..c
          /\ i - (a + b) < j - (a + b)
      <4>1. s[i] = InOrder(Unplaced(st))[i - (a + b)] /\ i - (a + b) \in 1..c
        BY <1>1, <2>2, WhichPart
      <4> QED  BY <1>1, <4>1
    <3>2. Unplaced(st) \in SUBSET Visits /\ c = Cardinality(Unplaced(st))
      BY DEF Unplaced, Parts
    <3>3. Earlier(InOrder(Unplaced(st))[i - (a + b)], InOrder(Unplaced(st))[j - (a + b)])
      BY <2>1, <3>1, <3>2, InOrderIs
    <3>4. Earlier(s[i], s[j]) /\ ~Earlier(s[i], s[i])
      BY <1>1, <2>1, <3>1, <3>3, EarlierIs
    <3> QED  BY <1>3, <2>1, <3>4
  <2>3. CASE i <= a + b
    <3>1. Scheduled(s[i]) \/ Located(s[i])
      BY <1>1, <2>3, WhichPart
    <3> QED  BY <1>3, <2>1, <3>1
  <2> QED  BY <1>1, <2>2, <2>3
<1> QED  BY <1>1, <1>4, <1>5, <1>6

(* Where the technician comes from, at position i. *)
From(s, i) ==
  IF i > 1 /\ ~Scheduled(s[i - 1]) /\ Located(s[i - 1]) THEN Where(s[i - 1])
  ELSE LET known == {j \in 1 .. i - 1 : Scheduled(s[j]) /\ Located(s[j])} IN
       IF known = {} THEN home ELSE Where(s[Max(known)])

LEMMA PartsNearest ==
  ASSUME DayTypeOK, NEW st \in SUBSET Visits, NEW a, NEW b, NEW c, NEW s, Parts(s, st, a, b, c),
         NEW i \in DOMAIN s, NEW j \in DOMAIN s, i < j,
         ~Scheduled(s[i]), Located(s[i]), ~Scheduled(s[j]), Located(s[j]), From(s, i) # Unknown
  PROVE  Far(From(s, i), Where(s[i])) <= Far(From(s, i), Where(s[j]))
<1> DEFINE P == Placed(st)
           here == LastPlace(st)
           T == Tour(P, here)
           A == InOrder(Fixed(st))
<1>1. /\ a \in Nat /\ b \in Nat /\ c \in Nat /\ b = Cardinality(P) /\ a = Cardinality(Fixed(st))
      /\ DOMAIN s = 1..(a + b + c)
  BY DEF Parts
<1>2. i \in Int /\ a < i /\ i <= a + b /\ i - a \in 1..b /\ s[i] = T[i - a]
  BY <1>1, WhichPart
<1>3. j \in Int /\ a < j /\ j <= a + b /\ j - a \in 1..b /\ s[j] = T[j - a]
  <2>1. j \in Int /\ ~(j <= a) /\ j <= a + b
    BY WhichPart
  <2>2. a < j
    BY <1>1, <2>1
  <2>3. j - a \in 1..b /\ s[j] = T[j - a]
    BY <2>1, <2>2, WhichPart
  <2> QED  BY <2>1, <2>2, <2>3
<1>4. P \in SUBSET {v \in Visits : Located(v)} /\ here \in Places \cup {Unknown}
  BY LastPlaceIs DEF Placed
<1>5. From(s, i) = After(T, here, i - a)
  <2>1. CASE i - 1 > a
    <3>1. i - 1 \in DOMAIN s /\ (i - 1) - a = (i - a) - 1 /\ i - a # 1 /\ i > 1 /\ i - 1 <= a + b
      BY <1>1, <1>2, <2>1
    <3>2. s[i - 1] = T[(i - a) - 1] /\ s[i - 1] \in Placed(st)
      <4>1. s[i - 1] = T[(i - 1) - a] /\ s[i - 1] \in Placed(st)
        BY <2>1, <3>1, WhichPart
      <4> QED  BY <4>1, <3>1
    <3>3. ~Scheduled(s[i - 1]) /\ Located(s[i - 1])
      BY <3>2 DEF Placed
    <3> QED  BY <3>1, <3>2, <3>3 DEF From, After
  <2>2. CASE i - 1 <= a
    <3> DEFINE known == {k \in 1 .. i - 1 : Scheduled(s[k]) /\ Located(s[k])}
               K == {k \in 1 .. a : Located(A[k])}
    <3>1. i - 1 = a /\ i - a = 1
      BY <1>1, <1>2, <2>2
    <3>2. \A k \in 1..a : k \in DOMAIN s /\ s[k] = A[k] /\ Scheduled(s[k])
      <4>1. \A k \in 1..a : k \in DOMAIN s /\ k <= a
        BY <1>1
      <4> QED  BY <4>1, WhichPart
    <3>3. known = K
      BY <3>1, <3>2
    <3>4. ~(i > 1 /\ ~Scheduled(s[i - 1]) /\ Located(s[i - 1]))
      <4>1. i > 1 => i - 1 \in 1..a
        BY <1>1, <3>1
      <4> QED  BY <4>1, <3>2
    <3>5. From(s, i) = IF known = {} THEN home ELSE Where(s[Max(known)])
      BY <3>4 DEF From
    <3>6. here = IF K = {} THEN home ELSE Where(A[Max(K)])
      <4> HIDE DEF K
      <4> QED  BY <1>1, LastPlaceIs DEF K
    <3>7. K # {} => Max(K) \in 1..a
      <4> SUFFICES ASSUME NEW k \in K PROVE Max(K) \in 1..a
        OBVIOUS
      <4>1. K \in SUBSET Nat /\ \A x \in K : x <= a
        BY <1>1
      <4>2. IsFiniteSet(K)
        BY <4>1, <1>1, FS_BoundedSetOfNaturals
      <4> DEFINE G == {p \in Nat \X Nat : p[1] > p[2]}
      <4>3. Ordered(G, K)
        BY <4>1 DEF Ordered
      <4>4. PICK m \in K : \A x \in K : <<x, m>> \notin G
        <5> HIDE DEF G, K
        <5> QED  BY <4>2, <4>3, FirstOfOrder
      <4>5. \A x \in K : m >= x
        <5> SUFFICES ASSUME NEW x \in K PROVE m >= x
          OBVIOUS
        <5>1. x \in Nat /\ m \in Nat /\ <<x, m>> \notin G
          BY <4>1, <4>4
        <5> QED  BY <5>1
      <4>6. Max(K) \in K
        <5> HIDE DEF K
        <5> QED  BY <4>4, <4>5 DEF Max
      <4> QED  BY <4>6
    <3>8. K # {} => s[Max(K)] = A[Max(K)]
      BY <3>2, <3>7
    <3> HIDE DEF K, known
    <3> QED  BY <3>1, <3>3, <3>5, <3>6, <3>8 DEF After
  <2> QED  BY <1>1, <1>2, <2>1, <2>2
<1>6. i - a < j - a
  BY <1>1, <1>2, <1>3
<1> DEFINE x == i - a
           y == j - a
<1>7. Far(After(T, here, x), Where(T[x])) <= Far(After(T, here, x), Where(T[y]))
  <2>1. x \in 1..b /\ y \in 1..b /\ x < y /\ After(T, here, x) # Unknown
    BY <1>2, <1>3, <1>5, <1>6
  <2> HIDE DEF x, y, P, here
  <2> QED  BY <1>1, <1>4, <2>1, TourIs
<1> HIDE DEF T, here
<1> QED  BY <1>2, <1>3, <1>5, <1>7

(* The first of an order, if it has more than a limit, are as many as that,
   and before the others. *)
LEMMA FirstsFill ==
  ASSUME NEW S, IsFiniteSet(S), NEW R, Ordered(R, S), NEW L \in Nat,
         NEW v \in S, ~(Rank(R, S, v) < L)
  PROVE  LET F == {u \in S : Rank(R, S, u) < L} IN Cardinality(F) = L /\ \A u \in F : <<u, v>> \in R
<1> DEFINE F == {u \in S : Rank(R, S, u) < L}
           N == Cardinality(S)
           f == [u \in F |-> Rank(R, S, u) + 1]
<1>2. /\ N \in Nat
      /\ \A u \in S : Rank(R, S, u) \in Nat /\ Rank(R, S, u) < N
      /\ \A u, w \in S : <<u, w>> \in R => Rank(R, S, u) < Rank(R, S, w)
      /\ \A u, w \in S : Rank(R, S, u) = Rank(R, S, w) => u = w
      /\ \A k \in 1..N : \E u \in S : Rank(R, S, u) = k - 1
  BY RankIsPlace
<1>3. IsFiniteSet(F)
  BY FS_Subset
<1> HIDE DEF N
<1>5. Rank(R, S, v) \in Nat /\ L <= N
  BY <1>2
<1>6. f \in [F -> 1..L]
  <2> SUFFICES ASSUME NEW u \in F PROVE Rank(R, S, u) + 1 \in 1..L
    OBVIOUS
  <2> QED  BY <1>2
<1>7. f \in Injection(F, 1..L)
  <2> SUFFICES ASSUME NEW u \in F, NEW w \in F, f[u] = f[w] PROVE u = w
    BY <1>6 DEF Injection, IsInjective
  <2>1. Rank(R, S, u) + 1 = Rank(R, S, w) + 1
    OBVIOUS
  <2>2. u \in S /\ w \in S /\ Rank(R, S, u) \in Nat /\ Rank(R, S, w) \in Nat
    BY <1>2
  <2>3. Rank(R, S, u) = Rank(R, S, w)
    BY <2>1, <2>2
  <2> QED  BY <2>2, <2>3, <1>2
<1>8. \A k \in 1..L : \E u \in F : f[u] = k
  <2> SUFFICES ASSUME NEW k \in 1..L PROVE \E u \in F : f[u] = k
    OBVIOUS
  <2>1. k \in 1..N
    BY <1>2, <1>5
  <2>2. PICK u \in S : Rank(R, S, u) = k - 1
    BY <2>1, <1>2
  <2>3. u \in F
    BY <2>2
  <2>4. (k - 1) + 1 = k
    OBVIOUS
  <2> QED  BY <2>2, <2>3, <2>4
<1>9. f \in Surjection(F, 1..L)
  <2> HIDE DEF f
  <2> QED  BY <1>6, <1>8 DEF Surjection
<1>10. IsFiniteSet(1..L) /\ Cardinality(1..L) = L
  BY FS_Interval
<1>11. Cardinality(F) = L
  <2> HIDE DEF f, F
  <2> QED  BY <1>3, <1>7, <1>9, <1>10, FS_Injection
<1>12. ASSUME NEW u \in F PROVE <<u, v>> \in R
  <2>1. u \in S /\ Rank(R, S, u) \in Nat /\ Rank(R, S, u) < L
    BY <1>2
  <2>2. u # v /\ <<v, u>> \notin R
    BY <1>2, <1>5, <2>1
  <2> QED  BY <2>1, <2>2 DEF Ordered
<1> QED  BY <1>11, <1>12

(* A day that leaves a visit out is full. *)
LEMMA RowsAreFull ==
  ASSUME DayTypeOK, NEW v \in Visits, Due(v), v \notin Rows
  PROVE  Cardinality(Rows) = MaxStops
<1> DEFINE D == {w \in Visits : Due(w)}
<1>1. D \in SUBSET Visits /\ Ordered(Order, D) /\ IsFiniteSet(D)
  BY OrderOrders
<1>2. \A u \in D : {w \in D : Earlier(w, u)} = {w \in D : <<w, u>> \in Order}
  BY OrderOrders
<1>3. Rows = {u \in D : Rank(Order, D, u) < MaxStops}
  BY <1>2 DEF Rows, Rank
<1>4. v \in D /\ MaxStops \in Nat
  BY DayAssumption
<1> HIDE DEF D
<1>5. ~(Rank(Order, D, v) < MaxStops)
  BY <1>3, <1>4
<1> QED  BY <1>1, <1>3, <1>4, <1>5, FirstsFill

(* Stops and closed visits are the rows, each once. *)
LEMMA StopsCount ==
  ASSUME DayTypeOK, NEW S \in SUBSET Visits, NEW st, st = {v \in S : Open(v)},
         NEW a, NEW b, NEW c, NEW s, Parts(s, st, a, b, c)
  PROVE  Len(s) + Cardinality({v \in S : ~Open(v)}) = Cardinality(S)
<1> DEFINE F == Fixed(st)
           P == Placed(st)
           U == Unplaced(st)
           D == {v \in S : ~Open(v)}
<1>1. /\ F \cap P = {} /\ (F \cup P) \cap U = {} /\ F \cup P \cup U = st
      /\ st \cap D = {} /\ st \cup D = S /\ st \in SUBSET Visits /\ D \in SUBSET Visits
  BY DEF Fixed, Placed, Unplaced
<1> HIDE DEF F, P, U, D
<1>2. /\ IsFiniteSet(F) /\ IsFiniteSet(P) /\ IsFiniteSet(F \cup P) /\ IsFiniteSet(U)
      /\ IsFiniteSet(st) /\ IsFiniteSet(D)
  <2>1. F \in SUBSET Visits /\ P \in SUBSET Visits /\ F \cup P \in SUBSET Visits /\ U \in SUBSET Visits
    BY <1>1
  <2> QED  BY <1>1, <2>1, OrderOrders
<1>3. /\ Cardinality(F) \in Nat /\ Cardinality(P) \in Nat /\ Cardinality(U) \in Nat /\ Cardinality(D) \in Nat
      /\ Cardinality(F \cap P) = 0 /\ Cardinality((F \cup P) \cap U) = 0 /\ Cardinality(st \cap D) = 0
  <2>1. Cardinality({}) = 0
    BY FS_EmptySet
  <2> QED  BY <1>1, <1>2, <2>1, FS_CardinalityType
<1>4. Cardinality(F \cup P) = Cardinality(F) + Cardinality(P)
  <2>1. Cardinality(F \cup P) = Cardinality(F) + Cardinality(P) - Cardinality(F \cap P)
    BY <1>2, FS_Union
  <2> QED  BY <2>1, <1>1, <1>3
<1>5. Cardinality(st) = Cardinality(F) + Cardinality(P) + Cardinality(U)
  <2>1. Cardinality(F \cup P \cup U) = Cardinality(F \cup P) + Cardinality(U) - Cardinality((F \cup P) \cap U)
    BY <1>2, FS_Union
  <2>2. Cardinality(F \cup P \cup U) = Cardinality(st)
    BY <1>1
  <2> QED  BY <2>1, <2>2, <1>3, <1>4
<1>6. Cardinality(S) = Cardinality(st) + Cardinality(D)
  <2>1. Cardinality(st \cup D) = Cardinality(st) + Cardinality(D) - Cardinality(st \cap D)
    BY <1>2, FS_Union
  <2>2. Cardinality(st) \in Nat
    BY <1>3, <1>5
  <2>3. Cardinality(st \cup D) = Cardinality(S)
    BY <1>1
  <2> QED  BY <2>1, <2>2, <2>3, <1>3
<1>7. Len(s) = Cardinality(F) + Cardinality(P) + Cardinality(U)
  BY DEF Parts, F, P, U
<1> QED  BY <1>5, <1>6, <1>7 DEF D

LEMMA TourRight == DayTypeOK => TourIsRight
<1> SUFFICES ASSUME DayTypeOK PROVE TourIsRight
  OBVIOUS
<1> DEFINE st == {v \in Rows : Open(v)}
           cl == {v \in Rows : ~Open(v)}
           s == MyDay.stops
           d == MyDay.done
<1>1. Rows \in SUBSET Visits /\ st \in SUBSET Visits /\ cl \in SUBSET Visits
  BY DEF Rows
<1>2. s = OrderStops(st) /\ d = InOrder(cl)
  BY DEF MyDay
<1> HIDE DEF s, d
<1>3. PICK a, b, c : Parts(s, st, a, b, c)
  <2> HIDE DEF st
  <2> QED  BY <1>1, <1>2, StopsHaveParts
<1>4. /\ d \in [1..Cardinality(cl) -> cl] /\ Len(d) = Cardinality(cl)
      /\ DOMAIN d = 1..Cardinality(cl)
  <2> HIDE DEF cl
  <2>1. Cardinality(cl) \in Nat /\ d \in [1..Cardinality(cl) -> cl]
    BY <1>1, <1>2, InOrderIs
  <2> QED  BY <2>1, SeqOf
<1>5. ASSUME NEW i \in DOMAIN s, NEW j \in DOMAIN s, i < j
      PROVE  /\ s[i] # s[j]
             /\ Scheduled(s[j]) => Scheduled(s[i]) /\ stop[s[i]].when <= stop[s[j]].when
             /\ Located(s[j]) => Scheduled(s[i]) \/ Located(s[i])
             /\ ~Scheduled(s[i]) /\ Located(s[i]) /\ ~Scheduled(s[j]) /\ Located(s[j])
                  /\ From(s, i) # Unknown =>
                  Far(From(s, i), Where(s[i])) <= Far(From(s, i), Where(s[j]))
  <2> HIDE DEF st
  <2>1. s[i] # s[j] /\ (Scheduled(s[j]) => Scheduled(s[i]) /\ stop[s[i]].when <= stop[s[j]].when)
        /\ (Located(s[j]) => Scheduled(s[i]) \/ Located(s[i]))
    BY <1>1, <1>3, <1>5, PartsInOrder
  <2>2. ASSUME ~Scheduled(s[i]), Located(s[i]), ~Scheduled(s[j]), Located(s[j]), From(s, i) # Unknown
        PROVE  Far(From(s, i), Where(s[i])) <= Far(From(s, i), Where(s[j]))
    BY <1>1, <1>3, <1>5, <2>2, PartsNearest
  <2> QED  BY <2>1, <2>2
<1>6. ASSUME NEW v \in Visits, Open(v), Scheduled(v) => stop[v].when < Starts + DayLength
      PROVE  v \in Range(s) \/ Len(s) + Len(d) = MaxStops
  <2>1. Due(v)
    <3>1. today \in Nat /\ DayLength \in Nat /\ Starts \in Nat
      BY DayAssumption DEF DayTypeOK, Starts
    <3>2. stop[v].when # Unknown => stop[v].when \in Nat
      BY EarlierIs
    <3>3. CASE stop[v].when = Unknown
      BY <1>6, <3>3 DEF Due
    <3>4. CASE stop[v].when # Unknown
      <4>1. stop[v].when < Starts + DayLength /\ stop[v].when \in Nat
        BY <1>6, <3>2, <3>4 DEF Scheduled
      <4>2. Mine(v)
        BY <1>6 DEF Mine, Open
      <4>3. stop[v].when < Starts \/ stop[v].when \in Starts .. Starts + DayLength - 1
        BY <3>1, <4>1
      <4> QED  BY <1>6, <3>4, <4>2, <4>3 DEF Due
    <3> QED  BY <3>3, <3>4
  <2>2. CASE v \in Rows
    <3>1. v \in st
      BY <1>6, <2>2
    <3>2. \E i \in DOMAIN s : s[i] = v
      <4> HIDE DEF st
      <4>0. /\ a \in Nat /\ b \in Nat /\ c \in Nat /\ DOMAIN s = 1..(a + b + c)
            /\ a = Cardinality(Fixed(st)) /\ b = Cardinality(Placed(st)) /\ c = Cardinality(Unplaced(st))
        BY <1>3 DEF Parts
      <4>1. CASE v \in Fixed(st)
        <5>1. Fixed(st) \in SUBSET Visits
          BY <1>1 DEF Fixed
        <5>2. PICK i \in 1..a : InOrder(Fixed(st))[i] = v
          BY <4>0, <4>1, <5>1, InOrderIs
        <5>3. s[i] = v /\ i \in DOMAIN s
          BY <4>0, <5>2, <1>3 DEF Parts
        <5> QED  BY <5>3
      <4>2. CASE v \in Placed(st)
        <5>1. Placed(st) \in SUBSET {w \in Visits : Located(w)}
          BY <1>1 DEF Placed
        <5>2. LastPlace(st) \in Places \cup {Unknown}
          BY <1>1, LastPlaceIs
        <5>3. PICK i \in 1..b : Tour(Placed(st), LastPlace(st))[i] = v
          BY <4>0, <4>2, <5>1, <5>2, TourIs
        <5>4. s[a + i] = v /\ a + i \in DOMAIN s
          BY <4>0, <5>3, <1>3 DEF Parts
        <5> QED  BY <5>4
      <4>3. CASE v \in Unplaced(st)
        <5>1. Unplaced(st) \in SUBSET Visits
          BY <1>1 DEF Unplaced
        <5>2. PICK i \in 1..c : InOrder(Unplaced(st))[i] = v
          BY <4>0, <4>3, <5>1, InOrderIs
        <5>3. s[a + b + i] = v /\ a + b + i \in DOMAIN s
          BY <4>0, <5>2, <1>3 DEF Parts
        <5> QED  BY <5>3
      <4> QED  BY <3>1, <4>1, <4>2, <4>3 DEF Fixed, Placed, Unplaced
    <3> QED  BY <3>2 DEF Range
  <2>3. CASE v \notin Rows
    <3>1. Cardinality(Rows) = MaxStops
      BY <2>1, <2>3, RowsAreFull
    <3> DEFINE R == Rows
    <3>2. Len(s) + Cardinality(cl) = Cardinality(R)
      <4>1. R \in SUBSET Visits /\ st = {u \in R : Open(u)} /\ cl = {u \in R : ~Open(u)}
        BY <1>1
      <4> HIDE DEF st, cl, R
      <4>2. Len(s) + Cardinality({u \in R : ~Open(u)}) = Cardinality(R)
        BY <1>3, <4>1, StopsCount
      <4> QED  BY <4>1, <4>2
    <3> HIDE DEF cl
    <3> QED  BY <3>1, <3>2, <1>4
  <2> QED  BY <2>2, <2>3
<1>7. ASSUME NEW i \in DOMAIN d PROVE stop[d[i]].status = "CLOSED"
  <2>1. d[i] \in cl
    BY <1>4
  <2>2. d[i] \in Visits /\ Due(d[i]) /\ ~Open(d[i])
    BY <2>1 DEF Rows
  <2>3. Mine(d[i])
    BY <2>2 DEF Due, Mine, Open
  <2>4. stop[d[i]].status \in {"AWAY", "ASSIGNED", "CLOSED"}
    BY <2>2 DEF DayTypeOK, Stop
  <2> QED  BY <2>2, <2>3, <2>4 DEF Mine, Open
<1> QED  BY <1>5, <1>6, <1>7 DEF TourIsRight, From, s, d

-----------------------------------------------------------------------------
(* The list of jobs and the lessons of the phones. *)

(* A list that is full of later visits. *)
FullAfter(C, v) == Cardinality(C) = ClosedSize /\ \A w \in C : w > v

LEMMA NewestFill ==
  ASSUME NEW S \in SUBSET Visits
  PROVE  Newest(S) \subseteq S /\ \A v \in S : v \in Newest(S) \/ FullAfter(Newest(S), v)
<1> DEFINE R == {p \in Visits \X Visits : p[1] > p[2]}
<1>1. Visits \subseteq Nat /\ IsFiniteSet(S) /\ ClosedSize \in Nat
  BY FS_Subset, DayAssumption
<1>2. \A v, w \in Visits : <<v, w>> \in R <=> v > w
  OBVIOUS
<1> HIDE DEF R
<1>3. Ordered(R, S)
  BY <1>1, <1>2 DEF Ordered
<1>4. \A u \in S : {w \in S : w > u} = {w \in S : <<w, u>> \in R}
  BY <1>2
<1>5. Newest(S) = {u \in S : Rank(R, S, u) < ClosedSize}
  BY <1>4 DEF Newest, Rank
<1>6. ASSUME NEW v \in S, v \notin Newest(S) PROVE FullAfter(Newest(S), v)
  <2>1. ~(Rank(R, S, v) < ClosedSize)
    BY <1>5, <1>6
  <2>2. Cardinality(Newest(S)) = ClosedSize /\ \A u \in Newest(S) : u \in S /\ <<u, v>> \in R
    BY <1>1, <1>3, <1>5, <2>1, FirstsFill
  <2> QED  BY <1>2, <2>2 DEF FullAfter
<1> QED  BY <1>5, <1>6

(* What the list of jobs holds is true of the visits that did not change. *)
JobsKept ==
  /\ "open" \in jobs.asked => \A v \in Visits \ jobs.moved :
       (Open(v) => v \in jobs.open \/ jobs.cut) /\ (v \in jobs.open => Open(v))
  /\ "closed" \in jobs.asked => \A v \in Visits \ jobs.moved :
       /\ v \in jobs.closed => stop[v].status = "CLOSED"
       /\ stop[v].status = "CLOSED" => v \in jobs.closed \/ FullAfter(jobs.closed, v)

SiteOf(r) == stop[report[r].of].site
Teaching(r) == report[r].pc = "locked" /\ report[r].first

(* A report that will teach a place found it unknown and is alone at it;    *)
(* one that has taught it is what the row says.                             *)
LessonsKept ==
  /\ \A r \in Learners :
       /\ report[r].pc \in {"sent", "locked"} =>
            report[r].of \in Visits /\ report[r].from \in Places /\ ~report[r].saved
       /\ report[r].saved =>
            /\ report[r].pc = "ended" /\ report[r].of \in Visits /\ report[r].from \in Places
            /\ place[SiteOf(r)] = report[r].from
       /\ Teaching(r) => place[SiteOf(r)] = Unknown
  /\ \A q, r \in Learners : q # r /\ SiteOf(q) = SiteOf(r) =>
       ~(Teaching(q) /\ Teaching(r)) /\ ~(report[q].saved /\ report[r].saved)

DayInv == DayTypeOK /\ JobsKept /\ LessonsKept

Report == [pc : {"new", "sent", "locked", "ended"}, of : Visits \cup {NoVisit},
           from : Places \cup {Unknown}, first : BOOLEAN, saved : BOOLEAN]

LEMMA DayStarts ==
  ASSUME NEW phones \in SUBSET Learners, NEW listing \in BOOLEAN,
         DayInit([Visits -> Stop], [Sites -> Places \cup {Unknown}], Places \cup {Unknown}, phones, listing)
  PROVE  DayInv
<1>1. DayTypeOK
  <2>1. report \in [Learners -> Report] /\ \A r \in Learners : report[r].pc \in {"new", "ended"} /\ ~report[r].saved
    BY DEF DayInit, Report
  <2>2. jobs \in [asked : SUBSET {"open", "closed"}, open : SUBSET Visits, closed : SUBSET Visits,
                  cut : BOOLEAN, moved : SUBSET Visits]
    BY DEF DayInit
  <2> QED  BY <2>1, <2>2 DEF DayInit, DayTypeOK, Report
<1>2. JobsKept
  BY DEF DayInit, JobsKept
<1>3. LessonsKept
  BY DEF DayInit, LessonsKept, Teaching
<1> QED  BY <1>1, <1>2, <1>3 DEF DayInv

(* A step that leaves the phones' reports, the map and the sites alone.     *)
LEMMA LessonsStay ==
  ASSUME DayInv, UNCHANGED <<report, place>>, \A v \in Visits : stop'[v].site = stop[v].site
  PROVE  LessonsKept'
<1>1. \A r \in Learners : report[r].of \in Visits => SiteOf(r)' = SiteOf(r)
  BY DEF SiteOf
<1>2. \A r \in Learners : (Teaching(r)' <=> Teaching(r)) /\ (Teaching(r) \/ report[r].saved => report[r].of \in Visits)
  BY DEF DayInv, LessonsKept, Teaching
<1>3. ASSUME NEW r \in Learners
      PROVE  /\ report[r].pc \in {"sent", "locked"} =>
                  report[r].of \in Visits /\ report[r].from \in Places /\ ~report[r].saved
             /\ report[r].saved =>
                  /\ report[r].pc = "ended" /\ report[r].of \in Visits /\ report[r].from \in Places
                  /\ place[SiteOf(r)'] = report[r].from
             /\ Teaching(r)' => place[SiteOf(r)'] = Unknown
  BY <1>1, <1>2 DEF DayInv, LessonsKept
<1>4. ASSUME NEW q \in Learners, NEW r \in Learners, q # r, SiteOf(q)' = SiteOf(r)'
      PROVE  ~(Teaching(q)' /\ Teaching(r)') /\ ~(report[q].saved /\ report[r].saved)
  BY <1>1, <1>2, <1>4 DEF DayInv, LessonsKept
<1> QED  BY <1>3, <1>4 DEF LessonsKept

LEMMA DayPasses ==
  ASSUME DayInv, NEW last \in Nat, Midnight(last) \/ UNCHANGED dayVars
  PROVE  DayInv'
<1>1. UNCHANGED <<stop, place, home, report, jobs>> /\ today' \in Nat
  BY DEF DayInv, DayTypeOK, Midnight, dayVars
<1>2. DayTypeOK'
  BY <1>1 DEF DayInv, DayTypeOK
<1>3. JobsKept'
  BY <1>1 DEF DayInv, JobsKept, Open
<1>4. LessonsKept'
  BY <1>1, LessonsStay
<1> QED  BY <1>2, <1>3, <1>4 DEF DayInv

LEMMA JobsRead ==
  ASSUME DayInv, JobsReadOpen \/ JobsReadClosed
  PROVE  DayInv'
<1>1. UNCHANGED <<today, stop, place, home, report>>
  BY DEF JobsReadOpen, JobsReadClosed
<1>2. LessonsKept'
  BY <1>1, LessonsStay
<1>3. CASE JobsReadOpen
  <2> DEFINE all == {v \in Visits : Mine(v)}
             o == {v \in FirstPage(all) : Open(v)}
  <2>1. jobs' = [jobs EXCEPT !.asked = @ \cup {"open"}, !.open = o, !.cut = Cut(all)]
    BY <1>3 DEF JobsReadOpen
  <2>2. FirstPage(all) \in SUBSET all /\ o \in SUBSET Visits /\ Cut(all) \in BOOLEAN
    BY DEF FirstPage, Cut
  <2>3. ASSUME NEW v \in Visits, Open(v), ~Cut(all) PROVE v \in FirstPage(all)
    <3> DEFINE Ahead(x, w) == Priority[x] < Priority[w] \/ (Priority[x] = Priority[w] /\ x > w)
               T == {w \in all : Ahead(w, v)}
    <3>1. v \in all
      BY <2>3 DEF Mine, Open
    <3>2. IsFiniteSet(all)
      BY FS_Subset, DayAssumption
    <3>3. T \in SUBSET all
      OBVIOUS
    <3>4. Cardinality(T) <= Cardinality(all) /\ Cardinality(T) \in Nat /\ Cardinality(all) \in Nat
      <4> HIDE DEF T, all
      <4> QED  BY <3>2, <3>3, FS_Subset, FS_CardinalityType
    <3>5. ~(Cardinality(all) >= PageSize)
      BY <2>3 DEF Cut
    <3>6. Cardinality(T) < PageSize
      <4> HIDE DEF T, all
      <4> QED  BY <3>4, <3>5, DayAssumption
    <3> QED  BY <3>1, <3>6 DEF FirstPage
  <2> HIDE DEF o
  <2> DEFINE cut == Cut(all)
  <2>4. \A v \in Visits : (Open(v) => v \in o \/ cut) /\ (v \in o => Open(v))
    BY <2>3 DEF o
  <2> HIDE DEF cut
  <2>5. DayTypeOK'
    BY <1>1, <2>1, <2>2 DEF DayInv, DayTypeOK, cut
  <2>6. jobs'.open = o /\ jobs'.cut = cut /\ jobs'.closed = jobs.closed /\ jobs'.moved = jobs.moved
        /\ jobs'.asked = jobs.asked \cup {"open"}
    BY <2>1 DEF DayInv, DayTypeOK, cut
  <2>7. JobsKept'
    BY <1>1, <2>4, <2>6 DEF DayInv, JobsKept, Open
  <2> QED  BY <1>2, <2>5, <2>7 DEF DayInv
<1>4. CASE JobsReadClosed
  <2> DEFINE shut == {v \in Visits : stop[v].status = "CLOSED"}
             c == Newest(shut)
  <2>0. /\ c \in SUBSET Visits
        /\ \A v \in c : stop[v].status = "CLOSED"
        /\ \A v \in Visits : stop[v].status = "CLOSED" => v \in c \/ FullAfter(c, v)
    BY NewestFill
  <2>1. jobs' = [jobs EXCEPT !.asked = @ \cup {"closed"}, !.closed = c]
    BY <1>4 DEF JobsReadClosed
  <2> HIDE DEF c
  <2>2. DayTypeOK'
    BY <1>1, <2>0, <2>1 DEF DayInv, DayTypeOK
  <2>3. jobs'.open = jobs.open /\ jobs'.cut = jobs.cut /\ jobs'.closed = c /\ jobs'.moved = jobs.moved
        /\ jobs'.asked = jobs.asked \cup {"closed"}
    BY <2>1 DEF DayInv, DayTypeOK
  <2>4. JobsKept'
    BY <1>1, <2>0, <2>3 DEF DayInv, JobsKept, Open
  <2> QED  BY <1>2, <2>2, <2>4 DEF DayInv
<1> QED  BY <1>3, <1>4

LEMMA VisitTurns ==
  ASSUME DayInv, NEW v \in Visits, NEW s \in {"AWAY", "ASSIGNED", "CLOSED"}, Turns(v, s)
  PROVE  /\ stop' \in [Visits -> Stop] /\ \A w \in Visits : stop'[w].site = stop[w].site
         /\ jobs' \in [asked : SUBSET {"open", "closed"}, open : SUBSET Visits, closed : SUBSET Visits,
                       cut : BOOLEAN, moved : SUBSET Visits]
         /\ JobsKept'
<1>1. stop \in [Visits -> Stop] /\ stop' = [stop EXCEPT ![v].status = s]
  BY DEF DayInv, DayTypeOK, Turns
<1>2. [stop[v] EXCEPT !.status = s] \in Stop
  BY <1>1 DEF Stop
<1>3. /\ stop' \in [Visits -> Stop] /\ stop'[v].site = stop[v].site
      /\ \A w \in Visits : w # v => stop'[w] = stop[w]
  <2>1. stop' = [stop EXCEPT ![v] = [stop[v] EXCEPT !.status = s]]
    BY <1>1
  <2>2. stop' \in [Visits -> Stop] /\ stop'[v] = [stop[v] EXCEPT !.status = s]
        /\ \A w \in Visits : w # v => stop'[w] = stop[w]
    BY <1>1, <1>2, <2>1
  <2>3. [stop[v] EXCEPT !.status = s].site = stop[v].site
    BY <1>1 DEF Stop
  <2> QED  BY <2>2, <2>3
<1>4. /\ jobs' = [jobs EXCEPT !.moved = IF jobs.asked = {} THEN @ ELSE @ \cup {v}]
      /\ jobs \in [asked : SUBSET {"open", "closed"}, open : SUBSET Visits, closed : SUBSET Visits,
                   cut : BOOLEAN, moved : SUBSET Visits]
  BY DEF DayInv, DayTypeOK, Turns
<1>5. /\ jobs' \in [asked : SUBSET {"open", "closed"}, open : SUBSET Visits, closed : SUBSET Visits,
                    cut : BOOLEAN, moved : SUBSET Visits]
      /\ jobs'.asked = jobs.asked /\ jobs'.open = jobs.open /\ jobs'.closed = jobs.closed /\ jobs'.cut = jobs.cut
      /\ jobs.asked # {} => jobs'.moved = jobs.moved \cup {v}
  BY <1>4
<1>6. JobsKept'
  BY <1>3, <1>5 DEF DayInv, JobsKept, Open
<1> QED  BY <1>3, <1>5, <1>6

LEMMA OfficeTurns ==
  ASSUME DayInv, NEW v \in Visits, Assigned(v)
  PROVE  DayInv'
<1>1. UNCHANGED <<today, place, home, report>>
  BY DEF Assigned
<1>2. Turns(v, "ASSIGNED") \/ Turns(v, "AWAY")
  BY DEF Assigned
<1>3. /\ stop' \in [Visits -> Stop] /\ \A w \in Visits : stop'[w].site = stop[w].site
      /\ jobs' \in [asked : SUBSET {"open", "closed"}, open : SUBSET Visits, closed : SUBSET Visits,
                    cut : BOOLEAN, moved : SUBSET Visits]
      /\ JobsKept'
  BY <1>2, VisitTurns
<1>4. LessonsKept'
  BY <1>1, <1>3, LessonsStay
<1> QED  BY <1>1, <1>3, <1>4 DEF DayInv, DayTypeOK

LEMMA VisitCloses ==
  ASSUME DayInv, NEW v \in Visits, Closed(v)
  PROVE  DayInv'
<1>1. UNCHANGED <<today, place, home>> /\ Turns(v, "CLOSED")
  BY DEF Closed
<1>2. /\ stop' \in [Visits -> Stop] /\ \A w \in Visits : stop'[w].site = stop[w].site
      /\ jobs' \in [asked : SUBSET {"open", "closed"}, open : SUBSET Visits, closed : SUBSET Visits,
                    cut : BOOLEAN, moved : SUBSET Visits]
      /\ JobsKept'
  BY <1>1, VisitTurns
<1>3. CASE UNCHANGED report
  <2>1. LessonsKept'
    BY <1>1, <1>2, <1>3, LessonsStay
  <2> QED  BY <1>1, <1>2, <1>3, <2>1 DEF DayInv, DayTypeOK
<1>4. ASSUME NEW r \in Learners, NEW p \in Places, report[r].pc = "new",
             report' = [report EXCEPT ![r] = [@ EXCEPT !.pc = "sent", !.of = v, !.from = p]]
      PROVE  DayInv'
  <2>1. report \in [Learners -> Report]
    BY DEF DayInv, DayTypeOK, Report
  <2>2. ~report[r].saved
    BY <1>4 DEF DayInv, LessonsKept
  <2>3. /\ [report[r] EXCEPT !.pc = "sent", !.of = v, !.from = p] \in Report
        /\ [report[r] EXCEPT !.pc = "sent", !.of = v, !.from = p].pc = "sent"
        /\ [report[r] EXCEPT !.pc = "sent", !.of = v, !.from = p].of = v
        /\ [report[r] EXCEPT !.pc = "sent", !.of = v, !.from = p].from = p
        /\ [report[r] EXCEPT !.pc = "sent", !.of = v, !.from = p].saved = report[r].saved
    BY <2>1 DEF Report
  <2>4. /\ report' \in [Learners -> Report]
        /\ report'[r].pc = "sent" /\ report'[r].of = v /\ report'[r].from = p /\ ~report'[r].saved
        /\ \A q \in Learners : q # r => report'[q] = report[q]
    BY <1>4, <2>1, <2>2, <2>3
  <2>5. DayTypeOK'
    BY <1>1, <1>2, <2>4 DEF DayInv, DayTypeOK, Report
  <2>6. ~Teaching(r)' /\ ~report'[r].saved
    BY <2>4 DEF Teaching
  <2>7. \A q \in Learners : q # r => /\ Teaching(q)' <=> Teaching(q)
                                     /\ report[q].of \in Visits => SiteOf(q)' = SiteOf(q)
                                     /\ Teaching(q) \/ report[q].saved => report[q].of \in Visits
    BY <1>2, <2>4 DEF DayInv, LessonsKept, Teaching, SiteOf
  <2>8. ASSUME NEW q \in Learners
        PROVE  /\ report'[q].pc \in {"sent", "locked"} =>
                    report'[q].of \in Visits /\ report'[q].from \in Places /\ ~report'[q].saved
               /\ report'[q].saved =>
                    /\ report'[q].pc = "ended" /\ report'[q].of \in Visits /\ report'[q].from \in Places
                    /\ place[SiteOf(q)'] = report'[q].from
               /\ Teaching(q)' => place[SiteOf(q)'] = Unknown
    <3>1. CASE q = r
      BY <3>1, <2>4, <2>6
    <3>2. CASE q # r
      BY <3>2, <2>4, <2>7 DEF DayInv, LessonsKept
    <3> QED  BY <3>1, <3>2
  <2>9. ASSUME NEW x \in Learners, NEW y \in Learners, x # y, SiteOf(x)' = SiteOf(y)'
        PROVE  ~(Teaching(x)' /\ Teaching(y)') /\ ~(report'[x].saved /\ report'[y].saved)
    <3>1. CASE x = r \/ y = r
      BY <3>1, <2>6
    <3>2. CASE x # r /\ y # r
      BY <3>2, <2>4, <2>7, <2>9 DEF DayInv, LessonsKept
    <3> QED  BY <3>1, <3>2
  <2>10. LessonsKept'
    BY <1>1, <2>8, <2>9 DEF LessonsKept
  <2> QED  BY <1>2, <2>5, <2>10 DEF DayInv
<1> QED  BY <1>3, <1>4 DEF Closed

(* A report that moves on: nobody's site changes. *)
LEMMA ReportMoves ==
  ASSUME DayInv, NEW r \in Learners, UNCHANGED <<today, home, jobs>>,
         stop' \in [Visits -> Stop],
         \A v \in Visits : stop'[v].site = stop[v].site /\ stop'[v].status = stop[v].status,
         place' \in [Sites -> Places \cup {Unknown}],
         NEW n \in Report, report' = [report EXCEPT ![r] = n],
         n.of = report[r].of, n.from = report[r].from, n.pc \in {"locked", "ended"},
         report[r].pc \in {"sent", "locked"},
         \/ n.pc = "locked" /\ ~n.saved /\ place' = place
              /\ (n.first => place[SiteOf(r)] = Unknown /\ \A q \in Learners : Teaching(q) => SiteOf(q) # SiteOf(r))
         \/ n.pc = "ended" /\ ~n.saved /\ place' = place
         \/ n.pc = "ended" /\ n.saved /\ Teaching(r) /\ place' = [place EXCEPT ![SiteOf(r)] = report[r].from]
  PROVE  DayInv'
<1>1. report \in [Learners -> Report] /\ place \in [Sites -> Places \cup {Unknown}]
  BY DEF DayInv, DayTypeOK, Report
<1>2. /\ report' \in [Learners -> Report] /\ report'[r] = n
      /\ \A q \in Learners : q # r => report'[q] = report[q]
  BY <1>1
<1>3. DayTypeOK'
  BY <1>2 DEF DayInv, DayTypeOK, Report
<1>4. JobsKept'
  BY DEF DayInv, JobsKept, Open
<1>5. /\ report[r].of \in Visits /\ report[r].from \in Places /\ ~report[r].saved
      /\ SiteOf(r) \in Sites /\ SiteOf(r)' = SiteOf(r)
  <2>1. report[r].of \in Visits /\ report[r].from \in Places /\ ~report[r].saved
    BY DEF DayInv, LessonsKept
  <2> QED  BY <2>1, <1>2 DEF SiteOf, DayInv, DayTypeOK, Stop
<1>6. \A q \in Learners : q # r => /\ Teaching(q)' <=> Teaching(q)
                                   /\ report[q].of \in Visits => SiteOf(q)' = SiteOf(q)
                                   /\ Teaching(q) \/ report[q].saved => report[q].of \in Visits
  BY <1>2 DEF DayInv, LessonsKept, Teaching, SiteOf
<1>7. Teaching(r)' <=> n.pc = "locked" /\ n.first
  BY <1>2 DEF Teaching
<1>8. Unknown \notin Places
  BY DayAssumption
<1>9. CASE n.pc = "locked" /\ ~n.saved /\ place' = place
             /\ (n.first => place[SiteOf(r)] = Unknown /\ \A q \in Learners : Teaching(q) => SiteOf(q) # SiteOf(r))
  <2>1. ASSUME NEW q \in Learners
        PROVE  /\ report'[q].pc \in {"sent", "locked"} =>
                    report'[q].of \in Visits /\ report'[q].from \in Places /\ ~report'[q].saved
               /\ report'[q].saved =>
                    /\ report'[q].pc = "ended" /\ report'[q].of \in Visits /\ report'[q].from \in Places
                    /\ place'[SiteOf(q)'] = report'[q].from
               /\ Teaching(q)' => place'[SiteOf(q)'] = Unknown
    <3>1. CASE q = r
      BY <3>1, <1>2, <1>5, <1>7, <1>9
    <3>2. CASE q # r
      BY <3>2, <1>2, <1>6, <1>9 DEF DayInv, LessonsKept
    <3> QED  BY <3>1, <3>2
  <2>2. ASSUME NEW x \in Learners, NEW y \in Learners, x # y, SiteOf(x)' = SiteOf(y)'
        PROVE  ~(Teaching(x)' /\ Teaching(y)') /\ ~(report'[x].saved /\ report'[y].saved)
    <3>1. CASE x = r
      BY <3>1, <2>2, <1>2, <1>5, <1>6, <1>7, <1>9
    <3>2. CASE y = r
      BY <3>2, <2>2, <1>2, <1>5, <1>6, <1>7, <1>9
    <3>3. CASE x # r /\ y # r
      BY <3>3, <2>2, <1>2, <1>6 DEF DayInv, LessonsKept
    <3> QED  BY <3>1, <3>2, <3>3
  <2> QED  BY <1>3, <1>4, <2>1, <2>2 DEF DayInv, LessonsKept
<1>10. CASE n.pc = "ended" /\ ~n.saved /\ place' = place
  <2>1. ASSUME NEW q \in Learners
        PROVE  /\ report'[q].pc \in {"sent", "locked"} =>
                    report'[q].of \in Visits /\ report'[q].from \in Places /\ ~report'[q].saved
               /\ report'[q].saved =>
                    /\ report'[q].pc = "ended" /\ report'[q].of \in Visits /\ report'[q].from \in Places
                    /\ place'[SiteOf(q)'] = report'[q].from
               /\ Teaching(q)' => place'[SiteOf(q)'] = Unknown
    <3>1. CASE q = r
      BY <3>1, <1>2, <1>7, <1>10
    <3>2. CASE q # r
      BY <3>2, <1>2, <1>6, <1>10 DEF DayInv, LessonsKept
    <3> QED  BY <3>1, <3>2
  <2>2. ASSUME NEW x \in Learners, NEW y \in Learners, x # y, SiteOf(x)' = SiteOf(y)'
        PROVE  ~(Teaching(x)' /\ Teaching(y)') /\ ~(report'[x].saved /\ report'[y].saved)
    <3>1. CASE x = r \/ y = r
      BY <3>1, <1>2, <1>7, <1>10
    <3>3. CASE x # r /\ y # r
      BY <3>3, <2>2, <1>2, <1>6 DEF DayInv, LessonsKept
    <3> QED  BY <3>1, <3>3
  <2> QED  BY <1>3, <1>4, <2>1, <2>2 DEF DayInv, LessonsKept
<1>11. CASE n.pc = "ended" /\ n.saved /\ Teaching(r) /\ place' = [place EXCEPT ![SiteOf(r)] = report[r].from]
  <2>0. /\ place'[SiteOf(r)] = report[r].from /\ place[SiteOf(r)] = Unknown
        /\ \A c \in Sites : c # SiteOf(r) => place'[c] = place[c]
    BY <1>1, <1>5, <1>11 DEF DayInv, LessonsKept
  <2>1. ASSUME NEW q \in Learners
        PROVE  /\ report'[q].pc \in {"sent", "locked"} =>
                    report'[q].of \in Visits /\ report'[q].from \in Places /\ ~report'[q].saved
               /\ report'[q].saved =>
                    /\ report'[q].pc = "ended" /\ report'[q].of \in Visits /\ report'[q].from \in Places
                    /\ place'[SiteOf(q)'] = report'[q].from
               /\ Teaching(q)' => place'[SiteOf(q)'] = Unknown
    <3>1. CASE q = r
      BY <3>1, <2>0, <1>2, <1>5, <1>7, <1>11
    <3>2. CASE q # r
      <4>1. report[q].of \in Visits => SiteOf(q) \in Sites
        BY DEF SiteOf, DayInv, DayTypeOK, Stop
      <4>2. ASSUME report[q].saved PROVE place'[SiteOf(q)'] = report[q].from
        <5>1. place[SiteOf(q)] = report[q].from /\ report[q].from \in Places /\ report[q].of \in Visits
          BY <4>2 DEF DayInv, LessonsKept
        <5>2. SiteOf(q) # SiteOf(r)
          BY <5>1, <2>0, <1>8
        <5> QED  BY <5>1, <5>2, <4>1, <2>0, <1>6, <3>2
      <4>3. ASSUME Teaching(q) PROVE place'[SiteOf(q)'] = Unknown
        <5>1. SiteOf(q) # SiteOf(r) /\ place[SiteOf(q)] = Unknown /\ report[q].of \in Visits
          BY <4>3, <3>2, <1>6, <1>11 DEF DayInv, LessonsKept
        <5> QED  BY <5>1, <4>1, <2>0, <1>6, <3>2
      <4> QED  BY <3>2, <4>2, <4>3, <1>2, <1>6 DEF DayInv, LessonsKept
    <3> QED  BY <3>1, <3>2
  <2>2. ASSUME NEW x \in Learners, NEW y \in Learners, x # y, SiteOf(x)' = SiteOf(y)'
        PROVE  ~(Teaching(x)' /\ Teaching(y)') /\ ~(report'[x].saved /\ report'[y].saved)
    <3>0. ASSUME NEW q \in Learners, q # r, report[q].saved PROVE SiteOf(q)' # SiteOf(r)'
      <4>1. place[SiteOf(q)] \in Places /\ report[q].of \in Visits
        BY <3>0 DEF DayInv, LessonsKept
      <4>2. SiteOf(q) # SiteOf(r)
        BY <4>1, <2>0, <1>8
      <4> QED  BY <4>1, <4>2, <3>0, <1>5, <1>6
    <3>1. CASE x = r
      BY <3>0, <3>1, <2>2, <1>2, <1>7, <1>11
    <3>2. CASE y = r
      BY <3>0, <3>2, <2>2, <1>2, <1>7, <1>11
    <3>3. CASE x # r /\ y # r
      BY <3>3, <2>2, <1>2, <1>6 DEF DayInv, LessonsKept
    <3> QED  BY <3>1, <3>2, <3>3
  <2> QED  BY <1>3, <1>4, <2>1, <2>2 DEF DayInv, LessonsKept
<1> QED  BY <1>9, <1>10, <1>11

LEMMA LessonBegins ==
  ASSUME DayInv, NEW r \in Learners, LearnBegins(r)
  PROVE  DayInv'
<1>1. report \in [Learners -> Report] /\ report[r].pc = "sent" /\ UNCHANGED <<today, stop, place, home, jobs>>
  BY DEF DayInv, DayTypeOK, Report, LearnBegins
<1>2. ~report[r].saved /\ stop' \in [Visits -> Stop] /\ place' \in [Sites -> Places \cup {Unknown}]
  BY <1>1 DEF DayInv, DayTypeOK, LessonsKept
<1>3. CASE report' = [report EXCEPT ![r].pc = "ended"]
  <2> DEFINE n == [report[r] EXCEPT !.pc = "ended"]
  <2>1. /\ n \in Report /\ n.of = report[r].of /\ n.from = report[r].from /\ n.pc = "ended"
        /\ n.saved = report[r].saved
    BY <1>1 DEF Report
  <2>2. report' = [report EXCEPT ![r] = n]
    BY <1>1, <1>3
  <2> HIDE DEF n
  <2> QED  BY <1>1, <1>2, <2>1, <2>2, ReportMoves
<1>4. CASE /\ ~SiteLocked(SiteOf(r))
           /\ report' = [report EXCEPT ![r].pc = "locked", ![r].first = Unlearnt(SiteOf(r))]
  <2> DEFINE u == Unlearnt(SiteOf(r))
             n == [report[r] EXCEPT !.pc = "locked", !.first = u]
  <2>1. u \in BOOLEAN /\ (u => place[SiteOf(r)] = Unknown)
    BY DEF Unlearnt
  <2>2. report' = [report EXCEPT ![r] = n]
    <3> HIDE DEF u
    <3>1. report' = [report EXCEPT ![r].pc = "locked", ![r].first = u]
      BY <1>4 DEF u
    <3> QED  BY <1>1, <3>1
  <2> HIDE DEF u
  <2>3. /\ n \in Report /\ n.of = report[r].of /\ n.from = report[r].from /\ n.pc = "locked"
        /\ n.saved = report[r].saved /\ n.first = u
    BY <1>1, <2>1 DEF Report
  <2> HIDE DEF n
  <2>4. \A q \in Learners : Teaching(q) => SiteOf(q) # SiteOf(r)
    BY <1>4 DEF SiteLocked, Teaching, SiteOf
  <2> QED  BY <1>1, <1>2, <2>1, <2>2, <2>3, <2>4, ReportMoves
<1> QED  BY <1>3, <1>4 DEF LearnBegins, SiteOf

LEMMA LessonCommits ==
  ASSUME DayInv, NEW r \in Learners, LearnCommits(r)
  PROVE  DayInv'
<1> DEFINE v == report[r].of
           n == [report[r] EXCEPT !.pc = "ended", !.saved = report[r].first]
<1>1. report \in [Learners -> Report] /\ report[r].pc = "locked" /\ UNCHANGED <<today, home, jobs>>
  BY DEF DayInv, DayTypeOK, Report, LearnCommits
<1>2. v \in Visits /\ report[r].from \in Places /\ ~report[r].saved
  BY <1>1 DEF DayInv, LessonsKept
<1>3. stop \in [Visits -> Stop] /\ place \in [Sites -> Places \cup {Unknown}] /\ SiteOf(r) = stop[v].site
  BY DEF DayInv, DayTypeOK, SiteOf
<1>4. /\ n \in Report /\ n.of = report[r].of /\ n.from = report[r].from /\ n.pc = "ended"
      /\ n.saved = report[r].first
  BY <1>1 DEF Report
<1>5. report' = [report EXCEPT ![r] = n]
  BY <1>1 DEF LearnCommits
<1>6. /\ stop' \in [Visits -> Stop]
      /\ \A w \in Visits : stop'[w].site = stop[w].site /\ stop'[w].status = stop[w].status
  <2>1. CASE stop[v].own = Unknown
    <3> DEFINE m == [stop[v] EXCEPT !.own = report[r].from]
    <3>1. m \in Stop /\ m.site = stop[v].site /\ m.status = stop[v].status
      BY <1>2, <1>3 DEF Stop
    <3>2. stop' = [stop EXCEPT ![v] = m]
      BY <2>1, <1>3 DEF LearnCommits
    <3> HIDE DEF m, v, n
    <3> QED  BY <1>2, <1>3, <3>1, <3>2
  <2>2. CASE stop[v].own # Unknown
    BY <2>2, <1>3 DEF LearnCommits
  <2> QED  BY <2>1, <2>2
<1>7. CASE report[r].first
  <2>1. place' = [place EXCEPT ![SiteOf(r)] = report[r].from]
    BY <1>3, <1>7 DEF LearnCommits
  <2>2. place' \in [Sites -> Places \cup {Unknown}]
    BY <1>2, <1>3, <2>1
  <2>3. Teaching(r) /\ n.saved
    BY <1>1, <1>4, <1>7 DEF Teaching
  <2> HIDE DEF n, v
  <2> QED  BY <1>1, <1>4, <1>5, <1>6, <2>1, <2>2, <2>3, ReportMoves
<1>8. CASE ~report[r].first
  <2>1. place' = place /\ ~n.saved
    BY <1>4, <1>8 DEF LearnCommits
  <2> HIDE DEF n, v
  <2> QED  BY <1>1, <1>3, <1>4, <1>5, <1>6, <2>1, ReportMoves
<1> QED  BY <1>7, <1>8

(* What the page says of the tour follows from the order of the tour.      *)
LEMMA PageRight == DayTypeOK => PageIsTrue
<1> SUFFICES ASSUME DayTypeOK PROVE PageIsTrue
  OBVIOUS
<1> DEFINE s == MyDay.stops
           d == MyDay.done
           c == DayPage.cards
           Urgent(i) == Scheduled(s[i]) /\ stop[s[i]].when < Starts
<1>1. /\ \A i, j \in DOMAIN s : i < j /\ Scheduled(s[j]) => Scheduled(s[i]) /\ stop[s[i]].when <= stop[s[j]].when
      /\ \A v \in Visits : Open(v) /\ (Scheduled(v) => stop[v].when < Starts + DayLength) =>
           v \in Range(s) \/ Len(s) + Len(d) = MaxStops
  BY TourRight DEF TourIsRight
<1>2. /\ DOMAIN c = DOMAIN s
      /\ \A i \in DOMAIN s : (c[i].overdue <=> Urgent(i)) /\ (c[i].next <=> i = 1)
  BY DEF DayPage, StopCard, Overdue
<1>3. DayPage.done = d /\ (DayPage.says # "to do" => s = <<>>)
  BY DEF DayPage
<1>4. \A i \in DOMAIN s : s[i] \in Visits /\ i \in Nat \ {0}
  <2> DEFINE st == {v \in Rows : Open(v)}
  <2>1. st \in SUBSET Visits
    BY DEF Rows
  <2>2. s = OrderStops(st)
    BY DEF MyDay
  <2> HIDE DEF st, s
  <2>3. PICK x, y, z : Parts(s, st, x, y, z)
    BY <2>1, <2>2, StopsHaveParts
  <2>4. ASSUME NEW i \in DOMAIN s PROVE s[i] \in Visits /\ i \in Nat \ {0}
    <3>1. i \in Int /\ 1 <= i /\ s[i] \in st
      BY <2>1, <2>3, WhichPart
    <3> QED  BY <2>1, <3>1
  <2> QED  BY <2>4
<1> HIDE DEF s, d, c
<1>5. ASSUME NEW i \in DOMAIN c, NEW j \in DOMAIN c, c[j].overdue, i < j \/ c[i].next PROVE c[i].overdue
  <2>1. i \in DOMAIN s /\ j \in DOMAIN s /\ Urgent(j) /\ s[i] \in Visits /\ s[j] \in Visits
    BY <1>2, <1>4, <1>5
  <2>2. CASE i = j
    BY <1>5, <2>2
  <2>3. CASE i # j
    <3>1. i < j
      BY <1>2, <1>4, <1>5, <2>1, <2>3
    <3>2. Scheduled(s[i]) /\ stop[s[i]].when <= stop[s[j]].when
      BY <1>1, <2>1, <3>1
    <3>3. stop[s[i]].when \in Nat /\ stop[s[j]].when \in Nat
      BY <2>1, <3>2, EarlierIs DEF Scheduled
    <3>4. Starts \in Nat
      BY DayAssumption DEF DayTypeOK, Starts
    <3>5. stop[s[i]].when < Starts
      BY <2>1, <3>2, <3>3, <3>4
    <3> QED  BY <1>2, <2>1, <3>2, <3>5
  <2> QED  BY <2>2, <2>3
<1>6. ASSUME s = <<>>, NEW v \in Visits, Open(v), Scheduled(v) => stop[v].when < Starts + DayLength
      PROVE  Len(d) = MaxStops
  <2>1. v \notin Range(s) /\ Len(s) = 0
    BY <1>6 DEF Range
  <2>2. Len(s) + Len(d) = MaxStops
    BY <1>1, <1>6, <2>1
  <2>3. Len(d) \in Nat
    <3>1. {w \in Rows : ~Open(w)} \in SUBSET Visits
      BY DEF Rows
    <3> QED  BY <3>1, InOrderIs, SeqOf DEF d, MyDay
  <2> QED  BY <2>1, <2>2, <2>3
<1> QED  BY <1>3, <1>5, <1>6 DEF PageIsTrue, c

LEMMA DayHolds == DayInv => DayIsRight
<1> SUFFICES ASSUME DayInv PROVE DayIsRight
  OBVIOUS
<1>1. DayTypeOK /\ TourIsRight /\ PageIsTrue
  BY TourRight, PageRight DEF DayInv
<1>2. JobsAreListed
  <2> SUFFICES ASSUME jobs.asked = {"open", "closed"}, NEW v \in Visits \ jobs.moved
               PROVE  /\ Open(v) => JobCard(v, FALSE) \in JobsPage.cards \/ JobsPage.warns
                      /\ stop[v].status = "CLOSED" =>
                           JobCard(v, TRUE) \in JobsPage.cards \/ FullAfter(jobs.closed, v)
                      /\ ~({JobCard(v, FALSE), JobCard(v, TRUE)} \subseteq JobsPage.cards)
                      /\ JobsPage.cards = {} /\ ~JobsPage.warns => ~Mine(v)
    BY DEF JobsAreListed, FullAfter
  <2>1. /\ Open(v) => v \in jobs.open \/ jobs.cut
        /\ v \in jobs.open => Open(v)
        /\ v \in jobs.closed => stop[v].status = "CLOSED"
        /\ stop[v].status = "CLOSED" => v \in jobs.closed \/ FullAfter(jobs.closed, v)
    BY DEF DayInv, JobsKept
  <2>2. /\ v \in jobs.open => JobCard(v, FALSE) \in JobsPage.cards
        /\ v \in jobs.closed => JobCard(v, TRUE) \in JobsPage.cards
        /\ JobsPage.warns = jobs.cut
    BY DEF JobsPage
  <2>3. JobCard(v, FALSE) \in JobsPage.cards => v \in jobs.open
    BY DEF JobsPage, JobCard
  <2>4. JobCard(v, TRUE) \in JobsPage.cards => v \in jobs.closed
    BY DEF JobsPage, JobCard
  <2>5. ASSUME JobsPage.cards = {}, ~JobsPage.warns PROVE ~Mine(v)
    <3>1. jobs.closed = {}
      BY <2>5 DEF JobsPage
    <3>2. ~FullAfter(jobs.closed, v)
      BY <3>1, FS_EmptySet, DayAssumption DEF FullAfter
    <3>3. stop[v].status \in {"AWAY", "ASSIGNED", "CLOSED"}
      BY <1>1 DEF DayTypeOK, Stop
    <3> QED  BY <2>1, <2>2, <2>5, <3>1, <3>2, <3>3 DEF Open, Mine
  <2> QED  BY <2>1, <2>2, <2>3, <2>4, <2>5 DEF Open
<1>3. LessonsAreTrue
  BY DEF LessonsAreTrue, DayInv, LessonsKept, SiteOf
<1> QED  BY <1>1, <1>2, <1>3 DEF DayIsRight

(* The tour of the day shows what is due in an order one can drive, the list *)
(* of jobs loses no open one unsaid and of the closed ones only what was     *)
(* created before the last twenty, and a place once taught is not replaced:  *)
(* myDay, orderStops, fetchMyJobs and learnSiteLocation, for any visits,     *)
(* places, phones and limits.                                                *)
THEOREM DayRight == DaySpec => []DayIsRight
<1>1. ASSUME NEW phones \in SUBSET Learners, NEW listing \in BOOLEAN,
             DayInit([Visits -> Stop], [Sites -> Places \cup {Unknown}], Places \cup {Unknown}, phones, listing)
      PROVE  DayInv
  BY <1>1, DayStarts
<1>2. DayInv /\ [\E last \in Nat : DayNext(last)]_dayVars => DayInv'
  <2> SUFFICES ASSUME DayInv, [\E last \in Nat : DayNext(last)]_dayVars PROVE DayInv'
    OBVIOUS
  <2>1. CASE UNCHANGED dayVars
    <3>1. 0 \in Nat
      OBVIOUS
    <3> QED  BY <2>1, <3>1, DayPasses
  <2>2. ASSUME NEW last \in Nat, DayNext(last) PROVE DayInv'
    BY <2>2, DayPasses, JobsRead, OfficeTurns, VisitCloses, LessonBegins, LessonCommits DEF DayNext
  <2> QED  BY <2>1, <2>2
<1>3. (\E phones \in SUBSET Learners, listing \in BOOLEAN :
         DayInit([Visits -> Stop], [Sites -> Places \cup {Unknown}], Places \cup {Unknown}, phones, listing))
      => DayInv
  BY <1>1
<1> QED  BY <1>2, <1>3, DayHolds, PTL DEF DaySpec
=============================================================================
