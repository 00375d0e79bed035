----------------------------- MODULE TaskStatus -----------------------------
(***************************************************************************)
(* modules/task-status and features/public/task-status-page.tsx: one visit *)
(* to a customer.  The business sets its time and says that the technician *)
(* is on the way; the customer looks at pages opened from the links that   *)
(* were sent, confirms the time or asks for another one.  A page shows     *)
(* what it loaded last, and an action answers with a view that is read     *)
(* after the action has committed.                                         *)
(***************************************************************************)
EXTENDS Naturals

CONSTANTS
  Pages,      \* pages the customer has open
  Departures, \* calls of on-the-way
  MaxTimes,   \* times the business sets: a bound of the model
  MaxViews,   \* views a page loads: a bound of the model
  NoView

ASSUME TaskStatusAssumption == MaxTimes \in Nat /\ MaxViews \in Nat

VARIABLES
  visit,      \* the row of the task: its n-th time, and what was said about it
  page,       \* page[p]: what it shows, the view on its way to it, and its action
  departure,  \* departure[d]: how far a call of on-the-way is
  agreed      \* the time the visit had when the customer last confirmed it

statusVars == <<visit, page, departure, agreed>>

View == [status : {"open", "finished"}, time : 0 .. MaxTimes,
         customer : {"silent", "confirmed", "asked"}, technician : {"away", "coming"}]

StatusTypeOK ==
  /\ visit \in View
  /\ page \in [Pages -> [shown : View \cup {NoView}, loading : View \cup {NoView},
                         loads : 0 .. MaxViews,
                         pc : {"idle", "confirming", "asking", "viewing"}]]
  /\ departure \in [Departures -> {"new", "read", "ended"}]
  /\ agreed \in 0 .. MaxTimes

StatusInit ==
  /\ visit = [status |-> "open", time |-> 0, customer |-> "silent", technician |-> "away"]
  /\ page = [p \in Pages |-> [shown |-> NoView, loading |-> NoView, loads |-> 0, pc |-> "idle"]]
  /\ departure = [d \in Departures |-> "new"]
  /\ agreed = 0

IsOpen == visit.status = "open"

-----------------------------------------------------------------------------
(* The business. *)

(* mutant: a new time keeps the customer's answer to the old one *)
MRescheduled == [visit EXCEPT !.time = @ + 1, !.technician = "away"]

Rescheduled ==
  [visit EXCEPT !.time = @ + 1, !.customer = "silent", !.technician = "away"]

(* schedule; 409 when the task is finished *)
Schedule ==
  /\ IsOpen /\ visit.time < MaxTimes
  /\ visit' = Rescheduled
  /\ UNCHANGED <<page, departure, agreed>>

(* onTheWay reads the task without a lock; 409 when it is finished *)
Departs(d) ==
  /\ departure[d] = "new"
  /\ departure' = [departure EXCEPT ![d] = IF IsOpen THEN "read" ELSE "ended"]
  /\ UNCHANGED <<visit, page, agreed>>

(* ... and writes it by its id *)
DepartWrites(d) ==
  /\ departure[d] = "read" /\ departure' = [departure EXCEPT ![d] = "ended"]
  /\ visit' = [visit EXCEPT !.technician = "coming"]
  /\ UNCHANGED <<page, agreed>>

-----------------------------------------------------------------------------
(* The customer's page. *)

Shows(p, v) == page' = [page EXCEPT ![p].shown = v]

(* The query of the page, first and when the window is focused again: view *)
(* reads, its answer arrives later, or is lost.                            *)
Loads(p) ==
  /\ page[p].loading = NoView /\ page[p].loads < MaxViews
  /\ page' = [page EXCEPT ![p].loads = @ + 1, ![p].loading = visit]
  /\ UNCHANGED <<visit, departure, agreed>>

LoadArrives(p) ==
  /\ page[p].loading # NoView
  /\ \E v \in {page[p].loading, page[p].shown} :
       page' = [page EXCEPT ![p].shown = v, ![p].loading = NoView]
  /\ UNCHANGED <<visit, departure, agreed>>

(* The buttons: canConfirm and not confirmed; canRequestReschedule. *)
Clicks(p) ==
  /\ page[p].pc = "idle" /\ page[p].shown # NoView /\ page[p].shown.status = "open"
  /\ \/ /\ page[p].shown.time # 0 /\ page[p].shown.customer # "confirmed"
        /\ page' = [page EXCEPT ![p].pc = "confirming"]
     \/ page' = [page EXCEPT ![p].pc = "asking"]
  /\ UNCHANGED <<visit, departure, agreed>>

(* mutant: a finished task can be answered about *)
MConfirmable == visit.time # 0 /\ visit.customer # "confirmed"

Confirmable == IsOpen /\ visit.time # 0 /\ visit.customer # "confirmed"

(* confirm: whatever the time is now; confirmed already is no error, no    *)
(* time or a finished task is one.  The page stays as it is after an error.*)
Confirms(p) ==
  /\ page[p].pc = "confirming"
  /\ \/ /\ Confirmable
        /\ visit' = [visit EXCEPT !.customer = "confirmed"]
        /\ agreed' = visit.time
        /\ page' = [page EXCEPT ![p].pc = "viewing"]
     \/ /\ ~Confirmable
        /\ page' = [page EXCEPT ![p].pc = IF IsOpen /\ visit.customer = "confirmed"
                                          THEN "viewing" ELSE "idle"]
        /\ UNCHANGED <<visit, agreed>>
  /\ UNCHANGED departure

(* requestReschedule *)
Asks(p) ==
  /\ page[p].pc = "asking"
  /\ \/ /\ IsOpen
        /\ visit' = [visit EXCEPT !.customer = "asked"]
        /\ page' = [page EXCEPT ![p].pc = "viewing"]
     \/ ~IsOpen /\ page' = [page EXCEPT ![p].pc = "idle"] /\ UNCHANGED visit
  /\ UNCHANGED <<departure, agreed>>

(* The view of an action, read after it; the answer may be lost. *)
Views(p) ==
  /\ page[p].pc = "viewing"
  /\ \E v \in {visit, page[p].shown} :
       page' = [page EXCEPT ![p].shown = v, ![p].pc = "idle"]
  /\ UNCHANGED <<visit, departure, agreed>>

Business == Schedule \/ \E d \in Departures : Departs(d) \/ DepartWrites(d)
Customer == \E p \in Pages :
  Loads(p) \/ LoadArrives(p) \/ Clicks(p) \/ Confirms(p) \/ Asks(p) \/ Views(p)

-----------------------------------------------------------------------------
(* A confirmation never outlives its time: a visit that counts as          *)
(* confirmed has the time it had when the customer confirmed, whatever     *)
(* pages were open and whenever the business set another one.              *)
ConfirmedIsCurrent == visit.customer = "confirmed" => visit.time = agreed /\ agreed # 0

(* Nothing is answered or set on a finished visit: only a call of          *)
(* on-the-way that had read it before it was finished still writes.        *)
FinishedIsFrozen ==
  [][~IsOpen =>
       \/ visit' = visit
       \/ /\ visit' = [visit EXCEPT !.technician = "coming"]
          /\ \E d \in Departures : departure[d] = "read" /\ departure'[d] # "read"]_statusVars
=============================================================================
