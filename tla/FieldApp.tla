------------------------------ MODULE FieldApp ------------------------------
(***************************************************************************)
(* frontend-pwa/src/features/jobs: the technician's phone.  The job page   *)
(* shows the task it fetched last; the checklist is ticked on the page     *)
(* only and is sent with the close.  A close is not queued: when its       *)
(* answer does not arrive the technician sends another one, and the server *)
(* may handle both, in any order.                                          *)
(***************************************************************************)
EXTENDS TaskStatus

CONSTANTS
  Closes,     \* closes the technician sends
  Items,      \* of the task's checklist
  MaxFetches, \* answers the job page receives: a bound of the model
  NoClose, Office

ASSUME FieldAppAssumption ==
  {NoClose, Office} \cap Closes = {} /\ NoClose # Office /\ MaxFetches \in Nat

VARIABLES
  done,       \* items done in the checklist of the row
  job,        \* the job page: open or not, what it fetched, the ticks
  close,      \* close[k]: how far it is, the checklist it sent, its answer
  awaited,    \* the close whose answer the dialog waits for
  told,       \* the close that the technician was last told about, and what
  closedBy    \* who closed the task

fieldVars == <<done, job, close, awaited, told, closedBy>>
appVars == <<statusVars, fieldVars>>

Task == [status : {"open", "finished"}, done : SUBSET Items]
Here == [status |-> visit.status, done |-> done]

FieldTypeOK ==
  /\ StatusTypeOK
  /\ done \subseteq Items
  /\ job \in [page : {"open", "left"}, task : Task \cup {NoView}, fetching : Task \cup {NoView},
              ticks : SUBSET Items, fetches : 0 .. MaxFetches]
  /\ close \in [Closes -> [pc : {"new", "sent", "handled", "ended"}, sent : SUBSET Items,
                           answer : {"none", "closed", "already"}]]
  /\ awaited \in Closes \cup {NoClose}
  /\ told \in [close : Closes \cup {NoClose}, what : {"none", "closed", "already"}]
  /\ closedBy \in Closes \cup {NoClose, Office}

FieldInit ==
  /\ StatusInit
  /\ done = {} /\ job = [page |-> "left", task |-> NoView, fetching |-> NoView, ticks |-> {},
                         fetches |-> 0]
  /\ close = [k \in Closes |-> [pc |-> "new", sent |-> {}, answer |-> "none"]]
  /\ awaited = NoClose /\ told = [close |-> NoClose, what |-> "none"] /\ closedBy = NoClose

-----------------------------------------------------------------------------
(* The job page. *)

OnPage == job.page = "open"

(* The query reads the task, when the page opens, is focused, is back      *)
(* online or was invalidated.                                              *)
Fetches ==
  /\ job.fetching = NoView /\ job.fetches < MaxFetches
  /\ job' = [job EXCEPT !.page = "open", !.fetching = Here, !.fetches = @ + 1]
  /\ UNCHANGED <<statusVars, done, close, awaited, told, closedBy>>

(* mutant: every answer resets the checklist of the page *)
MTicked(answer) == answer.done

(* The effect on job.data.checklist: an answer with an equal checklist     *)
(* keeps the reference of the last one, and the effect does not run.       *)
Ticked(answer) ==
  IF job.task # NoView /\ job.task.done = answer.done THEN job.ticks ELSE answer.done

FetchArrives ==
  /\ job.fetching # NoView
  /\ \/ job' = [job EXCEPT !.task = job.fetching, !.fetching = NoView,
                           !.ticks = Ticked(job.fetching)]
     \/ job' = [job EXCEPT !.fetching = NoView]
  /\ UNCHANGED <<statusVars, done, close, awaited, told, closedBy>>

Tick ==
  /\ OnPage /\ job.task # NoView /\ job.task.status = "open"
  /\ \E i \in Items : job' = [job EXCEPT !.ticks = (@ \ {i}) \cup ({i} \ @)]
  /\ UNCHANGED <<statusVars, done, close, awaited, told, closedBy>>

(* The page is left: its ticks are gone; the last answer is kept for it.   *)
Leaves ==
  /\ OnPage /\ awaited = NoClose /\ job.task # NoView
  /\ job' = [job EXCEPT !.page = "left", !.fetching = NoView, !.ticks = job.task.done]
  /\ UNCHANGED <<statusVars, done, close, awaited, told, closedBy>>

-----------------------------------------------------------------------------
(* Closing the task. *)

CloseSends(k) ==
  /\ close[k].pc = "new" /\ awaited = NoClose
  /\ OnPage /\ job.task # NoView /\ job.task.status = "open"
  /\ close' = [close EXCEPT ![k].pc = "sent", ![k].sent = job.ticks]
  /\ awaited' = k
  /\ UNCHANGED <<statusVars, done, job, told, closedBy>>

StillOpen == IsOpen

(* close of tasks.service, in one transaction *)
CloseHandled(k) ==
  /\ close[k].pc = "sent"
  /\ \/ /\ StillOpen
        /\ visit' = [visit EXCEPT !.status = "finished"] /\ done' = close[k].sent /\ closedBy' = k
        /\ close' = [close EXCEPT ![k].pc = "handled", ![k].answer = "closed"]
     \/ /\ ~StillOpen
        /\ close' = [close EXCEPT ![k].pc = "handled", ![k].answer = "already"]
        /\ UNCHANGED <<visit, done, closedBy>>
  /\ UNCHANGED <<page, departure, agreed, job, awaited, told>>

(* onSuccess: success or information; the job is invalidated *)
CloseAnswered(k) ==
  /\ awaited = k /\ close[k].pc = "handled"
  /\ awaited' = NoClose /\ told' = [close |-> k, what |-> close[k].answer]
  /\ close' = [close EXCEPT ![k].pc = "ended"]
  /\ UNCHANGED <<statusVars, done, job, closedBy>>

(* The connection is lost: the dialog shows an error.  The request may     *)
(* still be on its way.                                                    *)
CloseLost ==
  /\ awaited # NoClose /\ awaited' = NoClose
  /\ UNCHANGED <<statusVars, done, job, close, told, closedBy>>

(* ... or never arrives, or was handled unheard. *)
CloseForgotten(k) ==
  /\ close[k].pc \in {"sent", "handled"} /\ awaited # k
  /\ close' = [close EXCEPT ![k].pc = "ended"]
  /\ UNCHANGED <<statusVars, done, job, awaited, told, closedBy>>

(* A manager closes it, with a checklist or as it is. *)
OfficeCloses ==
  /\ IsOpen /\ visit' = [visit EXCEPT !.status = "finished"] /\ closedBy' = Office
  /\ done' \in SUBSET Items
  /\ UNCHANGED <<page, departure, agreed, job, close, awaited, told>>

Phone == Fetches \/ FetchArrives \/ Tick \/ Leaves \/ CloseLost
           \/ \E k \in Closes : CloseSends(k) \/ CloseAnswered(k)
Server == OfficeCloses \/ \E k \in Closes : CloseHandled(k) \/ CloseForgotten(k)

FieldNext == Phone \/ Server \/ ((Business \/ Customer) /\ UNCHANGED fieldVars)

FieldSpec == FieldInit /\ [][FieldNext]_appVars

-----------------------------------------------------------------------------
(* What the technician is told is what happened: "closed" is the close     *)
(* that closed the task and whose checklist was saved, "already closed"    *)
(* one that changed nothing because the office or an earlier close of the  *)
(* phone, whose answer was lost, had closed it.                            *)
ToldIsTrue ==
  /\ told.what = "closed" => closedBy = told.close /\ done = close[told.close].sent
  /\ told.what = "already" =>
       closedBy \notin {NoClose, told.close} /\ close[told.close].answer = "already"

(* The customer and the technician were told the truth. *)
VisitIsTrue == FieldTypeOK /\ ConfirmedIsCurrent /\ ToldIsTrue

(* The ticks of an open page survive every answer of the server for as     *)
(* long as nobody has closed the task: a refetch while the technician is   *)
(* at work does not throw away what was ticked and not sent yet.           *)
TicksAreKept ==
  [][IsOpen /\ OnPage /\ OnPage' /\ job.task # NoView /\ job'.fetching # job.fetching
       => job'.ticks = job.ticks]_appVars
=============================================================================
