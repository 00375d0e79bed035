------------------------------- MODULE Booking -------------------------------
(***************************************************************************)
(* modules/equipment/equipment.service.ts: staff remind a customer that    *)
(* equipment is due, with a link; the customer books a visit through it,   *)
(* which creates a task, any number of times and at once.  Links and tasks *)
(* are what is committed; a row lock is held by the transactions whose     *)
(* place (pc, making) says so.  Nothing here detects deadlocks: that every *)
(* request ends shows that the locks are taken in one order.               *)
(***************************************************************************)
EXTENDS PublicLinks, Naturals

CONSTANTS
  Units,    \* pieces of equipment; SubjectOf[m] is the one reminder m is about
  Taps,     \* requests of customers
  Faults,   \* subset of {"abort", "lost"}
  NoLink

ASSUME BookingAssumption ==
  /\ SubjectOf \in [Makers -> Units]
  /\ Taps \cap Makers = {} /\ NoLink \notin Makers
  /\ Faults \subseteq {"abort", "lost"}

VARIABLES
  active,   \* units whose isActive is set
  used,     \* links whose usedAt is set
  tasks,    \* tasks, each named by the tap that created it
  closed,   \* those of them that are CLOSED
  pc,       \* pc[r]: where request r is
  token,    \* token[r]: the link that tap r uses
  reply     \* reply[r]: what the caller of r was answered

rowVars == <<active, used, tasks, closed>>
vars == <<rowVars, pc, token, reply, linkVars>>

Requests == Makers \cup Taps
UnitOf(r) == SubjectOf[token[r]]

TypeOK ==
  /\ LinkTypeOK
  /\ active \subseteq Units
  /\ used \subseteq Makers
  /\ tasks \subseteq Taps /\ closed \subseteq tasks
  /\ pc \in [Requests -> {"new", "reminding", "resolved", "marked", "locked", "creating", "ended"}]
  /\ token \in [Taps -> Makers \cup {NoLink}]
  /\ reply \in [Requests -> {"none", "ok", "NotFound", "Conflict", "BadRequest", "Error"}]

Init ==
  /\ LinkInit
  /\ active = Units
  /\ used = {} /\ tasks = {} /\ closed = {}
  /\ pc = [r \in Requests |-> "new"]
  /\ token = [r \in Taps |-> NoLink]
  /\ reply = [r \in Requests |-> "none"]

Goto(r, l) == pc' = [pc EXCEPT ![r] = l]
End(r, x) == Goto(r, "ended") /\ reply' = [reply EXCEPT ![r] = x]

(* hasOpenTask: tasks are created with an equipmentId only by book *)
OpenTasks(e) == {t \in tasks \ closed : UnitOf(t) = e}

(* The transactions that hold the row of link m, and of unit e FOR UPDATE, *)
(* and those that share the key of e.                                      *)
Marking(m) == {r \in Taps : token[r] = m /\ pc[r] \in {"marked", "locked", "creating"}}
Locking(e) == {r \in Taps : pc[r] \in {"locked", "creating"} /\ UnitOf(r) = e}
KeyShares(e) == {m \in Makers : making[m] = "linked" /\ SubjectOf[m] = e}

-----------------------------------------------------------------------------
(* Staff: update, remind; and the close of a task, which writes the        *)
(* equipment's lastServicedAt.                                             *)

SetActive(e) ==
  /\ Locking(e) = {}
  /\ active' = IF e \in active THEN active \ {e} ELSE active \cup {e}
  /\ UNCHANGED <<used, tasks, closed, pc, token, reply, linkVars>>

CloseTask(t) ==
  /\ t \in tasks \ closed /\ Locking(UnitOf(t)) = {}
  /\ closed' = closed \cup {t}
  /\ UNCHANGED <<active, used, tasks, pc, token, reply, linkVars>>

RemindReads(m) ==
  LET e == SubjectOf[m] IN
  /\ pc[m] = "new"
  /\ \/ e \in active /\ OpenTasks(e) = {} /\ Goto(m, "reminding") /\ UNCHANGED reply
     \/ e \in active /\ OpenTasks(e) # {} /\ End(m, "Conflict")
     \/ e \notin active /\ End(m, "NotFound")
  /\ UNCHANGED <<rowVars, token, linkVars>>

RemindLinks(m) ==
  /\ pc[m] = "reminding"
  /\ \/ RevokeBegins(m)
     \/ RevokeEnds(m) /\ \A l \in targets[m] : Marking(l) = {}
     \/ Insert(m) /\ Locking(SubjectOf[m]) = {}
  /\ UNCHANGED <<rowVars, pc, token, reply>>

(* lastReminderAt, commit; the answer may be lost *)
RemindCommits(m) ==
  /\ pc[m] = "reminding"
  /\ Publish(m)
  /\ \/ End(m, "ok")
     \/ "lost" \in Faults /\ End(m, "Error")
  /\ UNCHANGED <<rowVars, token>>

LinkExpires(m) ==
  /\ Expire(m)
  /\ UNCHANGED <<rowVars, pc, token, reply>>

-----------------------------------------------------------------------------
(* book *)

BookResolves(r) ==
  /\ pc[r] = "new"
  /\ \E m \in Makers :
       /\ reply[m] = "ok"
       /\ token' = [token EXCEPT ![r] = m]
       /\ \/ Resolves(m) /\ Goto(r, "resolved") /\ UNCHANGED reply
          \/ ~Resolves(m) /\ End(r, "NotFound")
  /\ UNCHANGED <<rowVars, linkVars>>

LinkRowFree(m) == Marking(m) = {} /\ \A o \in Makers : m \notin Holding(o)

(* mutant: usedAt is not tested *)
MBookMarks(r) ==
  /\ pc[r] = "resolved" /\ LinkRowFree(token[r])
  /\ Goto(r, "marked") /\ UNCHANGED reply
  /\ UNCHANGED <<rowVars, token, linkVars>>

(* usedAt is set, not yet committed, if it was null; nothing else of the   *)
(* link is looked at again                                                 *)
BookMarks(r) ==
  /\ pc[r] = "resolved" /\ LinkRowFree(token[r])
  /\ \/ token[r] \notin used /\ Goto(r, "marked") /\ UNCHANGED reply
     \/ token[r] \in used /\ End(r, "Conflict")
  /\ UNCHANGED <<rowVars, token, linkVars>>

(* mutant: SELECT without FOR UPDATE *)
MUnitRowFree(e) == e \in Units

UnitRowFree(e) == Locking(e) = {} /\ KeyShares(e) = {}

(* SELECT ... FOR UPDATE; a refusal rolls the mark back *)
BookLocks(r) ==
  /\ pc[r] = "marked" /\ UnitRowFree(UnitOf(r))
  /\ \/ UnitOf(r) \in active /\ Goto(r, "locked") /\ UNCHANGED reply
     \/ UnitOf(r) \notin active /\ End(r, "NotFound")
  /\ UNCHANGED <<rowVars, token, linkVars>>

(* mutant: a refused booking keeps its locks *)
MBookChecks(r) ==
  /\ pc[r] = "locked" /\ OpenTasks(UnitOf(r)) = {}
  /\ Goto(r, "creating")
  /\ UNCHANGED <<rowVars, token, reply, linkVars>>

BookChecks(r) ==
  /\ pc[r] = "locked"
  /\ \/ OpenTasks(UnitOf(r)) = {} /\ Goto(r, "creating") /\ UNCHANGED reply
     \/ OpenTasks(UnitOf(r)) # {} /\ End(r, "Conflict")
  /\ UNCHANGED <<rowVars, token, linkVars>>

(* task.create, the outbox row, commit; the answer may be lost *)
BookCommits(r) ==
  /\ pc[r] = "creating"
  /\ used' = used \cup {token[r]}
  /\ tasks' = tasks \cup {r}
  /\ \/ End(r, "ok")
     \/ "lost" \in Faults /\ End(r, "Error")
  /\ UNCHANGED <<active, closed, token, linkVars>>

-----------------------------------------------------------------------------
(* A timeout of the transaction, a failing statement, a dying process. *)
Abort(r) ==
  /\ "abort" \in Faults /\ pc[r] \notin {"new", "ended"}
  /\ End(r, "Error")
  /\ \/ r \in Makers /\ Withdraw(r)
     \/ r \in Taps /\ UNCHANGED linkVars
  /\ UNCHANGED <<rowVars, token>>

RemindStep(m) == RemindReads(m) \/ RemindLinks(m) \/ RemindCommits(m)

BookStep(r) ==
  \/ BookResolves(r) \/ BookMarks(r) \/ BookLocks(r) \/ BookChecks(r) \/ BookCommits(r)

Next ==
  \/ \E e \in Units : SetActive(e)
  \/ \E t \in Taps : CloseTask(t)
  \/ \E m \in Makers : RemindStep(m) \/ LinkExpires(m)
  \/ \E r \in Taps : BookStep(r)
  \/ \E r \in Requests : Abort(r)

Spec == Init /\ [][Next]_vars

(* A request that has begun goes on as soon as its locks are free. *)
FairSpec ==
  /\ Spec
  /\ \A m \in Makers : WF_vars(pc[m] # "new" /\ RemindStep(m))
  /\ \A r \in Taps : WF_vars(pc[r] # "new" /\ BookStep(r))

-----------------------------------------------------------------------------
(* Properties. *)

(* Whatever reminders and bookings race, through one link or several: a    *)
(* unit never has two open tasks.                                          *)
OneOpenTask == \A e \in Units : \A t, u \in OpenTasks(e) : t = u

(* A link is used up exactly by the booking that succeeded through it: a   *)
(* refused or aborted one leaves it usable, and no second task comes from  *)
(* it, not even when the first is closed.                                  *)
UsedMeansBooked ==
  /\ used = {token[t] : t \in tasks}
  /\ \A t, u \in tasks : token[t] = token[u] => t = u

(* Links in states of the right type, used up by what they booked.         *)
LinksAreSound == TypeOK /\ UsedMeansBooked

(* One open task for a unit, and one booking for a link.                   *)
BookingsAreSound == OneOpenTask /\ LinksAreSound

(* Locks of links, shared keys and locks of equipment never end in a       *)
(* circle: every request that has begun is answered.  As each is made      *)
(* once, nobody is left waiting again and again.                           *)
EveryRequestEnds == []<>(\A r \in Requests : pc[r] \in {"new", "ended"})
=============================================================================
