------------------------------ MODULE TaskBoard ------------------------------
(***************************************************************************)
(* modules/tasks/tasks.service.ts and modules/scheduling/                  *)
(* scheduling.service.ts: tasks of one tenant are created, assigned to a   *)
(* technician by score - on every delivery of task.created and whenever a  *)
(* manager asks - and closed.  status and assignee are what is committed.  *)
(* An assignment locks the rows of all technicians FOR UPDATE; a close     *)
(* locks its task and then, for the foreign key of its audit row, shares   *)
(* the key of the technician who closes.  The code never sets IN_PROGRESS  *)
(* or CANCELLED.                                                           *)
(***************************************************************************)
EXTENDS Naturals, FiniteSets

CONSTANTS
  Tasks,
  Techs,              \* active technicians, numbered in the order of their ids
  Skilled,            \* Skilled[t]: those who have the skill task t requires
  Score(_, _, _),     \* Score(t, u, load): the score of u for t
  Assigns, Closes,    \* calls of assignTask and of close
  MayAbort,           \* whether transactions may fail
  Office, Nobody, NoTask

ASSUME TaskBoardAssumption ==
  /\ IsFiniteSet(Tasks) /\ Techs \subseteq Nat
  /\ Skilled \in [Tasks -> SUBSET Techs]
  /\ Assigns \cap Closes = {} /\ NoTask \notin Tasks
  /\ Office \notin Techs /\ Nobody \notin Techs
  /\ MayAbort \in BOOLEAN

VARIABLES
  status,     \* status[t]: of the row of t, or "NONE"
  assignee,   \* assignee[t]: assignedToUserId
  closings,   \* closings[t]: number of task.closed rows written for t
  told,       \* the task.assigned rows: pairs of a task and a technician
  pc,         \* pc[r]: where request r is
  of,         \* of[r]: its task while it is under way
  by,         \* by[c]: who closes it, a technician or the office
  load,       \* load[a]: the load assignment a has counted, per technician
  pick,       \* pick[a]: the technician it has chosen
  hit         \* history: tasks of assignments that a fault or a deadlock ended

boardVars == <<status, assignee, closings, told, pc, of, by, load, pick, hit>>

Requests == Assigns \cup Closes
NoLoad == [u \in Techs |-> 0]

BoardTypeOK ==
  /\ status \in [Tasks -> {"NONE", "NEW", "ASSIGNED", "CLOSED"}]
  /\ assignee \in [Tasks -> Techs \cup {Nobody}]
  /\ closings \in [Tasks -> 0..1]
  /\ told \subseteq Tasks \X Techs
  /\ pc \in [Requests -> {"new", "read", "locked", "counted", "telling", "closing", "ended"}]
  /\ of \in [Requests -> Tasks \cup {NoTask}]
  /\ by \in [Closes -> Techs \cup {Office}]
  /\ load \in [Assigns -> [Techs -> 0..Cardinality(Tasks)]]
  /\ pick \in [Assigns -> Techs \cup {Nobody}]
  /\ hit \subseteq Tasks

BoardInit ==
  /\ status = [t \in Tasks |-> "NONE"]
  /\ assignee = [t \in Tasks |-> Nobody]
  /\ closings = [t \in Tasks |-> 0]
  /\ told = {} /\ hit = {}
  /\ pc = [r \in Requests |-> "new"]
  /\ of = [r \in Requests |-> NoTask]
  /\ by = [c \in Closes |-> Office]
  /\ load = [a \in Assigns |-> NoLoad]
  /\ pick = [a \in Assigns |-> Nobody]

Moves(r, l) == pc' = [pc EXCEPT ![r] = l]

(* r is over, whatever it has done. *)
End(r) == Moves(r, "ended") /\ of' = [of EXCEPT ![r] = NoTask]

(* mutant: the technicians are read without FOR UPDATE *)
MLockers == {}

(* Who holds the row of t, and the rows of the technicians. *)
ClosersOf(t) == {c \in Closes : pc[c] = "closing" /\ of[c] = t}
Lockers == {a \in Assigns : pc[a] \in {"locked", "counted"}}

(* createManual, createFromEmail: with the task.created row *)
Create(t) ==
  /\ status[t] = "NONE"
  /\ status' = [status EXCEPT ![t] = "NEW"]
  /\ UNCHANGED <<assignee, closings, told, pc, of, by, load, pick, hit>>

-----------------------------------------------------------------------------
(* assignTask *)

AssignReads(a) ==
  /\ pc[a] = "new"
  /\ \E t \in Tasks :
       /\ status[t] # "NONE"
       /\ \/ status[t] # "CLOSED" /\ Moves(a, "read") /\ of' = [of EXCEPT ![a] = t]
          \/ status[t] = "CLOSED" /\ End(a)
  /\ UNCHANGED <<status, assignee, closings, told, by, load, pick, hit>>

(* The locks conflict with the key that a technician's close will share,   *)
(* which is held only in its last instant.                                 *)
AssignLocks(a) ==
  /\ pc[a] = "read" /\ Lockers = {}
  /\ \/ Skilled[of[a]] # {} /\ Moves(a, "locked") /\ UNCHANGED of
     \/ Skilled[of[a]] = {} /\ End(a)
  /\ UNCHANGED <<status, assignee, closings, told, by, load, pick, hit>>

LoadOf(u) == Cardinality({t \in Tasks : status[t] = "ASSIGNED" /\ assignee[t] = u})

AssignCounts(a) ==
  /\ pc[a] = "locked"
  /\ load' = [load EXCEPT ![a] = [u \in Techs |-> LoadOf(u)]]
  /\ Moves(a, "counted")
  /\ UNCHANGED <<status, assignee, closings, told, of, by, pick, hit>>

(* u has the best score, and is the first in order of ids among equals. *)
Best(a, u) ==
  LET S(v) == Score(of[a], v, load[a][v]) IN
  \A v \in Skilled[of[a]] \ {u} : S(u) > S(v) \/ (S(u) = S(v) /\ u < v)

(* mutant: a task that was closed meanwhile is assigned all the same *)
MAssignable(t) == status[t] # "NONE"

Assignable(t) == status[t] \in {"NEW", "ASSIGNED"}

(* updateMany under its condition, commit *)
AssignWrites(a) ==
  LET t == of[a] IN
  /\ pc[a] = "counted" /\ ClosersOf(t) = {}
  /\ load' = [load EXCEPT ![a] = NoLoad]
  /\ \/ /\ Assignable(t)
        /\ status' = [status EXCEPT ![t] = "ASSIGNED"]
        /\ \E u \in Skilled[t] :
             /\ Best(a, u)
             /\ assignee' = [assignee EXCEPT ![t] = u]
             /\ pick' = [pick EXCEPT ![a] = u]
        /\ Moves(a, "telling") /\ UNCHANGED of
     \/ ~Assignable(t) /\ End(a) /\ UNCHANGED <<status, assignee, pick>>
  /\ UNCHANGED <<closings, told, by, hit>>

(* mutant: only the first technician of a task is told *)
MAssignTells(a) ==
  /\ pc[a] = "telling"
  /\ told' = IF \E u \in Techs : <<of[a], u>> \in told THEN told
             ELSE told \cup {<<of[a], pick[a]>>}
  /\ pick' = [pick EXCEPT ![a] = Nobody]
  /\ End(a)
  /\ UNCHANGED <<status, assignee, closings, by, load, hit>>

(* The row of task.assigned, in a transaction of its own. *)
AssignTells(a) ==
  /\ pc[a] = "telling"
  /\ told' = told \cup {<<of[a], pick[a]>>}
  /\ pick' = [pick EXCEPT ![a] = Nobody]
  /\ End(a)
  /\ UNCHANGED <<status, assignee, closings, by, load, hit>>

(* An error; handleTaskCreated logs it and counts as success. *)
AssignFails(a) ==
  /\ End(a)
  /\ load' = [load EXCEPT ![a] = NoLoad]
  /\ pick' = [pick EXCEPT ![a] = Nobody]
  /\ hit' = hit \cup {of[a]}
  /\ UNCHANGED <<status, assignee, closings, told, by>>

-----------------------------------------------------------------------------
(* close *)

(* mutant: a task can be closed again *)
MClosable(t, who) == status[t] # "NONE" /\ (who = Office \/ assignee[t] = who)

(* taskScopeFor, and the condition on the status *)
Closable(t, who) ==
  status[t] \in {"NEW", "ASSIGNED"} /\ (who = Office \/ assignee[t] = who)

(* updateMany; count = 0 is "already closed" or 404 and changes nothing *)
CloseUpdates(c) ==
  /\ pc[c] = "new"
  /\ \E t \in Tasks, who \in Techs \cup {Office} :
       /\ status[t] # "NONE" /\ ClosersOf(t) = {}
       /\ \/ /\ Closable(t, who)
             /\ of' = [of EXCEPT ![c] = t]
             /\ by' = [by EXCEPT ![c] = who]
             /\ Moves(c, "closing")
          \/ ~Closable(t, who) /\ End(c) /\ UNCHANGED by
  /\ UNCHANGED <<status, assignee, closings, told, load, pick, hit>>

(* The audit row of a technician waits for assignments; then the           *)
(* equipment, the task.closed row, commit.                                 *)
CloseCommits(c) ==
  /\ pc[c] = "closing"
  /\ by[c] \in Techs => Lockers = {}
  /\ status' = [status EXCEPT ![of[c]] = "CLOSED"]
  /\ closings' = [closings EXCEPT ![of[c]] = @ + 1]
  /\ by' = [by EXCEPT ![c] = Office]
  /\ End(c)
  /\ UNCHANGED <<assignee, told, load, pick, hit>>

CloseFails(c) ==
  /\ by' = [by EXCEPT ![c] = Office]
  /\ End(c)
  /\ UNCHANGED <<status, assignee, closings, told, load, pick, hit>>

-----------------------------------------------------------------------------
(* A technician closes the task that is just being assigned: the close has *)
(* the task and wants the technician, the assignment has the technicians   *)
(* and wants the task.  PostgreSQL aborts one of them.                     *)
BreakDeadlock ==
  \E a \in Assigns, c \in Closes :
    /\ pc[a] = "counted" /\ c \in ClosersOf(of[a]) /\ by[c] \in Techs
    /\ AssignFails(a) \/ CloseFails(c)

Abort(r) ==
  /\ MayAbort /\ pc[r] \notin {"new", "ended"}
  /\ \/ r \in Assigns /\ AssignFails(r)
     \/ r \in Closes /\ CloseFails(r)

AssignStep(a) ==
  AssignReads(a) \/ AssignLocks(a) \/ AssignCounts(a) \/ AssignWrites(a) \/ AssignTells(a)

CloseStep(c) == CloseUpdates(c) \/ CloseCommits(c)

BoardNext ==
  \/ \E t \in Tasks : Create(t)
  \/ \E a \in Assigns : AssignStep(a)
  \/ \E c \in Closes : CloseStep(c)
  \/ \E r \in Requests : Abort(r)
  \/ BreakDeadlock

BoardSpec == BoardInit /\ [][BoardNext]_boardVars

(* What has begun goes on, and deadlocks are detected. *)
BoardFairSpec ==
  /\ BoardSpec
  /\ \A a \in Assigns : WF_boardVars(pc[a] # "new" /\ AssignStep(a))
  /\ \A c \in Closes : WF_boardVars(pc[c] # "new" /\ CloseStep(c))
  /\ WF_boardVars(BreakDeadlock)

-----------------------------------------------------------------------------
(* Properties. *)

(* The load that an assignment has counted is not less than the real one   *)
(* until it writes, whatever is assigned and closed at the same time.      *)
LoadIsNotUnderstated ==
  \A a \in Assigns : pc[a] = "counted" => \A u \in Techs : LoadOf(u) <= load[a][u]

(* A closed task stays closed, and with the technician who had it, also    *)
(* under assignments that had found it open.                               *)
ClosedIsFrozen ==
  [][\A t \in Tasks : status[t] = "CLOSED" =>
       status'[t] = "CLOSED" /\ assignee'[t] = assignee[t]]_boardVars

(* A task that is CLOSED has written task.closed exactly once, every other *)
(* task never: nothing is deducted, billed or mailed twice.                *)
ClosedIsToldOnce ==
  \A t \in Tasks : closings[t] = IF status[t] = "CLOSED" THEN 1 ELSE 0

(* The board is of the right type, no technician looks less loaded than    *)
(* he is, and each close is announced once.                                *)
BoardIsSound == BoardTypeOK /\ LoadIsNotUnderstated /\ ClosedIsToldOnce

(* Whoever has a task is told of it, unless a fault or a deadlock hit an   *)
(* assignment of that task or the task goes to somebody else.              *)
AssigneeIsTold ==
  \A t \in Tasks, u \in Techs :
    assignee[t] = u ~> <<t, u>> \in told \/ t \in hit \/ assignee[t] # u

(* Assignments and closes wait for each other and still all end. *)
EveryRequestEnds == \A r \in Requests : pc[r] # "new" ~> pc[r] = "ended"

(* What was begun ends, and ends in a technician who knows.                *)
TasksSettle == AssigneeIsTold /\ EveryRequestEnds
=============================================================================
