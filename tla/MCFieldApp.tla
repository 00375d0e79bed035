----------------------------- MODULE MCFieldApp -----------------------------
(* Instances of FieldApp and of Day for TLC: what the behaviour is about   *)
(* is chosen at its start.                                                 *)
EXTENDS FieldApp, Day, TLC

(* Three visits, the third more urgent than the others. *)
MCVisits == 1 .. 3
MCPriority == [v \in MCVisits |-> IF v = 3 THEN 1 ELSE 2]
MCSites == 1 .. 3
MCPlaces == {1, 4}

Row(s, w, c) == [status |-> s, when |-> w, site |-> c, own |-> Unknown]

(* Any day and any map of three customers ... *)
Maps == [MCSites -> {1, 4, Unknown}]
OpenDays == {[v \in MCVisits |-> Row("ASSIGNED", w[v], v)] : w \in [MCVisits -> {0, 1, 2, Unknown}]}

(* ... or two visits to one customer and one to another, for the list
   and for two phones. *)
Pair == [v \in MCVisits |-> Row(IF v = 3 THEN "AWAY" ELSE "ASSIGNED", Unknown, IF v = 3 THEN 2 ELSE 1)]

VARIABLE screen

phoneVars == <<appVars, dayVars, screen>>

PhoneInit ==
  /\ FieldInit
  /\ \/ screen = "job" /\ DayInit({Pair}, {[s \in MCSites |-> Unknown]}, {Unknown}, {}, FALSE)
     \/ screen = "visit" /\ DayInit({Pair}, {[s \in MCSites |-> Unknown]}, {Unknown}, {}, FALSE)
     \/ screen = "day" /\ DayInit(OpenDays, Maps, {4, Unknown}, {}, FALSE)
     \/ screen = "jobs" /\ DayInit({Pair}, {[s \in MCSites |-> Unknown]}, {Unknown}, {}, TRUE)
     \/ screen = "places" /\ DayInit({Pair}, Maps, {Unknown}, Learners, FALSE)

(* Two closes race on a job to which nobody departs, one on any other.    *)
OnJob(A) ==
  /\ A /\ UNCHANGED <<dayVars, screen>>
  /\ \/ screen = "job" /\ UNCHANGED departure
     \/ screen = "visit" /\ Cardinality({k \in Closes : close'[k].pc # "new"}) <= 1

OnDay(A) == screen \notin {"job", "visit"} /\ A /\ UNCHANGED <<appVars, screen>>

PhoneSpec == PhoneInit /\ [][OnJob(FieldNext) \/ OnDay(DayNext(1))]_phoneVars

MCSymmetry == Permutations(Pages) \cup Permutations(Closes) \cup Permutations(Learners)
=============================================================================
