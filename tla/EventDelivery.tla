--------------------------- MODULE EventDelivery ---------------------------
(***************************************************************************)
(* What the outbox promises of one domain event: once the business         *)
(* transaction has committed, every handler of the event is run until it   *)
(* has reported success, the event is then finished exactly once, or it is *)
(* given up after exactly MaxAttempts failed attempts.  Rows, batches,     *)
(* jobs, workers and processes are not visible here.  The promise is kept  *)
(* until a fault that it does not cover.                                   *)
(***************************************************************************)
EXTENDS Naturals

CONSTANTS Events, Handlers, HandlersFor, Malformed, MaxAttempts

VARIABLES
  stage,     \* stage[e]: "absent", "accepted", "done" or "dead"
  reported,  \* reported[e]: handlers that have reported success
  tries,     \* tries[e]: failed attempts
  covered    \* no fault so far that the promise does not cover

vars == <<stage, reported, tries, covered>>

TypeOK ==
  /\ stage \in [Events -> {"absent", "accepted", "done", "dead"}]
  /\ reported \in [Events -> SUBSET Handlers]
  /\ tries \in [Events -> 0..MaxAttempts]
  /\ covered \in BOOLEAN

Init ==
  /\ stage = [e \in Events |-> "absent"]
  /\ reported = [e \in Events |-> {}]
  /\ tries = [e \in Events |-> 0]
  /\ covered = TRUE

Accept(e) ==
  /\ covered /\ stage[e] = "absent"
  /\ stage' = [stage EXCEPT ![e] = "accepted"]
  /\ UNCHANGED <<reported, tries, covered>>

Report(e, h) ==
  /\ covered /\ stage[e] = "accepted" /\ e \notin Malformed
  /\ reported' = [reported EXCEPT ![e] = @ \cup {h}]
  /\ UNCHANGED <<stage, tries, covered>>

Finish(e) ==
  /\ covered /\ stage[e] = "accepted" /\ e \notin Malformed
  /\ HandlersFor[e] \subseteq reported[e]
  /\ stage' = [stage EXCEPT ![e] = "done"]
  /\ UNCHANGED <<reported, tries, covered>>

FailAttempt(e) ==
  /\ covered /\ stage[e] = "accepted" /\ tries[e] < MaxAttempts
  /\ tries' = [tries EXCEPT ![e] = @ + 1]
  /\ stage' = [stage EXCEPT ![e] = IF tries[e] + 1 = MaxAttempts THEN "dead" ELSE @]
  /\ UNCHANGED <<reported, covered>>

Deliver ==
  \E e \in Events :
    Accept(e) \/ Finish(e) \/ FailAttempt(e) \/ \E h \in HandlersFor[e] : Report(e, h)

(* The fault itself changes no event; after it nothing is promised here.   *)
Break    == covered /\ ~covered' /\ UNCHANGED <<stage, reported, tries>>
Uncovered == ~covered /\ ~covered'

Next == Deliver \/ Break \/ Uncovered

Safety == Init /\ [][Next]_vars

(* An accepted event is not left alone: it makes progress until it is      *)
(* finished or given up.                                                   *)
Spec == Safety /\ \A e \in Events : WF_vars(Finish(e) \/ FailAttempt(e))
=============================================================================
