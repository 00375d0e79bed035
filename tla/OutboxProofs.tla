---------------------------- MODULE OutboxProofs ----------------------------
(* Proofs about Outbox, for every set of events, instances, slots and      *)
(* handlers, every quota, batch size and combination of faults; and about  *)
(* TaskBoard, where one of the handlers does its work, for every set of    *)
(* tasks, technicians and requests and every score.                        *)
EXTENDS OutboxDelivery, TaskBoard, FiniteSetTheorems, TLAPS

(* A busy slot has an event and an attempt within the quota; a job that    *)
(* will still run has attempts left.                                       *)
BusyOK == \A w \in Workers : Busy(w) => wev[w] \in Events /\ wmade[w] < MaxAttempts
JobsOK ==
  \A e \in Events :
    job[e].state \in {"waiting", "active", "delayed"} => job[e].made < MaxAttempts

TypeInv == TypeOK /\ BusyOK /\ JobsOK

USE ConstantsAssumption DEF FaultKinds

LEMMA OldestIsSubset == \A S : Oldest(S) \subseteq S
  BY DEF Oldest

LEMMA InitTypeInv == Init => TypeInv
  BY DEF Init, TypeInv, TypeOK, BusyOK, JobsOK, Busy, NewRow, NoJob, RowStatus,
         JobState, WorkerPc, Workers

(* What settle_outbox_event does to the typing of the rows. *)
LEMMA SettleType ==
  ASSUME TypeOK, NEW e \in Events, NEW s \in RowStatus,
         NEW n \in 0..MaxAttempts, NEW b \in BOOLEAN, Settle(e, s, n, b)
  PROVE  row' \in [Events -> [status : RowStatus, attempts : 0..MaxAttempts,
                              deferred : BOOLEAN]]
  BY DEF TypeOK, Settle, WriteRow

LEMMA MoveJobType ==
  ASSUME TypeOK, NEW e \in Events, NEW s \in JobState, NEW m \in 0..MaxAttempts,
         NEW n \in 0..MaxStalled, NEW w \in Workers \cup {NoWorker},
         MoveJob(e, s, m, n, w),
         JobsOK, s \in {"waiting", "active", "delayed"} => m < MaxAttempts
  PROVE  /\ job' \in [Events -> [state : JobState, made : 0..MaxAttempts,
                                 stalled : 0..MaxStalled,
                                 holder : Workers \cup {NoWorker}]]
         /\ JobsOK'
  BY DEF TypeOK, MoveJob, JobsOK

(* A fault is counted, and it is noted whether it was a failed push. *)
LEMMA FaultType ==
  ASSUME TypeOK, NEW k, Fault(k)
  PROVE  faults' \in [count : 0..MaxFaults, pushOnly : BOOLEAN]
  BY DEF TypeOK, Fault

LEMMA StepTypeInv == TypeInv /\ [Next]_vars => TypeInv'
<1> SUFFICES ASSUME TypeInv, [Next]_vars PROVE TypeInv'
  OBVIOUS
<1> USE DEF TypeInv, TypeOK, BusyOK, JobsOK, Busy, pubVars, wrkVars
<1>1. ASSUME NEW e \in Events, Commit(e) PROVE TypeInv'
  BY <1>1 DEF Commit, WriteRow, RowStatus
<1>2. ASSUME NEW e \in Events, RetryRow(e) PROVE TypeInv'
  BY <1>2 DEF RetryRow, WriteRow
<1>3. ASSUME NEW e \in Events, RetryJob(e) PROVE TypeInv'
  BY <1>3, MoveJobType DEF RetryJob, JobState
<1>4. ASSUME NEW e \in Events, Remove(e) PROVE TypeInv'
  BY <1>4 DEF Remove, NoJob, JobState
<1>5. ASSUME NEW e \in Events, StalledCheck(e) PROVE TypeInv'
  BY <1>5, MoveJobType, FaultType DEF StalledCheck, JobState
<1>6. ASSUME NEW i \in Instances, Claim(i) PROVE TypeInv'
  BY <1>6, OldestIsSubset DEF Claim, Claimed, RowStatus, Eligible
<1>7. ASSUME NEW i \in Instances, NEW e \in Events, Push(i, e) PROVE TypeInv'
  BY <1>7, MoveJobType DEF Push, Add, JobState
<1>8. ASSUME NEW i \in Instances, NEW e \in Events, PushFails(i, e) PROVE TypeInv'
  BY <1>8, MoveJobType, FaultType DEF PushFails, Add, JobState
<1>9. ASSUME NEW i \in Instances, ReturnRow(i) PROVE TypeInv'
  BY <1>9, SettleType DEF ReturnRow, RowStatus
<1>10. ASSUME NEW i \in Instances, ReturnRowFails(i) PROVE TypeInv'
  BY <1>10, FaultType DEF ReturnRowFails
<1>11. ASSUME NEW i \in Instances, AlertWindowEnds(i) PROVE TypeInv'
  BY <1>11 DEF AlertWindowEnds
<1>12. ASSUME NEW i \in Instances, Crash(i) PROVE TypeInv'
  <2>1. /\ wpc' \in [Workers -> WorkerPc] /\ wev' \in [Workers -> Events \cup {NoEvent}]
        /\ wmade' \in [Workers -> 0..MaxAttempts]
        /\ wtodo' \in [Workers -> SUBSET Handlers] /\ wbad' \in [Workers -> BOOLEAN]
    <3>1. wpc' \in [Workers -> WorkerPc] /\ wmade' \in [Workers -> 0..MaxAttempts]
      BY <1>12 DEF Crash, WorkerPc
    <3>2. wev' \in [Workers -> Events \cup {NoEvent}]
      BY <1>12 DEF Crash
    <3>3. wtodo' \in [Workers -> SUBSET Handlers]
      BY <1>12 DEF Crash
    <3>4. wbad' \in [Workers -> BOOLEAN]
      BY <1>12 DEF Crash
    <3>5. QED
      BY <3>1, <3>2, <3>3, <3>4
  <2>2. batch' \in [Instances -> SUBSET Events] /\ failed' \in [Instances -> Events \cup {NoEvent}]
    BY <1>12 DEF Crash
  <2>3. up' \subseteq Instances /\ muted' \subseteq Instances /\ faults' \in [count : 0..MaxFaults, pushOnly : BOOLEAN]
    BY <1>12, FaultType DEF Crash
  <2>4. BusyOK'
    BY <1>12 DEF Crash
  <2>5. UNCHANGED <<row, job, fulfilled, alerted>>
    BY <1>12 DEF Crash
  <2>6. QED
    BY <2>1, <2>2, <2>3, <2>4, <2>5
<1>13. ASSUME NEW i \in Instances, Restart(i) PROVE TypeInv'
  BY <1>13 DEF Restart
<1>14. ASSUME NEW w \in Workers, NEW e \in Events, Take(w, e) PROVE TypeInv'
  BY <1>14, MoveJobType DEF Take, Goto, WorkerPc, JobState
<1>15. ASSUME NEW w \in Workers, NEW h \in Handlers, HandlerSucceeds(w, h) PROVE TypeInv'
  BY <1>15 DEF HandlerSucceeds
<1>16. ASSUME NEW w \in Workers, NEW h \in Handlers, HandlerRejects(w, h) PROVE TypeInv'
  BY <1>16 DEF HandlerRejects
<1>17. ASSUME NEW w \in Workers, Settled(w) PROVE TypeInv'
  BY <1>17 DEF Settled, Goto, WorkerPc
<1>18. ASSUME NEW w \in Workers, MarkDone(w) PROVE TypeInv'
  BY <1>18, SettleType DEF MarkDone, Goto, WorkerPc, RowStatus
<1>19. ASSUME NEW w \in Workers, MarkDoneFails(w) PROVE TypeInv'
  BY <1>19, FaultType DEF MarkDoneFails, Goto, WorkerPc
<1>20. ASSUME NEW w \in Workers, RecordFailure(w) PROVE TypeInv'
  <2>1. wev[w] \in Events /\ wmade[w] + 1 \in 0..MaxAttempts
    BY <1>20 DEF RecordFailure
  <2>2. row' \in [Events -> [status : RowStatus, attempts : 0..MaxAttempts,
                            deferred : BOOLEAN]]
    BY <1>20, <2>1, SettleType DEF RecordFailure, RowStatus
  <2>3. wpc' \in [Workers -> WorkerPc]
    BY <1>20 DEF RecordFailure, Goto, WorkerPc
  <2>4. BusyOK'
    BY <1>20 DEF RecordFailure, Goto
  <2>5. QED
    BY <1>20, <2>2, <2>3, <2>4 DEF RecordFailure
<1>21. ASSUME NEW w \in Workers, RecordFailureFails(w) PROVE TypeInv'
  BY <1>21, FaultType DEF RecordFailureFails, Goto, WorkerPc
<1>22. ASSUME NEW w \in Workers, SendAlert(w) PROVE TypeInv'
  <2>1. alerted' \subseteq Events /\ muted' \subseteq Instances
    BY <1>22 DEF SendAlert, Workers
  <2>2. wpc' \in [Workers -> WorkerPc] /\ BusyOK'
    BY <1>22 DEF SendAlert, Goto, WorkerPc
  <2>3. UNCHANGED <<row, job, up, pubVars, wev, wmade, wtodo, wbad, fulfilled, faults>>
    BY <1>22 DEF SendAlert
  <2>4. QED
    BY <2>1, <2>2, <2>3
<1>23. ASSUME NEW w \in Workers, Complete(w) PROVE TypeInv'
  <2>1. wev[w] \in Events /\ wmade[w] + 1 \in 0..MaxAttempts
    BY <1>23 DEF Complete
  <2>2. /\ job' \in [Events -> [state : JobState, made : 0..MaxAttempts,
                               stalled : 0..MaxStalled,
                               holder : Workers \cup {NoWorker}]]
        /\ JobsOK'
    <3>1. CASE Holds(w)
      <4>1. job[wev[w]].stalled \in 0..MaxStalled
        BY <2>1
      <4>2. QED
        BY <1>23, <2>1, <3>1, <4>1, MoveJobType DEF Complete, JobState
    <3>2. CASE ~Holds(w)
      BY <1>23, <3>2 DEF Complete
    <3>3. QED
      BY <3>1, <3>2
  <2>3. /\ wpc' \in [Workers -> WorkerPc] /\ wev' \in [Workers -> Events \cup {NoEvent}]
        /\ wmade' \in [Workers -> 0..MaxAttempts]
        /\ wtodo' \in [Workers -> SUBSET Handlers] /\ wbad' \in [Workers -> BOOLEAN]
    BY <1>23 DEF Complete, Sleep, WorkerPc
  <2>4. BusyOK'
    BY <1>23 DEF Complete, Sleep
  <2>5. QED
    BY <1>23, <2>2, <2>3, <2>4 DEF Complete
<1>24. ASSUME NEW w \in Workers, Fail(w) PROVE TypeInv'
  <2>1. wev[w] \in Events /\ wmade[w] + 1 \in 0..MaxAttempts
    BY <1>24 DEF Fail
  <2>2. /\ job' \in [Events -> [state : JobState, made : 0..MaxAttempts,
                               stalled : 0..MaxStalled,
                               holder : Workers \cup {NoWorker}]]
        /\ JobsOK'
    <3>1. CASE Holds(w)
      <4>1. job[wev[w]].stalled \in 0..MaxStalled
        BY <2>1
      <4>2. QED
        <5>1. CASE Last(w)
          <6>1. MoveJob(wev[w], "failed", wmade[w] + 1, job[wev[w]].stalled, NoWorker)
            BY <1>24, <3>1, <5>1 DEF Fail
          <6>2. QED
            BY <2>1, <4>1, <6>1, MoveJobType DEF JobState
        <5>2. CASE ~Last(w)
          <6>1. MoveJob(wev[w], "delayed", wmade[w] + 1, job[wev[w]].stalled, NoWorker)
            BY <1>24, <3>1, <5>2 DEF Fail
          <6>2. wmade[w] + 1 < MaxAttempts
            BY <2>1, <5>2 DEF Last
          <6>3. QED
            BY <2>1, <4>1, <6>1, <6>2, MoveJobType DEF JobState
        <5>3. QED
          BY <5>1, <5>2
    <3>2. CASE ~Holds(w)
      BY <1>24, <3>2 DEF Fail
    <3>3. QED
      BY <3>1, <3>2
  <2>3. /\ wpc' \in [Workers -> WorkerPc] /\ wev' \in [Workers -> Events \cup {NoEvent}]
        /\ wmade' \in [Workers -> 0..MaxAttempts]
        /\ wtodo' \in [Workers -> SUBSET Handlers] /\ wbad' \in [Workers -> BOOLEAN]
    BY <1>24 DEF Fail, Sleep, WorkerPc
  <2>4. BusyOK'
    BY <1>24 DEF Fail, Sleep
  <2>5. QED
    BY <1>24, <2>2, <2>3, <2>4 DEF Fail
<1>25. CASE UNCHANGED vars
  BY <1>25 DEF vars
<1>26. QED
  BY <1>1, <1>2, <1>3, <1>4, <1>5, <1>6, <1>7, <1>8, <1>9, <1>10, <1>11, <1>12,
     <1>13, <1>14, <1>15, <1>16, <1>17, <1>18, <1>19, <1>20, <1>21, <1>22,
     <1>23, <1>24, <1>25 DEF Next, Publisher, Worker, Queue, Process

(* Every reachable state is well typed, and a handled or runnable job is   *)
(* always within the quota of attempts.                                    *)
THEOREM TypeCorrect == Spec => []TypeOK
<1>1. TypeInv => TypeOK
  BY DEF TypeInv
<1>2. QED
  BY InitTypeInv, StepTypeInv, <1>1, PTL DEF Spec

-----------------------------------------------------------------------------
(* Claims are exclusive.  A held row has been claimed, so that it is       *)
(* neither unwritten nor PENDING, and the row whose push has just failed   *)
(* has left the batch, so that giving it back leaves no trace of it.       *)
Taken(e) == row[e].status \in {"PROCESSING", "DONE", "DEAD"}

ClaimInv ==
  /\ \A i \in Instances : failed[i] \notin batch[i]
  /\ \A i \in Instances : \A e \in HeldBy(i) : Taken(e)
  /\ \A i, k \in Instances : i # k => HeldBy(i) \cap HeldBy(k) = {}

LEMMA HeldInEvents == TypeOK => \A i \in Instances : HeldBy(i) \subseteq Events
  BY DEF TypeOK, HeldBy

LEMMA InitClaims == Init => ClaimInv
  BY DEF Init, ClaimInv, HeldBy

(* Publishers may drop rows and workers may settle them. *)
LEMMA ClaimsShrink ==
  ASSUME TypeOK, ClaimInv,
         \A i \in Instances : HeldBy(i)' \subseteq HeldBy(i),
         \A i \in Instances : failed'[i] \notin batch'[i],
         \A e \in Events : Taken(e) => Taken(e)'
  PROVE  ClaimInv'
  BY HeldInEvents DEF ClaimInv

(* A worker's write to a row keeps it claimed. *)
LEMMA SettleTaken ==
  ASSUME TypeOK, NEW e \in Events, NEW s \in {"PROCESSING", "DONE", "DEAD"},
         NEW n, NEW b, Settle(e, s, n, b)
  PROVE  \A x \in Events : Taken(x) => Taken(x)'
  BY DEF TypeOK, Taken, Settle, WriteRow

LEMMA StepClaims == TypeInv /\ ClaimInv /\ [Next]_vars => ClaimInv'
<1> SUFFICES ASSUME TypeInv, ClaimInv, [Next]_vars PROVE ClaimInv'
  OBVIOUS
<1> USE DEF TypeInv
<1>1. ASSUME UNCHANGED pubVars, \A e \in Events : Taken(e) => Taken(e)'
      PROVE  ClaimInv'
  <2>1. \A i \in Instances : HeldBy(i)' = HeldBy(i)
    BY <1>1 DEF HeldBy, pubVars
  <2>2. \A i \in Instances : failed'[i] \notin batch'[i]
    BY <1>1 DEF ClaimInv, pubVars
  <2>3. QED
    BY <1>1, <2>1, <2>2, ClaimsShrink
<1>2. ASSUME NEW e \in Events, Commit(e) \/ RetryRow(e) PROVE ClaimInv'
  BY <1>1, <1>2 DEF Commit, RetryRow, WriteRow, Taken, TypeOK
<1>3. ASSUME NEW i \in Instances, Claim(i) PROVE ClaimInv'
  <2>1. HeldBy(i)' = Oldest(Eligible) /\ Oldest(Eligible) \subseteq Eligible
    BY <1>3, OldestIsSubset DEF Claim, HeldBy, Publishing, TypeOK
  <2>2. \A k \in Instances \ {i} : HeldBy(k)' = HeldBy(k)
    BY <1>3 DEF Claim, HeldBy, TypeOK
  <2>3. \A e \in Events : Taken(e) \/ e \in Oldest(Eligible) => Taken(e)'
    BY <1>3 DEF Claim, Claimed, Taken
  <2>4. \A e \in Eligible : ~Taken(e)
    BY DEF Eligible, Taken
  <2>5. \A k \in Instances : failed'[k] \notin batch'[k]
    BY <1>3, <2>1, ConstantsAssumption DEF Claim, ClaimInv, Publishing, TypeOK, Eligible
  <2>6. Eligible \subseteq Events
    BY DEF Eligible
  <2>7. \A k \in Instances : \A e \in HeldBy(k)' : Taken(e)'
    BY <2>1, <2>2, <2>3, <2>6, HeldInEvents DEF ClaimInv
  <2>8. \A k, l \in Instances : k # l => HeldBy(k)' \cap HeldBy(l)' = {}
    BY <2>1, <2>2, <2>4 DEF ClaimInv
  <2>9. QED
    BY <2>5, <2>7, <2>8 DEF ClaimInv
<1>4. ASSUME UNCHANGED row,
             \A k \in Instances : HeldBy(k)' \subseteq HeldBy(k),
             \A k \in Instances : failed'[k] \notin batch'[k]
      PROVE  ClaimInv'
  BY <1>4, ClaimsShrink DEF Taken
<1>5. ASSUME NEW i \in Instances, NEW e \in Events, Push(i, e) PROVE ClaimInv'
  <2>1. \A k \in Instances : HeldBy(k)' \subseteq HeldBy(k)
    BY <1>5 DEF Push, HeldBy, TypeOK
  <2>2. \A k \in Instances : failed'[k] \notin batch'[k]
    BY <1>5 DEF Push, ClaimInv, TypeOK
  <2>3. QED
    BY <1>4, <1>5, <2>1, <2>2 DEF Push
<1>6. ASSUME NEW i \in Instances, NEW e \in Events, PushFails(i, e) PROVE ClaimInv'
  <2>1. \A k \in Instances : HeldBy(k)' \subseteq HeldBy(k)
    BY <1>6 DEF PushFails, HeldBy, TypeOK
  <2>2. \A k \in Instances : failed'[k] \notin batch'[k]
    BY <1>6 DEF PushFails, ClaimInv, TypeOK
  <2>3. QED
    BY <1>4, <1>6, <2>1, <2>2 DEF PushFails
<1>7. ASSUME NEW i \in Instances, ReturnRow(i) PROVE ClaimInv'
  <2>1. failed[i] \in Events /\ failed[i] \in HeldBy(i)
    BY <1>7 DEF ReturnRow, TypeOK, HeldBy
  <2>2. \A k \in Instances : HeldBy(k)' \subseteq HeldBy(k) \ {failed[i]}
    <3>1. HeldBy(i)' \subseteq HeldBy(i) \ {failed[i]}
      BY <1>7, <2>1 DEF ReturnRow, HeldBy, TypeOK, ClaimInv
    <3>2. \A k \in Instances \ {i} : HeldBy(k)' = HeldBy(k)
      BY <1>7 DEF ReturnRow, HeldBy, TypeOK
    <3>3. QED
      BY <2>1, <3>1, <3>2 DEF ClaimInv
  <2>3. \A x \in Events \ {failed[i]} : Taken(x) => Taken(x)'
    BY <1>7, <2>1 DEF ReturnRow, Settle, WriteRow, Taken, TypeOK
  <2>4. \A k \in Instances : failed'[k] \notin batch'[k]
    BY <1>7, ConstantsAssumption DEF ReturnRow, ClaimInv, TypeOK
  <2>5. QED
    BY <2>2, <2>3, <2>4, HeldInEvents DEF ClaimInv
<1>8. ASSUME NEW i \in Instances, ReturnRowFails(i) \/ Crash(i) PROVE ClaimInv'
  <2>1. \A k \in Instances : HeldBy(k)' \subseteq HeldBy(k)
    BY <1>8 DEF ReturnRowFails, Crash, HeldBy, TypeOK
  <2>2. \A k \in Instances : failed'[k] \notin batch'[k]
    BY <1>8 DEF ReturnRowFails, Crash, ClaimInv, TypeOK
  <2>3. QED
    BY <1>4, <1>8, <2>1, <2>2 DEF ReturnRowFails, Crash
<1>9. ASSUME NEW w \in Workers, MarkDone(w) \/ RecordFailure(w) PROVE ClaimInv'
  <2>1. wev[w] \in Events
    BY <1>9 DEF MarkDone, RecordFailure, BusyOK, Busy
  <2>2. \A x \in Events : Taken(x) => Taken(x)'
    BY <1>9, <2>1, SettleTaken DEF MarkDone, RecordFailure
  <2>3. QED
    BY <1>1, <1>9, <2>2 DEF MarkDone, RecordFailure
<1>10. ASSUME UNCHANGED <<row, pubVars>> PROVE ClaimInv'
  BY <1>1, <1>10 DEF Taken
<1>11. QED
  BY <1>2, <1>3, <1>5, <1>6, <1>7, <1>8, <1>9, <1>10
     DEF Next, Publisher, Worker, Queue, Process, vars, Take, HandlerSucceeds,
         HandlerRejects, Settled, MarkDoneFails,
         RecordFailureFails, SendAlert, Complete, Fail, RetryJob, Remove,
         StalledCheck, AlertWindowEnds, Restart

(* Two publishers never hold the same row, and a held row is never offered *)
(* to another claim, with any number of instances and under every fault.   *)
THEOREM ClaimsExclusive == Spec => []ClaimsAreExclusive
<1>1. TypeInv /\ ClaimInv /\ [Next]_vars => (TypeInv /\ ClaimInv)'
  BY StepTypeInv, StepClaims
<1>2. ClaimInv => ClaimsAreExclusive
  BY DEF ClaimInv, ClaimsAreExclusive, Taken
<1>3. QED
  BY InitTypeInv, InitClaims, <1>1, <1>2, PTL DEF Spec

-----------------------------------------------------------------------------
(* DONE means fulfilled: what a worker knows about its event before it     *)
(* marks the row.                                                          *)
WorkersFulfil ==
  \A w \in Workers :
    /\ wpc[w] = "handling" /\ ~wbad[w] =>
         wev[w] \notin Malformed
         /\ HandlersFor[wev[w]] \subseteq fulfilled[wev[w]] \cup wtodo[w]
    /\ wpc[w] = "marking" =>
         wev[w] \notin Malformed /\ HandlersFor[wev[w]] \subseteq fulfilled[wev[w]]

FulfilInv == WorkersFulfil /\ DoneMeansFulfilled

LEMMA InitFulfil == Init => FulfilInv
  BY DEF Init, FulfilInv, WorkersFulfil, DoneMeansFulfilled, NewRow

LEMMA StepFulfil == TypeInv /\ FulfilInv /\ [Next]_vars => FulfilInv'
<1> SUFFICES ASSUME TypeInv, FulfilInv, [Next]_vars PROVE FulfilInv'
  OBVIOUS
<1> USE DEF TypeInv, TypeOK, BusyOK, Busy, FulfilInv, WorkersFulfil, DoneMeansFulfilled
<1>1. ASSUME NEW e \in Events, Commit(e) PROVE FulfilInv'
  BY <1>1 DEF Commit, WriteRow, wrkVars
<1>2. ASSUME NEW e \in Events, RetryRow(e) PROVE FulfilInv'
  BY <1>2 DEF RetryRow, WriteRow, wrkVars
<1>3. ASSUME NEW i \in Instances, Claim(i) PROVE FulfilInv'
  BY <1>3 DEF Claim, Claimed, wrkVars
<1>4. ASSUME NEW i \in Instances, ReturnRow(i) PROVE FulfilInv'
  BY <1>4 DEF ReturnRow, Settle, WriteRow, wrkVars
<1>5. ASSUME NEW w \in Workers, NEW e \in Events, Take(w, e) PROVE FulfilInv'
  BY <1>5 DEF Take, Goto
<1>6. ASSUME NEW w \in Workers, NEW h \in Handlers, HandlerSucceeds(w, h)
      PROVE  FulfilInv'
  <2>1. /\ wev[w] \in Events /\ h \in wtodo[w] /\ wpc[w] = "handling"
        /\ UNCHANGED <<row, wpc, wev, wbad>>
        /\ wtodo' = [wtodo EXCEPT ![w] = @ \ {h}]
        /\ fulfilled' = [fulfilled EXCEPT ![wev[w]] = @ \cup {h}]
    BY <1>6 DEF HandlerSucceeds
  <2>2. \A e \in Events : fulfilled[e] \subseteq fulfilled'[e]
    BY <2>1
  <2>3. DoneMeansFulfilled'
    BY <2>1, <2>2
  <2>4. ASSUME NEW v \in Workers, wpc[v] = "handling", ~wbad[v]
        PROVE  /\ wev[v] \notin Malformed
               /\ HandlersFor[wev[v]] \subseteq fulfilled'[wev[v]] \cup wtodo'[v]
    <3>1. wev[v] \in Events
      BY <2>4
    <3>2. CASE v = w
      BY <2>1, <2>4, <3>1, <3>2
    <3>3. CASE v # w
      BY <2>1, <2>2, <2>4, <3>1, <3>3
    <3>4. QED
      BY <3>2, <3>3
  <2>5. ASSUME NEW v \in Workers, wpc[v] = "marking"
        PROVE  /\ wev[v] \notin Malformed
               /\ HandlersFor[wev[v]] \subseteq fulfilled'[wev[v]]
    BY <2>2, <2>5
  <2>6. QED
    BY <2>1, <2>3, <2>4, <2>5
<1>7. ASSUME NEW w \in Workers, NEW h \in Handlers, HandlerRejects(w, h) PROVE FulfilInv'
  BY <1>7 DEF HandlerRejects
<1>8. ASSUME NEW w \in Workers, Settled(w) PROVE FulfilInv'
  BY <1>8 DEF Settled, Goto
<1>9. ASSUME NEW w \in Workers, MarkDone(w) PROVE FulfilInv'
  BY <1>9 DEF MarkDone, Goto, Settle, WriteRow
<1>10. ASSUME NEW w \in Workers, MarkDoneFails(w) PROVE FulfilInv'
  BY <1>10 DEF MarkDoneFails, Goto
<1>11. ASSUME NEW w \in Workers, RecordFailure(w) PROVE FulfilInv'
  BY <1>11 DEF RecordFailure, Goto, Settle, WriteRow
<1>12. ASSUME NEW w \in Workers, RecordFailureFails(w) PROVE FulfilInv'
  BY <1>12 DEF RecordFailureFails, Goto
<1>13. ASSUME NEW w \in Workers, SendAlert(w) PROVE FulfilInv'
  BY <1>13 DEF SendAlert, Goto
<1>14. ASSUME NEW w \in Workers, Complete(w) \/ Fail(w) PROVE FulfilInv'
  BY <1>14 DEF Complete, Fail, Sleep
<1>15. ASSUME NEW i \in Instances, Crash(i) PROVE FulfilInv'
  BY <1>15 DEF Crash
<1>16. ASSUME UNCHANGED <<row, wrkVars, fulfilled>> PROVE FulfilInv'
  BY <1>16 DEF wrkVars
<1>17. QED
  BY <1>1, <1>2, <1>3, <1>4, <1>5, <1>6, <1>7, <1>8, <1>9, <1>10, <1>11, <1>12,
     <1>13, <1>14, <1>15, <1>16
     DEF Next, Publisher, Worker, Queue, Process, vars, Push, PushFails,
         ReturnRowFails, RetryJob, Remove, StalledCheck, AlertWindowEnds, Restart

(* A DONE row had a valid payload and a success report from every handler, *)
(* whatever crashed, failed, stalled or was delivered twice.               *)
THEOREM DoneIsFulfilled == Spec => []DoneMeansFulfilled
<1>1. TypeInv /\ FulfilInv /\ [Next]_vars => (TypeInv /\ FulfilInv)'
  BY StepTypeInv, StepFulfil
<1>2. FulfilInv => DoneMeansFulfilled
  BY DEF FulfilInv
<1>3. QED
  BY InitTypeInv, InitFulfil, <1>1, <1>2, PTL DEF Spec

-----------------------------------------------------------------------------
(* DEAD means exhausted. *)

LEMMA StepExhausted ==
  TypeInv /\ DeadMeansExhausted /\ [Next]_vars => DeadMeansExhausted'
<1> SUFFICES ASSUME TypeInv, DeadMeansExhausted, [Next]_vars PROVE DeadMeansExhausted'
  OBVIOUS
<1> USE DEF TypeInv, TypeOK, DeadMeansExhausted
<1>1. ASSUME NEW e \in Events, Commit(e) \/ RetryRow(e) PROVE DeadMeansExhausted'
  BY <1>1 DEF Commit, RetryRow, WriteRow
<1>2. ASSUME NEW i \in Instances, Claim(i) PROVE DeadMeansExhausted'
  BY <1>2 DEF Claim, Claimed
<1>3. ASSUME NEW i \in Instances, ReturnRow(i) PROVE DeadMeansExhausted'
  BY <1>3 DEF ReturnRow, Settle, WriteRow
<1>4. ASSUME NEW w \in Workers, MarkDone(w) PROVE DeadMeansExhausted'
  BY <1>4 DEF MarkDone, Settle, WriteRow
<1>5. ASSUME NEW w \in Workers, RecordFailure(w) PROVE DeadMeansExhausted'
  <2>1. wev[w] \in Events /\ wmade[w] < MaxAttempts /\ wmade[w] \in Nat
    BY <1>5 DEF RecordFailure, BusyOK, Busy
  <2>2. Last(w) => wmade[w] + 1 = MaxAttempts
    BY <2>1 DEF Last
  <2>3. row'[wev[w]].status = "DEAD" => row'[wev[w]].attempts = MaxAttempts
    BY <1>5, <2>1, <2>2 DEF RecordFailure, Settle, WriteRow
  <2>4. \A e \in Events \ {wev[w]} : row'[e] = row[e]
    BY <1>5 DEF RecordFailure, Settle, WriteRow
  <2>5. QED
    BY <2>3, <2>4
<1>6. ASSUME UNCHANGED row PROVE DeadMeansExhausted'
  BY <1>6
<1>7. QED
  BY <1>1, <1>2, <1>3, <1>4, <1>5, <1>6
     DEF Next, Publisher, Worker, Queue, Process, vars, Push, PushFails,
         ReturnRowFails, Take, HandlerSucceeds, HandlerRejects,
         Settled, MarkDoneFails, RecordFailureFails, SendAlert, Complete, Fail,
         RetryJob, Remove, StalledCheck, AlertWindowEnds, Crash, Restart

(* No event is given up before its whole quota of attempts was recorded.   *)
THEOREM DeadIsExhausted == Spec => []DeadMeansExhausted
<1>1. Init => DeadMeansExhausted
  BY DEF Init, DeadMeansExhausted, NewRow
<1>2. TypeInv /\ DeadMeansExhausted /\ [Next]_vars => (TypeInv /\ DeadMeansExhausted)'
  BY StepTypeInv, StepExhausted
<1>3. QED
  BY InitTypeInv, <1>1, <1>2, PTL DEF Spec

-----------------------------------------------------------------------------
(* One worker per event.  Without stalls, a busy slot holds the lock of    *)
(* its job, and the job stays active until the slot lets it go.            *)
HolderInv ==
  "stall" \notin Faults =>
    \A w \in Workers : Busy(w) => job[wev[w]].state = "active" /\ job[wev[w]].holder = w

(* A change to the job of an event that no slot is busy with. *)
LEMMA HolderKept ==
  ASSUME TypeInv, HolderInv, NEW e \in Events,
         NEW s, NEW m, NEW n, NEW h, MoveJob(e, s, m, n, h),
         job[e].state # "active", UNCHANGED <<wpc, wev>>
  PROVE  HolderInv'
  BY DEF TypeInv, TypeOK, BusyOK, Busy, HolderInv, MoveJob

LEMMA StepHolder == TypeInv /\ HolderInv /\ [Next]_vars => HolderInv'
<1> SUFFICES ASSUME TypeInv, HolderInv, [Next]_vars PROVE HolderInv'
  OBVIOUS
<1>1. ASSUME UNCHANGED <<job, wev>>,
             \A w \in Workers : wpc'[w] # "idle" => wpc[w] # "idle"
      PROVE  HolderInv'
  BY <1>1 DEF HolderInv, Busy
<1>2. ASSUME NEW e \in Events, RetryJob(e) PROVE HolderInv'
  BY <1>2, HolderKept DEF RetryJob, wrkVars
<1>3. ASSUME NEW e \in Events, Remove(e) PROVE HolderInv'
  BY <1>3 DEF Remove, wrkVars, TypeInv, TypeOK, BusyOK, Busy, HolderInv
<1>4. ASSUME NEW e \in Events, StalledCheck(e) PROVE HolderInv'
  <2>1. "stall" \notin Faults => Abandoned(e)
    BY <1>4 DEF StalledCheck, Fault
  <2>2. \A x \in Events \ {e} : job'[x] = job[x]
    BY <1>4 DEF StalledCheck, MoveJob, TypeInv, TypeOK
  <2>3. UNCHANGED <<wpc, wev>>
    BY <1>4 DEF StalledCheck, wrkVars
  <2>4. "stall" \notin Faults => \A w \in Workers : Busy(w) => wev[w] # e
    BY <2>1 DEF Abandoned, HolderInv
  <2>5. QED
    BY <2>2, <2>3, <2>4 DEF HolderInv, Busy, TypeInv, BusyOK
<1>5. ASSUME NEW i \in Instances, NEW e \in Events, Push(i, e) \/ PushFails(i, e)
      PROVE  HolderInv'
  <2>1. UNCHANGED <<wpc, wev>>
    BY <1>5 DEF Push, PushFails, wrkVars
  <2>2. UNCHANGED job \/ (job[e].state = "none" /\ MoveJob(e, "waiting", 0, 0, NoWorker))
    BY <1>5 DEF Push, PushFails, Add
  <2>3. QED
    BY <1>1, <2>1, <2>2, HolderKept
<1>6. ASSUME NEW w \in Workers, NEW e \in Events, Take(w, e) PROVE HolderInv'
  BY <1>6 DEF Take, Goto, MoveJob, TypeInv, TypeOK, BusyOK, Busy, HolderInv
<1>7. ASSUME NEW w \in Workers, Complete(w) \/ Fail(w) PROVE HolderInv'
  <2>1. wpc'[w] = "idle" /\ \A v \in Workers \ {w} : wpc'[v] = wpc[v] /\ wev'[v] = wev[v]
    BY <1>7 DEF Complete, Fail, Sleep, TypeInv, TypeOK
  <2>2. wev[w] \in Events /\ \A x \in Events \ {wev[w]} : job'[x] = job[x]
    BY <1>7 DEF Complete, Fail, MoveJob, TypeInv, TypeOK, BusyOK, Busy
  <2>3. Busy(w)
    BY <1>7 DEF Complete, Fail, Busy
  <2>4. "stall" \notin Faults =>
          \A v \in Workers \ {w} : Busy(v) => wev[v] # wev[w]
    BY <2>3 DEF HolderInv
  <2>5. ASSUME "stall" \notin Faults, NEW v \in Workers, Busy(v)'
        PROVE  (job[wev[v]].state = "active" /\ job[wev[v]].holder = v)'
    <3>1. v # w /\ wpc'[v] = wpc[v] /\ wev'[v] = wev[v]
      BY <2>1, <2>5 DEF Busy
    <3>2. Busy(v) /\ wev[v] # wev[w]
      BY <2>4, <2>5, <3>1 DEF Busy
    <3>3. wev[v] \in Events \ {wev[w]}
      BY <3>2 DEF TypeInv, BusyOK
    <3>4. job[wev[v]].state = "active" /\ job[wev[v]].holder = v
      BY <2>5, <3>2 DEF HolderInv
    <3>5. job'[wev'[v]] = job[wev[v]]
      BY <2>2, <3>1, <3>3
    <3>6. QED
      BY <3>4, <3>5
  <2>6. QED
    BY <2>5 DEF HolderInv
<1>8. ASSUME NEW i \in Instances, Crash(i) PROVE HolderInv'
  BY <1>8 DEF Crash, Busy, HolderInv
<1>9. ASSUME NEW w \in Workers,
             \/ Settled(w) \/ MarkDone(w) \/ MarkDoneFails(w) \/ RecordFailure(w)
             \/ RecordFailureFails(w) \/ SendAlert(w)
      PROVE  HolderInv'
  <2>1. wpc[w] # "idle" /\ UNCHANGED <<job, wev>>
    BY <1>9 DEF Settled, MarkDone, MarkDoneFails, RecordFailure, RecordFailureFails,
                SendAlert
  <2>2. \A v \in Workers \ {w} : wpc'[v] = wpc[v]
    BY <1>9 DEF Settled, MarkDone, MarkDoneFails, RecordFailure, RecordFailureFails,
                SendAlert, Goto, TypeInv, TypeOK
  <2>3. QED
    BY <1>1, <2>1, <2>2
<1>10. ASSUME UNCHANGED <<job, wpc, wev>> PROVE HolderInv'
  BY <1>1, <1>10
<1>11. QED
  BY <1>2, <1>3, <1>4, <1>5, <1>6, <1>7, <1>8, <1>9, <1>10
     DEF Next, Publisher, Worker, Queue, Process, vars, wrkVars, Commit, RetryRow,
         Claim, ReturnRow, ReturnRowFails, HandlerSucceeds, HandlerRejects,
         AlertWindowEnds, Restart

(* The fixed jobId and the job lock: unless an event loop stalls, no two   *)
(* slots of any instances ever handle the same event at the same time.     *)
THEOREM OneWorker == Spec => []OneWorkerPerEvent
<1>1. Init => HolderInv
  BY DEF Init, HolderInv, Busy
<1>2. TypeInv /\ HolderInv /\ [Next]_vars => (TypeInv /\ HolderInv)'
  BY StepTypeInv, StepHolder
<1>3. HolderInv => OneWorkerPerEvent
  BY DEF HolderInv, OneWorkerPerEvent
<1>4. QED
  BY InitTypeInv, <1>1, <1>2, <1>3, PTL DEF Spec

(* What the run checks under every fault holds for every outbox: rows have *)
(* one publisher at most and their types.                                  *)
THEOREM RowsExclusive == Spec => []RowsAreExclusive
  BY TypeCorrect, ClaimsExclusive, PTL DEF RowsAreExclusive

(* DONE was fulfilled and DEAD exhausted, whatever crashed or failed.      *)
THEOREM StatusEarned == Spec => []StatusIsEarned
  BY DoneIsFulfilled, DeadIsExhausted, PTL DEF StatusIsEarned

(* Rows are claimed by one, DONE is earned and DEAD exhausted: together.   *)
THEOREM OutboxSound == Spec => []OutboxIsSound
  BY RowsExclusive, StatusEarned, PTL DEF OutboxIsSound

-----------------------------------------------------------------------------
(* Nothing is forgotten.  As long as only pushes have failed, the row, the *)
(* job and the slot of an event agree at every step: a row that nobody has *)
(* pushed has no job, a job that is active is held by a slot that is busy  *)
(* with it, and a slot lets its job go only after the row is settled.      *)
Running == {"waiting", "active", "delayed"}

EventCarried(e) ==
  /\ row[e].status \in {"ABSENT", "PENDING"} => job[e].state = "none"
  /\ \A i \in Instances : e \in HeldBy(i) => job[e].state = "none"
  /\ row[e].status = "PROCESSING" =>
       (\E i \in Instances : e \in HeldBy(i)) \/ job[e].state \in Running
  /\ job[e].state = "active" =>
       \E w \in Workers : job[e].holder = w /\ Busy(w) /\ wev[w] = e
  /\ job[e].state \in {"completed", "failed"} => row[e].status \in {"DONE", "DEAD"}
  /\ job[e].state = "failed" => alerted # {}

SlotCarries(w) ==
  /\ Busy(w) => job[wev[w]].state = "active" /\ job[wev[w]].holder = w
  /\ wpc[w] = "completing" => row[wev[w]].status = "DONE"
  /\ wpc[w] = "alerting" => row[wev[w]].status = "DEAD"
  /\ wpc[w] = "failing" /\ Last(w) => row[wev[w]].status = "DEAD" /\ alerted # {}

AllCarried ==
  /\ \A e \in Events : EventCarried(e)
  /\ \A w \in Workers : SlotCarries(w)
  /\ muted # {} => alerted # {}

PushInv == faults.pushOnly => AllCarried

(* A fault that leaves only pushes failed was itself a failed push. *)
LEMMA OnlyPushes ==
  ASSUME TypeOK, NEW k, Fault(k), faults'.pushOnly
  PROVE  k = "redis" /\ faults.pushOnly
  BY DEF TypeOK, Fault

(* A step that touches no row and no job, and moves at most slot w from    *)
(* one place of its attempt to another.                                    *)
LEMMA CarriedOnward ==
  ASSUME TypeInv, AllCarried, NEW w \in Workers, Busy(w), NEW dest \in WorkerPc,
         Goto(w, dest), dest # "idle",
         UNCHANGED <<row, job, pubVars, wev, wmade>>,
         alerted \subseteq alerted',
         dest = "completing" => row[wev[w]].status = "DONE",
         dest = "alerting" => row[wev[w]].status = "DEAD",
         dest = "failing" /\ Last(w) => row[wev[w]].status = "DEAD" /\ alerted' # {},
         muted' # {} => alerted' # {}
  PROVE  AllCarried'
<1> USE DEF TypeInv, TypeOK
<1>1. \A v \in Workers : wpc'[v] = IF v = w THEN dest ELSE wpc[v]
  BY DEF Goto
<1>2. \A i \in Instances : HeldBy(i)' = HeldBy(i)
  BY DEF HeldBy, pubVars
<1>3. \A v \in Workers : Busy(v)' <=> Busy(v)
  BY <1>1 DEF Busy
<1>4. ASSUME NEW e \in Events PROVE EventCarried(e)'
  <2>1. EventCarried(e)
    BY DEF AllCarried
  <2>2. QED
    <3>1. job[e].state = "active" =>
            \E v \in Workers : job[e].holder = v /\ Busy(v)' /\ wev[v] = e
      BY <2>1, <1>3 DEF EventCarried
    <3>2. /\ \A i \in Instances : e \in HeldBy(i)' => job[e].state = "none"
          /\ row[e].status = "PROCESSING" =>
               (\E i \in Instances : e \in HeldBy(i)') \/ job[e].state \in Running
      BY <2>1, <1>2 DEF EventCarried
    <3>3. job[e].state = "failed" => alerted' # {}
      BY <2>1 DEF EventCarried
    <3>4. QED
      BY <2>1, <3>1, <3>2, <3>3 DEF EventCarried
<1>5. ASSUME NEW v \in Workers PROVE SlotCarries(v)'
  <2>1. SlotCarries(v)
    BY DEF AllCarried
  <2>2. Last(v)' <=> Last(v)
    BY DEF Last
  <2>3. QED
    BY <2>1, <2>2, <1>1, <1>3 DEF SlotCarries
<1>6. QED
  BY <1>4, <1>5 DEF AllCarried

(* A step of a publisher or of the queue that leaves the slots alone and    *)
(* only touches the row, the job and the holders of e, which no slot is    *)
(* busy with.                                                              *)
LEMMA CarriedBeside ==
  ASSUME TypeInv, AllCarried, NEW e \in Events, job[e].state # "active",
         \A x \in Events \ {e} : row'[x] = row[x] /\ job'[x] = job[x],
         \A x \in Events \ {e} : \A i \in Instances :
            x \in HeldBy(i)' <=> x \in HeldBy(i),
         UNCHANGED <<wrkVars, muted, alerted>>,
         job'[e].state # "active",
         EventCarried(e)'
  PROVE  AllCarried'
<1>1. \A v \in Workers : Busy(v)' <=> Busy(v)
  BY DEF Busy, wrkVars
<1>2. ASSUME NEW x \in Events PROVE EventCarried(x)'
  <2>1. CASE x = e
    BY <2>1
  <2>2. CASE x # e
    <3>1. EventCarried(x) /\ row'[x] = row[x] /\ job'[x] = job[x]
      BY <2>2 DEF AllCarried
    <3>2. \A i \in Instances : x \in HeldBy(i)' <=> x \in HeldBy(i)
      BY <2>2
    <3>3. QED
      BY <3>1, <3>2, <1>1 DEF EventCarried, wrkVars
  <2>3. QED
    BY <2>1, <2>2
<1>3. ASSUME NEW v \in Workers PROVE SlotCarries(v)'
  <2>1. SlotCarries(v) /\ (Last(v)' <=> Last(v))
    BY DEF AllCarried, Last, wrkVars
  <2>2. CASE Busy(v)
    <3>1. wev[v] \in Events \ {e}
      BY <2>1, <2>2 DEF SlotCarries, TypeInv, BusyOK
    <3>2. row'[wev[v]] = row[wev[v]] /\ job'[wev[v]] = job[wev[v]]
      BY <3>1
    <3>3. QED
      BY <2>1, <3>2, <1>1 DEF SlotCarries, wrkVars
  <2>3. CASE ~Busy(v)
    BY <2>3 DEF SlotCarries, Busy, wrkVars
  <2>4. QED
    BY <2>2, <2>3
<1>4. QED
  BY <1>2, <1>3 DEF AllCarried

(* A step that changes no status, no job, no held row and no slot's place. *)
LEMMA CarriedAsIs ==
  ASSUME TypeInv, AllCarried,
         \A x \in Events : row'[x].status = row[x].status,
         \A i \in Instances : HeldBy(i)' = HeldBy(i),
         UNCHANGED <<job, wpc, wev, wmade>>,
         alerted \subseteq alerted', muted' # {} => alerted' # {}
  PROVE  AllCarried'
<1>1. ASSUME NEW e \in Events PROVE EventCarried(e)'
  <2>1. EventCarried(e)
    BY DEF AllCarried
  <2>2. QED
    BY <2>1 DEF EventCarried, Busy
<1>2. ASSUME NEW v \in Workers PROVE SlotCarries(v)'
  <2>1. SlotCarries(v) /\ (Last(v)' <=> Last(v)) /\ (Busy(v) => wev[v] \in Events)
    BY DEF AllCarried, Last, TypeInv, BusyOK
  <2>2. QED
    BY <2>1 DEF SlotCarries, Busy
<1>3. QED
  BY <1>1, <1>2 DEF AllCarried

(* No two slots are busy with one event. *)
LEMMA OneCarrier ==
  ASSUME AllCarried, NEW v \in Workers, NEW w \in Workers, Busy(v), Busy(w),
         wev[v] = wev[w]
  PROVE  v = w
  BY DEF AllCarried, SlotCarries

(* Slot w writes the status of its row and goes on to dest. *)
LEMMA CarriedSettling ==
  ASSUME TypeInv, AllCarried, NEW w \in Workers, Busy(w), NEW dest \in WorkerPc,
         Goto(w, dest), dest \in {"completing", "alerting", "failing"},
         row'[wev[w]].status \in {"PROCESSING", "DONE", "DEAD"},
         \A x \in Events \ {wev[w]} : row'[x] = row[x],
         UNCHANGED <<job, pubVars, wev, wmade, muted, alerted>>,
         dest = "completing" => row'[wev[w]].status = "DONE",
         dest = "alerting" => row'[wev[w]].status = "DEAD",
         dest = "failing" => ~Last(w)
  PROVE  AllCarried'
<1> USE DEF TypeInv, TypeOK
<1>1. \A v \in Workers : wpc'[v] = IF v = w THEN dest ELSE wpc[v]
  BY DEF Goto
<1>2. \A i \in Instances : HeldBy(i)' = HeldBy(i)
  BY DEF HeldBy, pubVars
<1>3. \A v \in Workers : Busy(v)' <=> Busy(v)
  BY <1>1 DEF Busy
<1>4. SlotCarries(w) /\ wev[w] \in Events /\ job[wev[w]].state = "active"
  BY DEF AllCarried, SlotCarries, BusyOK
<1>5. ASSUME NEW e \in Events PROVE EventCarried(e)'
  <2>1. EventCarried(e)
    BY DEF AllCarried
  <2>2. job[e].state = "active" =>
          \E v \in Workers : job[e].holder = v /\ Busy(v)' /\ wev[v] = e
    BY <2>1, <1>3 DEF EventCarried
  <2>3. \A i \in Instances : e \in HeldBy(i)' => job[e].state = "none"
    BY <2>1, <1>2 DEF EventCarried
  <2>4. CASE e = wev[w]
    BY <2>1, <2>2, <2>3, <2>4, <1>4 DEF EventCarried, Running
  <2>5. CASE e # wev[w]
    <3>1. row[e].status = "PROCESSING" =>
            (\E i \in Instances : e \in HeldBy(i)') \/ job[e].state \in Running
      BY <2>1, <1>2 DEF EventCarried
    <3>2. row'[e] = row[e]
      BY <2>5
    <3>3. QED
      BY <2>1, <2>2, <2>3, <3>1, <3>2 DEF EventCarried
  <2>6. QED
    BY <2>4, <2>5
<1>6. ASSUME NEW v \in Workers PROVE SlotCarries(v)'
  <2>1. SlotCarries(v) /\ (Last(v)' <=> Last(v))
    BY DEF AllCarried, Last
  <2>2. CASE v = w
    BY <2>1, <2>2, <1>1, <1>3, <1>4 DEF SlotCarries
  <2>3. CASE v # w /\ Busy(v)
    <3>1. wev[v] \in Events \ {wev[w]}
      BY <2>3, OneCarrier DEF BusyOK
    <3>2. row'[wev[v]] = row[wev[v]]
      BY <3>1
    <3>3. QED
      BY <2>1, <2>3, <3>2, <1>1, <1>3 DEF SlotCarries
  <2>4. CASE v # w /\ ~Busy(v)
    BY <2>4, <1>1 DEF SlotCarries, Busy
  <2>5. QED
    BY <2>2, <2>3, <2>4
<1>7. QED
  BY <1>5, <1>6 DEF AllCarried

(* Slot w lets go of its job, which will run again or whose row is settled. *)
LEMMA CarriedReleased ==
  ASSUME TypeInv, AllCarried, NEW w \in Workers, Busy(w), Sleep(w),
         NEW s \in {"delayed", "completed", "failed"}, NEW m, NEW n,
         MoveJob(wev[w], s, m, n, NoWorker),
         s # "delayed" => row[wev[w]].status \in {"DONE", "DEAD"},
         s = "failed" => alerted # {},
         UNCHANGED <<row, pubVars, muted, alerted>>
  PROVE  AllCarried'
<1> USE DEF TypeInv, TypeOK
<1>1. SlotCarries(w) /\ wev[w] \in Events /\ job[wev[w]].state = "active"
  BY DEF AllCarried, SlotCarries, BusyOK
<1>2. \A v \in Workers \ {w} : wpc'[v] = wpc[v] /\ wev'[v] = wev[v] /\ wmade'[v] = wmade[v]
  BY DEF Sleep
<1>3. wpc'[w] = "idle"
  BY DEF Sleep
<1>4. /\ \A x \in Events \ {wev[w]} : job'[x] = job[x]
      /\ job'[wev[w]].state = s
  BY <1>1 DEF MoveJob
<1>5. \A i \in Instances : HeldBy(i)' = HeldBy(i)
  BY DEF HeldBy, pubVars
<1>6. ASSUME NEW e \in Events PROVE EventCarried(e)'
  <2>1. EventCarried(e)
    BY DEF AllCarried
  <2>2. CASE e = wev[w]
    <3>1. \A i \in Instances : e \notin HeldBy(i)'
      BY <2>1, <2>2, <1>1, <1>5 DEF EventCarried
    <3>2. row[e].status \notin {"ABSENT", "PENDING"}
      BY <2>1, <2>2, <1>1 DEF EventCarried
    <3>3. QED
      BY <2>2, <3>1, <3>2, <1>4 DEF EventCarried, Running
  <2>3. CASE e # wev[w]
    <3>1. job'[e] = job[e]
      BY <2>3, <1>4
    <3>2. row[e].status = "PROCESSING" =>
            (\E i \in Instances : e \in HeldBy(i)') \/ job[e].state \in Running
      BY <2>1, <1>5 DEF EventCarried
    <3>3. \A i \in Instances : e \in HeldBy(i)' => job[e].state = "none"
      BY <2>1, <1>5 DEF EventCarried
    <3>4. ASSUME job[e].state = "active"
          PROVE  \E v \in Workers : job[e].holder = v /\ Busy(v)' /\ wev'[v] = e
      <4>1. PICK v \in Workers : job[e].holder = v /\ Busy(v) /\ wev[v] = e
        BY <2>1, <3>4 DEF EventCarried
      <4>2. v # w
        BY <4>1, <2>3
      <4>3. QED
        BY <4>1, <4>2, <1>2 DEF Busy
    <3>5. QED
      BY <2>1, <3>1, <3>2, <3>3, <3>4 DEF EventCarried
  <2>4. QED
    BY <2>2, <2>3
<1>7. ASSUME NEW v \in Workers PROVE SlotCarries(v)'
  <2>1. CASE v = w
    BY <2>1, <1>3 DEF SlotCarries, Busy
  <2>2. CASE v # w
    <3>1. SlotCarries(v) /\ (Last(v)' <=> Last(v))
      BY <2>2, <1>2 DEF AllCarried, Last
    <3>2. Busy(v) => wev[v] \in Events \ {wev[w]}
      BY <2>2, OneCarrier DEF BusyOK
    <3>3. Busy(v) => job'[wev[v]] = job[wev[v]]
      BY <3>2, <1>4
    <3>4. QED
      BY <2>2, <3>1, <3>3, <1>2 DEF SlotCarries, Busy
  <2>3. QED
    BY <2>1, <2>2
<1>8. QED
  BY <1>6, <1>7 DEF AllCarried

LEMMA TakeCarried ==
  ASSUME TypeInv, AllCarried, NEW w \in Workers, NEW e \in Events, Take(w, e)
  PROVE  AllCarried'
<1> USE DEF TypeInv, TypeOK
<1>1. EventCarried(e) /\ job[e].state = "waiting" /\ ~Busy(w)
  BY DEF AllCarried, Take
<1>2. /\ wpc'[w] = "handling" /\ wev'[w] = e
      /\ \A v \in Workers \ {w} : wpc'[v] = wpc[v] /\ wev'[v] = wev[v] /\ wmade'[v] = wmade[v]
  BY DEF Take, Goto
<1>3. /\ job'[e].state = "active" /\ job'[e].holder = w
      /\ \A x \in Events \ {e} : job'[x] = job[x]
  BY DEF Take, MoveJob
<1>4. \A i \in Instances : HeldBy(i)' = HeldBy(i)
  BY DEF Take, HeldBy, pubVars
<1>5. UNCHANGED <<row, muted, alerted>>
  BY DEF Take
<1>6. ASSUME NEW x \in Events PROVE EventCarried(x)'
  <2>1. EventCarried(x)
    BY DEF AllCarried
  <2>2. CASE x = e
    <3>1. \A i \in Instances : x \notin HeldBy(i)'
      BY <2>1, <2>2, <1>1, <1>4 DEF EventCarried
    <3>2. row[x].status \notin {"ABSENT", "PENDING"}
      BY <2>1, <2>2, <1>1 DEF EventCarried
    <3>3. Busy(w)'
      BY <1>2 DEF Busy
    <3>4. QED
      BY <2>2, <3>1, <3>2, <3>3, <1>2, <1>3, <1>5 DEF EventCarried, Running
  <2>3. CASE x # e
    <3>1. job'[x] = job[x]
      BY <2>3, <1>3
    <3>2. row[x].status = "PROCESSING" =>
            (\E i \in Instances : x \in HeldBy(i)') \/ job[x].state \in Running
      BY <2>1, <1>4 DEF EventCarried
    <3>3. \A i \in Instances : x \in HeldBy(i)' => job[x].state = "none"
      BY <2>1, <1>4 DEF EventCarried
    <3>4. ASSUME job[x].state = "active"
          PROVE  \E v \in Workers : job[x].holder = v /\ Busy(v)' /\ wev'[v] = x
      <4>1. PICK v \in Workers : job[x].holder = v /\ Busy(v) /\ wev[v] = x
        BY <2>1, <3>4 DEF EventCarried
      <4>2. v # w
        BY <4>1, <1>1
      <4>3. QED
        BY <4>1, <4>2, <1>2 DEF Busy
    <3>5. QED
      BY <2>1, <3>1, <3>2, <3>3, <3>4, <1>5 DEF EventCarried
  <2>4. QED
    BY <2>2, <2>3
<1>7. ASSUME NEW v \in Workers PROVE SlotCarries(v)'
  <2>1. CASE v = w
    BY <2>1, <1>2, <1>3 DEF SlotCarries, Busy
  <2>2. CASE v # w
    <3>1. SlotCarries(v) /\ (Last(v)' <=> Last(v))
      BY <2>2, <1>2 DEF AllCarried, Last
    <3>2. Busy(v) => wev[v] \in Events \ {e}
      BY <3>1, <1>1 DEF SlotCarries, BusyOK
    <3>3. Busy(v) => job'[wev[v]] = job[wev[v]]
      BY <3>2, <1>3
    <3>4. QED
      BY <2>2, <3>1, <3>3, <1>2, <1>5 DEF SlotCarries, Busy
  <2>3. QED
    BY <2>1, <2>2
<1>8. QED
  BY <1>5, <1>6, <1>7 DEF AllCarried

LEMMA ClaimCarried ==
  ASSUME TypeInv, AllCarried, NEW i \in Instances, Claim(i)
  PROVE  AllCarried'
<1> USE DEF TypeInv, TypeOK
<1> DEFINE C == Oldest(Eligible)
<1>1. /\ \A x \in C : x \in Events /\ row[x].status = "PENDING"
      /\ \A x \in C : row'[x].status = "PROCESSING"
      /\ \A x \in Events \ C : row'[x] = row[x]
  BY OldestIsSubset DEF Claim, Claimed, Eligible
<1>2. /\ HeldBy(i) = {} /\ HeldBy(i)' = C
      /\ \A k \in Instances \ {i} : HeldBy(k)' = HeldBy(k)
  <2>1. C \subseteq Events
    BY <1>1
  <2>2. batch[i] = {} /\ failed[i] = NoEvent /\ batch' = [batch EXCEPT ![i] = C] /\ failed' = failed
    BY DEF Claim, Publishing
  <2>3. QED
    BY <2>1, <2>2 DEF HeldBy
<1>3. UNCHANGED <<job, wrkVars, muted, alerted>>
  BY DEF Claim
<1>4. ASSUME NEW x \in Events PROVE EventCarried(x)'
  <2>1. EventCarried(x)
    BY DEF AllCarried
  <2>2. \A v \in Workers : Busy(v)' <=> Busy(v)
    BY <1>3 DEF Busy, wrkVars
  <2>3. CASE x \in C
    <3>1. job[x].state = "none"
      BY <2>1, <2>3, <1>1 DEF EventCarried
    <3>2. \E k \in Instances : x \in HeldBy(k)'
      BY <2>3, <1>2
    <3>3. QED
      BY <2>3, <3>1, <3>2, <1>1, <1>3 DEF EventCarried
  <2>4. CASE x \notin C
    <3>1. row'[x] = row[x]
      BY <2>4, <1>1
    <3>2. \A k \in Instances : x \in HeldBy(k)' <=> x \in HeldBy(k)
      BY <2>4, <1>2
    <3>3. job[x].state = "active" =>
            \E v \in Workers : job[x].holder = v /\ Busy(v)' /\ wev[v] = x
      BY <2>1, <2>2 DEF EventCarried
    <3>4. row[x].status = "PROCESSING" =>
            (\E k \in Instances : x \in HeldBy(k)') \/ job[x].state \in Running
      BY <2>1, <3>2 DEF EventCarried
    <3>5. QED
      BY <2>1, <3>1, <3>2, <3>3, <3>4, <1>3 DEF EventCarried, wrkVars
  <2>5. QED
    BY <2>3, <2>4
<1>5. ASSUME NEW v \in Workers PROVE SlotCarries(v)'
  <2>1. SlotCarries(v) /\ (Last(v)' <=> Last(v))
    BY <1>3 DEF AllCarried, Last, wrkVars
  <2>2. CASE Busy(v)
    <3>1. wev[v] \in Events /\ EventCarried(wev[v]) /\ job[wev[v]].state = "active"
      BY <2>1, <2>2 DEF AllCarried, SlotCarries, BusyOK
    <3>2. wev[v] \notin C
      BY <3>1, <1>1 DEF EventCarried
    <3>3. row'[wev[v]] = row[wev[v]]
      BY <3>1, <3>2, <1>1
    <3>4. QED
      BY <2>1, <3>3, <1>3 DEF SlotCarries, Busy, wrkVars
  <2>3. CASE ~Busy(v)
    BY <2>3, <1>3 DEF SlotCarries, Busy, wrkVars
  <2>4. QED
    BY <2>2, <2>3
<1>6. QED
  BY <1>3, <1>4, <1>5 DEF AllCarried

LEMMA StepPush == TypeInv /\ ClaimInv /\ PushInv /\ [Next]_vars => PushInv'
<1> SUFFICES ASSUME TypeInv, ClaimInv, PushInv, [Next]_vars, faults'.pushOnly
             PROVE  AllCarried'
  BY DEF PushInv
<1> USE DEF TypeInv
<1>1. ASSUME faults.pushOnly PROVE AllCarried /\ \A e \in Events : EventCarried(e)
  BY <1>1 DEF PushInv, AllCarried
<1>2. ASSUME NEW e \in Events, Commit(e) PROVE AllCarried'
  <2>1. AllCarried /\ EventCarried(e) /\ job[e].state = "none"
    BY <1>1, <1>2 DEF Commit, EventCarried
  <2>2. /\ row'[e].status = "PENDING" /\ \A x \in Events \ {e} : row'[x] = row[x]
        /\ UNCHANGED <<job, pubVars, wrkVars, muted, alerted>>
    BY <1>2 DEF Commit, WriteRow, TypeOK
  <2>3. \A k \in Instances : HeldBy(k)' = HeldBy(k)
    BY <2>2 DEF HeldBy, pubVars
  <2>4. EventCarried(e)'
    BY <2>1, <2>2 DEF EventCarried
  <2>5. QED
    BY <2>1, <2>2, <2>3, <2>4, CarriedBeside
<1>3. ASSUME NEW e \in Events, RetryRow(e) PROVE AllCarried'
  <2>1. /\ \A x \in Events : row'[x].status = row[x].status
        /\ UNCHANGED <<job, pubVars, wrkVars, muted, alerted, faults>>
    BY <1>3 DEF RetryRow, WriteRow, TypeOK
  <2>2. QED
    BY <1>1, <2>1, CarriedAsIs DEF HeldBy, pubVars, wrkVars, AllCarried
<1>4. ASSUME NEW e \in Events, RetryJob(e) PROVE AllCarried'
  <2>1. AllCarried /\ EventCarried(e)
    BY <1>1, <1>4 DEF RetryJob
  <2>2. /\ job[e].state = "delayed" /\ job'[e].state = "waiting"
        /\ \A x \in Events \ {e} : job'[x] = job[x]
        /\ UNCHANGED <<row, pubVars, wrkVars, muted, alerted>>
    BY <1>4 DEF RetryJob, MoveJob, TypeOK
  <2>3. \A k \in Instances : HeldBy(k)' = HeldBy(k)
    BY <2>2 DEF HeldBy, pubVars
  <2>4. EventCarried(e)'
    BY <2>1, <2>2, <2>3 DEF EventCarried, Running
  <2>5. QED
    BY <2>1, <2>2, <2>3, <2>4, CarriedBeside
<1>5. ASSUME NEW e \in Events, Remove(e) PROVE AllCarried'
  <2>1. AllCarried /\ EventCarried(e)
    BY <1>1, <1>5 DEF Remove
  <2>2. /\ job[e].state \in {"completed", "failed"} /\ job'[e].state = "none"
        /\ \A x \in Events \ {e} : job'[x] = job[x]
        /\ UNCHANGED <<row, pubVars, wrkVars, muted, alerted>>
    BY <1>5 DEF Remove, NoJob, TypeOK
  <2>3. \A k \in Instances : HeldBy(k)' = HeldBy(k)
    BY <2>2 DEF HeldBy, pubVars
  <2>4. EventCarried(e)'
    BY <2>1, <2>2, <2>3 DEF EventCarried
  <2>5. QED
    BY <2>1, <2>2, <2>3, <2>4, CarriedBeside
<1>6. ASSUME NEW e \in Events, StalledCheck(e) PROVE AllCarried'
  (* the holder of an active job is busy with it: the check finds nothing *)
  <2>1. Abandoned(e) /\ UNCHANGED faults /\ job[e].state = "active"
    BY <1>6, OnlyPushes DEF StalledCheck
  <2>2. EventCarried(e)
    BY <1>1, <2>1
  <2>3. FALSE
    BY <2>1, <2>2 DEF Abandoned, EventCarried
  <2>4. QED
    BY <2>3
<1>7. ASSUME NEW i \in Instances, Claim(i) PROVE AllCarried'
  BY <1>1, <1>7, ClaimCarried DEF Claim
<1>8. ASSUME NEW i \in Instances, NEW e \in Events, Push(i, e) PROVE AllCarried'
  <2>1. AllCarried /\ EventCarried(e) /\ e \in HeldBy(i)
    BY <1>1, <1>8 DEF Push, HeldBy
  <2>2. job[e].state = "none" /\ row[e].status \in {"PROCESSING", "DONE", "DEAD"}
    BY <2>1 DEF EventCarried, ClaimInv, Taken
  <2>3. /\ job'[e].state = "waiting"
        /\ \A x \in Events \ {e} : job'[x] = job[x]
        /\ UNCHANGED <<row, wrkVars, muted, alerted>>
    BY <1>8, <2>2 DEF Push, Add, MoveJob, TypeOK
  <2>4. /\ HeldBy(i)' = HeldBy(i) \ {e}
        /\ \A k \in Instances \ {i} : HeldBy(k)' = HeldBy(k)
    BY <1>8 DEF Push, HeldBy, TypeOK
  <2>5. \A k \in Instances : e \notin HeldBy(k)'
    BY <2>1, <2>4 DEF ClaimInv
  <2>6. EventCarried(e)'
    BY <2>2, <2>3, <2>5 DEF EventCarried, Running
  <2>7. QED
    BY <2>1, <2>2, <2>3, <2>4, <2>6, CarriedBeside
<1>9. ASSUME NEW i \in Instances, NEW e \in Events, PushFails(i, e) PROVE AllCarried'
  <2>1. faults.pushOnly /\ UNCHANGED <<row, job, wrkVars, muted, alerted>>
    BY <1>9, OnlyPushes DEF PushFails
  <2>2. \A k \in Instances : HeldBy(k)' = HeldBy(k)
    BY <1>9 DEF PushFails, HeldBy, TypeOK
  <2>3. QED
    BY <1>1, <2>1, <2>2, CarriedAsIs DEF wrkVars, AllCarried
<1>10. ASSUME NEW i \in Instances, ReturnRow(i) PROVE AllCarried'
  <2>0. PICK e \in Events : e = failed[i]
    BY <1>10 DEF ReturnRow, TypeOK
  <2>1. e \in HeldBy(i)
    BY <1>10, <2>0 DEF ReturnRow, HeldBy
  <2>2. AllCarried /\ EventCarried(e)
    BY <1>1, <1>10, <2>1 DEF ReturnRow
  <2>3. job[e].state = "none"
    BY <2>1, <2>2 DEF EventCarried
  <2>4. /\ row'[e].status = "PENDING" /\ \A x \in Events \ {e} : row'[x] = row[x]
        /\ UNCHANGED <<job, wrkVars, muted, alerted>>
    BY <1>10, <2>0 DEF ReturnRow, Settle, WriteRow, TypeOK
  <2>5. \A k \in Instances : \A x \in Events \ {e} : x \in HeldBy(k)' <=> x \in HeldBy(k)
    <3>1. \A x \in Events \ {e} : x \in HeldBy(i)' <=> x \in HeldBy(i)
      BY <1>10, <2>0 DEF ReturnRow, HeldBy, TypeOK
    <3>2. \A k \in Instances \ {i} : HeldBy(k)' = HeldBy(k)
      BY <1>10 DEF ReturnRow, HeldBy, TypeOK
    <3>3. QED
      BY <3>1, <3>2
  <2>6. EventCarried(e)'
    BY <2>3, <2>4 DEF EventCarried
  <2>7. QED
    BY <2>1, <2>2, <2>3, <2>4, <2>5, <2>6, CarriedBeside
<1>11. ASSUME NEW w \in Workers, NEW e \in Events, Take(w, e) PROVE AllCarried'
  BY <1>1, <1>11, TakeCarried DEF Take
<1>12. ASSUME NEW w \in Workers, NEW h \in Handlers,
              HandlerSucceeds(w, h) \/ HandlerRejects(w, h)
       PROVE  AllCarried'
  <2>1. UNCHANGED <<row, job, pubVars, wpc, wev, wmade, muted, alerted, faults>>
    BY <1>12 DEF HandlerSucceeds, HandlerRejects
  <2>2. QED
    BY <1>1, <2>1, CarriedAsIs DEF HeldBy, pubVars, AllCarried
<1>13. ASSUME NEW w \in Workers, Settled(w) PROVE AllCarried'
  BY <1>1, <1>13, CarriedOnward DEF Settled, Busy, WorkerPc, AllCarried
<1>14. ASSUME NEW w \in Workers, MarkDone(w) PROVE AllCarried'
  <2>1. AllCarried /\ Busy(w) /\ wev[w] \in Events
    BY <1>1, <1>14 DEF MarkDone, Busy, BusyOK
  <2>2. /\ row'[wev[w]].status = "DONE"
        /\ \A x \in Events \ {wev[w]} : row'[x] = row[x]
    BY <1>14, <2>1 DEF MarkDone, Settle, WriteRow, TypeOK
  <2>3. QED
    BY <1>14, <2>1, <2>2, CarriedSettling DEF MarkDone, WorkerPc
<1>15. ASSUME NEW w \in Workers, RecordFailure(w) PROVE AllCarried'
  <2>1. AllCarried /\ Busy(w) /\ wev[w] \in Events
    BY <1>1, <1>15 DEF RecordFailure, Busy, BusyOK
  <2>2. /\ row'[wev[w]].status = IF Last(w) THEN "DEAD" ELSE "PROCESSING"
        /\ \A x \in Events \ {wev[w]} : row'[x] = row[x]
    BY <1>15, <2>1 DEF RecordFailure, Settle, WriteRow, TypeOK
  <2>3. UNCHANGED <<job, pubVars, wev, wmade, muted, alerted>>
    BY <1>15 DEF RecordFailure
  <2>4. CASE Last(w)
    BY <1>15, <2>1, <2>2, <2>3, <2>4, CarriedSettling DEF RecordFailure, WorkerPc
  <2>5. CASE ~Last(w)
    BY <1>15, <2>1, <2>2, <2>3, <2>5, CarriedSettling DEF RecordFailure, WorkerPc
  <2>6. QED
    BY <2>4, <2>5
<1>16. ASSUME NEW w \in Workers, SendAlert(w) PROVE AllCarried'
  <2>1. AllCarried /\ SlotCarries(w) /\ Busy(w) /\ wpc[w] = "alerting"
    BY <1>1, <1>16 DEF SendAlert, Busy, AllCarried
  <2>2. row[wev[w]].status = "DEAD"
    BY <2>1 DEF SlotCarries
  <2>3. alerted \subseteq alerted' /\ alerted' # {}
    BY <1>16, <2>1 DEF SendAlert, AllCarried
  <2>4. Goto(w, "failing") /\ UNCHANGED <<row, job, pubVars, wev, wmade>>
    BY <1>16 DEF SendAlert
  <2>5. QED
    BY <2>1, <2>2, <2>3, <2>4, CarriedOnward DEF WorkerPc
<1>17. ASSUME NEW w \in Workers, Complete(w) PROVE AllCarried'
  <2>1. AllCarried /\ SlotCarries(w) /\ Busy(w)
    BY <1>1, <1>17 DEF Complete, Busy, AllCarried
  <2>2. Holds(w) /\ row[wev[w]].status = "DONE"
    BY <1>17, <2>1 DEF Complete, SlotCarries, Holds
  <2>3. QED
    BY <1>17, <2>1, <2>2, CarriedReleased DEF Complete
<1>18. ASSUME NEW w \in Workers, Fail(w) PROVE AllCarried'
  <2>1. AllCarried /\ SlotCarries(w) /\ Busy(w)
    BY <1>1, <1>18 DEF Fail, Busy, AllCarried
  <2>2. Holds(w) /\ (Last(w) => row[wev[w]].status = "DEAD" /\ alerted # {})
    BY <1>18, <2>1 DEF Fail, SlotCarries, Holds
  <2>3. CASE Last(w)
    BY <1>18, <2>1, <2>2, <2>3, CarriedReleased DEF Fail
  <2>4. CASE ~Last(w)
    BY <1>18, <2>1, <2>2, <2>4, CarriedReleased DEF Fail
  <2>5. QED
    BY <2>3, <2>4
<1>19. ASSUME NEW i \in Instances, AlertWindowEnds(i) PROVE AllCarried'
  <2>1. UNCHANGED <<row, job, pubVars, wrkVars, alerted, faults>> /\ muted' \subseteq muted
    BY <1>19 DEF AlertWindowEnds
  <2>2. QED
    BY <1>1, <2>1, CarriedAsIs DEF HeldBy, pubVars, wrkVars, AllCarried
<1>20. ASSUME UNCHANGED <<row, job, pubVars, wrkVars, muted, alerted, faults>>
       PROVE  AllCarried'
  BY <1>1, <1>20, CarriedAsIs DEF HeldBy, pubVars, wrkVars, AllCarried
<1>21. ASSUME NEW k, k # "redis", Fault(k) PROVE FALSE
  BY <1>21, OnlyPushes
<1>22. QED
  BY <1>2, <1>3, <1>4, <1>5, <1>6, <1>7, <1>8, <1>9, <1>10, <1>11, <1>12, <1>13,
     <1>14, <1>15, <1>16, <1>17, <1>18, <1>19, <1>20, <1>21
     DEF Next, Publisher, Worker, Queue, Process, vars, ReturnRowFails, Crash,
         MarkDoneFails, RecordFailureFails, Restart

(* As long as nothing but pushes has failed: a claimed row is carried until *)
(* it is settled, a job fails only after its row was settled, and the      *)
(* first DEAD row has been noticed.  (A crash, a failed statement or an    *)
(* acknowledgement lost after the job was stored each break it: the run    *)
(* OutboxOrphan shows one.)                                                *)
THEOREM NothingForgotten == Spec => []NothingIsForgotten
<1>1. Init => PushInv
  BY DEF Init, PushInv, AllCarried, EventCarried, SlotCarries, NewRow, NoJob, HeldBy, Busy
<1>2. TypeInv /\ ClaimInv /\ PushInv /\ [Next]_vars => (TypeInv /\ ClaimInv /\ PushInv)'
  BY StepTypeInv, StepClaims, StepPush
<1>3. PushInv => NothingIsForgotten
  BY DEF PushInv, AllCarried, EventCarried, NothingIsForgotten, ClaimedIsCarried,
         Carried, FailedJobIsSettled, DeadIsNoticed, Running
<1>4. QED
  BY InitTypeInv, InitClaims, <1>1, <1>2, <1>3, PTL DEF Spec

-----------------------------------------------------------------------------
(* The outbox delivers.  As long as only pushes have failed, a row, its job *)
(* and the slot that handles it have counted the same failed attempts, and *)
(* the row is PROCESSING until the slot settles it.                        *)
EventCounted(e) ==
  /\ row[e].status \in {"ABSENT", "PENDING"} => row[e].attempts = 0
  /\ \A i \in Instances :
       e \in HeldBy(i) => row[e].status = "PROCESSING" /\ row[e].attempts = 0
  /\ job[e].state \in {"waiting", "delayed"} =>
       row[e].status = "PROCESSING" /\ row[e].attempts = job[e].made

SlotCounted(w) ==
  /\ wpc[w] \in {"handling", "marking", "recording"} =>
       row[wev[w]].status = "PROCESSING" /\ row[wev[w]].attempts = wmade[w]
  /\ wpc[w] = "alerting" => Last(w)
  /\ wpc[w] = "failing" /\ ~Last(w) =>
       row[wev[w]].status = "PROCESSING" /\ row[wev[w]].attempts = wmade[w] + 1
  /\ wpc[w] = "handling" =>
       wtodo[w] \subseteq HandlersFor[wev[w]] /\ (wtodo[w] # {} => wev[w] \notin Malformed)

AllCounted ==
  /\ \A e \in Events : EventCounted(e)
  /\ \A w \in Workers : SlotCounted(w)

CountInv == faults.pushOnly => AllCounted

(* A step that touches the row, the job and the holders of one event.      *)
LEMMA CountedBeside ==
  ASSUME TypeInv, AllCounted, NEW e \in Events,
         \A x \in Events \ {e} : row'[x] = row[x] /\ job'[x] = job[x],
         \A x \in Events \ {e} : \A i \in Instances : x \in HeldBy(i)' => x \in HeldBy(i),
         UNCHANGED wrkVars, EventCounted(e)',
         \A w \in Workers : Busy(w) /\ wev[w] = e => SlotCounted(w)'
  PROVE  AllCounted'
<1>1. ASSUME NEW x \in Events PROVE EventCounted(x)'
  <2>1. CASE x = e
    BY <2>1
  <2>2. CASE x # e
    <3>1. EventCounted(x) /\ row'[x] = row[x] /\ job'[x] = job[x]
      BY <2>2 DEF AllCounted
    <3>2. \A i \in Instances : x \in HeldBy(i)' => x \in HeldBy(i)
      BY <2>2
    <3>3. QED
      BY <3>1, <3>2 DEF EventCounted
  <2>3. QED
    BY <2>1, <2>2
<1>2. ASSUME NEW w \in Workers PROVE SlotCounted(w)'
  <2>1. SlotCounted(w) /\ (Last(w)' <=> Last(w))
    BY DEF AllCounted, Last, wrkVars
  <2>2. CASE Busy(w) /\ wev[w] = e
    BY <2>2
  <2>3. CASE Busy(w) /\ wev[w] # e
    <3>1. wev[w] \in Events \ {e}
      BY <2>3 DEF TypeInv, BusyOK
    <3>2. row'[wev[w]] = row[wev[w]]
      BY <3>1
    <3>3. QED
      BY <2>1, <3>2 DEF SlotCounted, wrkVars
  <2>4. CASE ~Busy(w)
    BY <2>4 DEF SlotCounted, Busy, wrkVars
  <2>5. QED
    BY <2>2, <2>3, <2>4
<1>3. QED
  BY <1>1, <1>2 DEF AllCounted

(* A step of slot w with the event it handles, or takes.                   *)
LEMMA CountedAt ==
  ASSUME TypeInv, AllCarried, AllCounted, NEW w \in Workers, NEW e \in Events,
         job[e].state # "active" \/ (Busy(w) /\ wev[w] = e),
         \A x \in Events \ {e} : row'[x] = row[x] /\ job'[x] = job[x],
         UNCHANGED pubVars,
         \A v \in Workers \ {w} : wpc'[v] = wpc[v] /\ wev'[v] = wev[v] /\ wmade'[v] = wmade[v]
                                  /\ wtodo'[v] = wtodo[v],
         EventCounted(e)', SlotCounted(w)'
  PROVE  AllCounted'
<1>1. ASSUME NEW x \in Events PROVE EventCounted(x)'
  <2>1. CASE x = e
    BY <2>1
  <2>2. CASE x # e
    <3>1. EventCounted(x) /\ row'[x] = row[x] /\ job'[x] = job[x]
      BY <2>2 DEF AllCounted
    <3>2. \A i \in Instances : HeldBy(i)' = HeldBy(i)
      BY DEF HeldBy, pubVars
    <3>3. QED
      BY <3>1, <3>2 DEF EventCounted
  <2>3. QED
    BY <2>1, <2>2
<1>2. ASSUME NEW v \in Workers PROVE SlotCounted(v)'
  <2>1. CASE v = w
    BY <2>1
  <2>2. CASE v # w
    <3>1. SlotCounted(v) /\ SlotCarries(v) /\ (Last(v)' <=> Last(v))
      BY <2>2 DEF AllCounted, AllCarried, Last
    <3>2. CASE Busy(v)
      <4>1. wev[v] \in Events \ {e}
        BY <2>2, <3>1, <3>2, OneCarrier DEF TypeInv, BusyOK, SlotCarries
      <4>2. row'[wev[v]] = row[wev[v]]
        BY <4>1
      <4>3. QED
        BY <2>2, <3>1, <4>2 DEF SlotCounted
    <3>3. CASE ~Busy(v)
      BY <2>2, <3>3 DEF SlotCounted, Busy
    <3>4. QED
      BY <3>2, <3>3
  <2>3. QED
    BY <2>1, <2>2
<1>3. QED
  BY <1>1, <1>2 DEF AllCounted

(* A slot whose job is at work is the one that is busy with the event.     *)
LEMMA NobodyBusy ==
  ASSUME AllCarried, NEW e \in Events, job[e].state # "active"
  PROVE  \A w \in Workers : ~(Busy(w) /\ wev[w] = e)
  BY DEF AllCarried, SlotCarries

LEMMA PublisherCounts ==
  ASSUME TypeInv, ClaimInv, AllCarried, AllCounted, NEW i \in Instances,
         Claim(i) \/ ReturnRow(i) \/ \E e \in Events : Push(i, e)
  PROVE  AllCounted'
<1> USE DEF TypeInv, TypeOK
<1>1. CASE Claim(i)
  <2> DEFINE C == Oldest(Eligible)
  <2>1. /\ \A x \in C : x \in Events /\ row[x].status = "PENDING"
        /\ \A x \in C : row'[x].status = "PROCESSING" /\ row'[x].attempts = row[x].attempts
        /\ \A x \in Events \ C : row'[x] = row[x]
    BY <1>1, OldestIsSubset DEF Claim, Claimed, Eligible
  <2>2. HeldBy(i)' = C /\ \A k \in Instances \ {i} : HeldBy(k)' = HeldBy(k)
    <3>1. C \subseteq Events
      BY <2>1
    <3>2. failed[i] = NoEvent /\ batch' = [batch EXCEPT ![i] = C] /\ failed' = failed
      BY <1>1 DEF Claim, Publishing
    <3>3. QED
      BY <3>1, <3>2 DEF HeldBy
  <2>3. UNCHANGED <<job, wrkVars>>
    BY <1>1 DEF Claim
  <2> HIDE DEF C
  <2>4. ASSUME NEW x \in Events PROVE EventCounted(x)'
    <3>1. EventCounted(x) /\ EventCarried(x)
      BY DEF AllCounted, AllCarried
    <3>2. CASE x \in C
      BY <2>1, <2>3, <3>1, <3>2 DEF EventCounted, EventCarried
    <3>3. CASE x \notin C
      <4>1. row'[x] = row[x] /\ \A k \in Instances : x \in HeldBy(k)' => x \in HeldBy(k)
        BY <2>1, <2>2, <3>3
      <4>2. QED
        BY <2>3, <3>1, <4>1 DEF EventCounted
    <3>4. QED
      BY <3>2, <3>3
  <2>5. ASSUME NEW w \in Workers PROVE SlotCounted(w)'
    <3>1. SlotCounted(w) /\ SlotCarries(w) /\ (Last(w)' <=> Last(w))
      BY <2>3 DEF AllCounted, AllCarried, Last, wrkVars
    <3>2. CASE Busy(w)
      <4>1. wev[w] \in Events /\ EventCarried(wev[w]) /\ job[wev[w]].state = "active"
        BY <3>1, <3>2 DEF AllCarried, SlotCarries, BusyOK
      <4>2. row'[wev[w]] = row[wev[w]]
        BY <2>1, <4>1 DEF EventCarried
      <4>3. QED
        BY <2>3, <3>1, <4>2 DEF SlotCounted, wrkVars
    <3>3. CASE ~Busy(w)
      BY <2>3, <3>3 DEF SlotCounted, Busy, wrkVars
    <3>4. QED
      BY <3>2, <3>3
  <2>6. QED
    BY <2>4, <2>5 DEF AllCounted
<1>2. CASE ReturnRow(i)
  <2>0. PICK e \in Events : e = failed[i]
    BY <1>2 DEF ReturnRow
  <2>1. e \in HeldBy(i) /\ EventCounted(e) /\ EventCarried(e)
    BY <1>2, <2>0 DEF ReturnRow, HeldBy, AllCounted, AllCarried
  <2>2. job[e].state = "none" /\ row[e].attempts = 0
    BY <2>1 DEF EventCarried, EventCounted
  <2>3. /\ row'[e].status = "PENDING" /\ row'[e].attempts = 0
        /\ \A x \in Events \ {e} : row'[x] = row[x]
        /\ UNCHANGED <<job, wrkVars>>
    BY <1>2, <2>0, <2>2 DEF ReturnRow, Settle, WriteRow
  <2>4. \A x \in Events : \A k \in Instances : x \in HeldBy(k)' => x \in HeldBy(k)
    BY <1>2 DEF ReturnRow, HeldBy
  <2>5. \A k \in Instances : e \notin HeldBy(k)'
    <3>1. e \notin HeldBy(i)'
      (* the row whose push has failed has left the batch *)
      BY <1>2, <2>0 DEF ReturnRow, HeldBy, ClaimInv
    <3>2. \A k \in Instances \ {i} : e \notin HeldBy(k)
      BY <2>1 DEF ClaimInv
    <3>3. QED
      BY <2>4, <3>1, <3>2
  <2>6. EventCounted(e)'
    BY <2>2, <2>3, <2>5 DEF EventCounted
  <2>7. QED
    BY <2>2, <2>3, <2>4, <2>6, NobodyBusy, CountedBeside
<1>3. ASSUME NEW e \in Events, Push(i, e) PROVE AllCounted'
  <2>1. e \in HeldBy(i) /\ EventCounted(e) /\ EventCarried(e)
    BY <1>3 DEF Push, HeldBy, AllCounted, AllCarried
  <2>2. job[e].state = "none" /\ row[e].attempts = 0 /\ row[e].status = "PROCESSING"
    BY <2>1 DEF EventCarried, EventCounted
  <2>3. /\ job'[e].state = "waiting" /\ job'[e].made = 0
        /\ \A x \in Events \ {e} : job'[x] = job[x]
        /\ UNCHANGED <<row, wrkVars>>
    BY <1>3, <2>2 DEF Push, Add, MoveJob
  <2>4. \A x \in Events : \A k \in Instances : x \in HeldBy(k)' => x \in HeldBy(k)
    BY <1>3 DEF Push, HeldBy
  <2>5. EventCounted(e)'
    BY <2>2, <2>3 DEF EventCounted
  <2>6. QED
    BY <2>2, <2>3, <2>4, <2>5, NobodyBusy, CountedBeside
<1>4. QED
  BY <1>1, <1>2, <1>3

LEMMA QueueCounts ==
  ASSUME TypeInv, AllCarried, AllCounted, NEW e \in Events,
         Commit(e) \/ RetryRow(e) \/ RetryJob(e) \/ Remove(e)
  PROVE  AllCounted'
<1> USE DEF TypeInv, TypeOK
<1>0. EventCounted(e) /\ EventCarried(e)
  BY DEF AllCounted, AllCarried
<1>1. \A i \in Instances : HeldBy(i)' = HeldBy(i)
  BY DEF Commit, RetryRow, RetryJob, Remove, HeldBy, pubVars
<1>2. \A x \in Events \ {e} : row'[x] = row[x] /\ job'[x] = job[x]
  BY DEF Commit, RetryRow, RetryJob, Remove, WriteRow, MoveJob
<1>3. UNCHANGED wrkVars
  BY DEF Commit, RetryRow, RetryJob, Remove
<1>4. CASE Commit(e)
  <2>1. job[e].state = "none" /\ job' = job /\ row'[e].status = "PENDING" /\ row'[e].attempts = 0
    BY <1>0, <1>4 DEF Commit, WriteRow, EventCarried
  <2>2. \A i \in Instances : e \notin HeldBy(i)
    BY <1>0, <1>4 DEF Commit, EventCounted
  <2>3. EventCounted(e)'
    BY <1>1, <2>1, <2>2 DEF EventCounted
  <2>4. QED
    BY <1>1, <1>2, <1>3, <2>1, <2>3, NobodyBusy, CountedBeside
<1>5. CASE RetryRow(e)
  <2>1. job' = job /\ row'[e].status = row[e].status /\ row'[e].attempts = row[e].attempts
    BY <1>5 DEF RetryRow, WriteRow
  <2>2. EventCounted(e)'
    BY <1>0, <1>1, <2>1 DEF EventCounted
  <2>3. ASSUME NEW w \in Workers, Busy(w), wev[w] = e PROVE SlotCounted(w)'
    BY <1>3, <2>1, <2>3 DEF AllCounted, SlotCounted, Last, wrkVars
  <2>4. QED
    BY <1>1, <1>2, <1>3, <2>2, <2>3, CountedBeside
<1>6. CASE RetryJob(e)
  <2>1. job[e].state = "delayed" /\ job'[e].state = "waiting" /\ job'[e].made = job[e].made /\ row' = row
    BY <1>6 DEF RetryJob, MoveJob
  <2>2. EventCounted(e)'
    BY <1>0, <1>1, <2>1 DEF EventCounted
  <2>3. QED
    BY <1>1, <1>2, <1>3, <2>1, <2>2, NobodyBusy, CountedBeside
<1>7. CASE Remove(e)
  <2>1. job[e].state \in {"completed", "failed"} /\ job'[e].state = "none" /\ row' = row
    BY <1>7 DEF Remove, NoJob
  <2>2. EventCounted(e)'
    BY <1>0, <1>1, <2>1 DEF EventCounted
  <2>3. QED
    BY <1>1, <1>2, <1>3, <2>1, <2>2, NobodyBusy, CountedBeside
<1>8. QED
  BY <1>4, <1>5, <1>6, <1>7

(* A slot takes a job, or goes on with the one it has.                     *)
LEMMA SlotCounts ==
  ASSUME TypeInv, AllCarried, AllCounted, NEW w \in Workers,
         \/ \E e \in Events : Take(w, e)
         \/ \E h \in Handlers : HandlerSucceeds(w, h) \/ HandlerRejects(w, h)
         \/ Settled(w) \/ MarkDone(w) \/ RecordFailure(w) \/ SendAlert(w)
         \/ Complete(w) \/ Fail(w)
  PROVE  AllCounted'
<1> USE DEF TypeInv, TypeOK
<1>1. ASSUME NEW e \in Events, Take(w, e) PROVE AllCounted'
  <2>1. EventCounted(e) /\ job[e].state = "waiting"
    BY <1>1 DEF AllCounted, Take
  <2>2. /\ job'[e].state = "active" /\ \A x \in Events \ {e} : job'[x] = job[x]
        /\ UNCHANGED <<row, pubVars>>
    BY <1>1 DEF Take, MoveJob
  <2>3. /\ wpc'[w] = "handling" /\ wev'[w] = e /\ wmade'[w] = job[e].made
        /\ wtodo'[w] = IF e \in Malformed THEN {} ELSE HandlersFor[e]
        /\ \A v \in Workers \ {w} : wpc'[v] = wpc[v] /\ wev'[v] = wev[v] /\ wmade'[v] = wmade[v]
                                    /\ wtodo'[v] = wtodo[v]
    BY <1>1 DEF Take, Goto
  <2>4. SlotCounted(w)'
    BY <2>1, <2>2, <2>3 DEF EventCounted, SlotCounted
  <2>5. EventCounted(e)'
    BY <2>1, <2>2 DEF EventCounted, HeldBy, pubVars
  <2>6. QED
    BY <2>1, <2>2, <2>3, <2>4, <2>5, CountedAt
<1>2. ASSUME Busy(w) PROVE
        /\ wev[w] \in Events /\ job[wev[w]].state = "active" /\ SlotCounted(w) /\ SlotCarries(w)
        /\ EventCounted(wev[w]) /\ EventCarried(wev[w])
        /\ \A i \in Instances : wev[w] \notin HeldBy(i)
        /\ row[wev[w]].status \notin {"ABSENT", "PENDING"}
  <2>1. wev[w] \in Events /\ SlotCounted(w) /\ SlotCarries(w) /\ job[wev[w]].state = "active"
    BY <1>2 DEF BusyOK, AllCarried, AllCounted, SlotCarries
  <2>2. EventCounted(wev[w]) /\ EventCarried(wev[w])
    BY <2>1 DEF AllCarried, AllCounted
  <2>3. QED
    BY <2>1, <2>2 DEF EventCarried
<1>3. ASSUME NEW h \in Handlers, HandlerSucceeds(w, h) \/ HandlerRejects(w, h) PROVE AllCounted'
  <2>1. Busy(w) /\ wpc[w] = "handling" /\ UNCHANGED <<row, job, pubVars, wpc, wev, wmade>>
        /\ wtodo' = [wtodo EXCEPT ![w] = @ \ {h}]
    BY <1>3 DEF HandlerSucceeds, HandlerRejects, Busy
  <2>2. SlotCounted(w)'
    BY <1>2, <2>1 DEF SlotCounted, Last
  <2>3. PICK e \in Events : e = wev[w]
    BY <1>2, <2>1
  <2>4. EventCounted(e)'
    BY <1>2, <2>1, <2>3 DEF EventCounted, HeldBy, pubVars
  <2>5. \A v \in Workers \ {w} : wtodo'[v] = wtodo[v]
    BY <2>1
  <2>6. QED
    BY <2>1, <2>2, <2>3, <2>4, <2>5, CountedAt
<1>4. CASE Settled(w)
  <2>1. Busy(w) /\ wpc[w] = "handling" /\ UNCHANGED <<row, job, pubVars, wev, wmade, wtodo>>
        /\ wpc'[w] \in {"recording", "marking"} /\ \A v \in Workers \ {w} : wpc'[v] = wpc[v]
    BY <1>4 DEF Settled, Goto, Busy
  <2>2. SlotCounted(w)'
    BY <1>2, <2>1 DEF SlotCounted
  <2>3. PICK e \in Events : e = wev[w]
    BY <1>2, <2>1
  <2>4. EventCounted(e)'
    BY <1>2, <2>1, <2>3 DEF EventCounted, HeldBy, pubVars
  <2>5. QED
    BY <2>1, <2>2, <2>3, <2>4, CountedAt
<1>5. CASE SendAlert(w)
  <2>1. Busy(w) /\ wpc[w] = "alerting" /\ UNCHANGED <<row, job, pubVars, wev, wmade, wtodo>>
        /\ wpc'[w] = "failing" /\ \A v \in Workers \ {w} : wpc'[v] = wpc[v]
    BY <1>5 DEF SendAlert, Goto, Busy
  <2>2. Last(w)
    BY <1>2, <2>1 DEF SlotCounted
  <2>3. SlotCounted(w)'
    BY <2>1, <2>2 DEF SlotCounted, Last
  <2>4. PICK e \in Events : e = wev[w]
    BY <1>2, <2>1
  <2>5. EventCounted(e)'
    BY <1>2, <2>1, <2>4 DEF EventCounted, HeldBy, pubVars
  <2>6. QED
    BY <2>1, <2>3, <2>4, <2>5, CountedAt
<1>6. CASE MarkDone(w) \/ RecordFailure(w)
  <2>1. Busy(w) /\ UNCHANGED <<job, pubVars, wev, wmade, wtodo>>
        /\ \A v \in Workers \ {w} : wpc'[v] = wpc[v]
    BY <1>6 DEF MarkDone, RecordFailure, Goto, Busy
  <2>2. PICK e \in Events : e = wev[w]
    BY <1>2, <2>1
  <2>3. \A x \in Events \ {e} : row'[x] = row[x]
    BY <1>6, <2>2 DEF MarkDone, RecordFailure, Settle, WriteRow
  <2>4. \/ wpc'[w] = "completing" /\ row'[e].status = "DONE"
        \/ Last(w) /\ wpc'[w] = "alerting" /\ row'[e].status = "DEAD"
        \/ ~Last(w) /\ wpc'[w] = "failing" /\ row'[e].status = "PROCESSING"
           /\ row'[e].attempts = wmade[w] + 1
    BY <1>6, <2>2 DEF MarkDone, RecordFailure, Settle, WriteRow, Goto
  <2>5. SlotCounted(w)'
    BY <2>1, <2>2, <2>4 DEF SlotCounted, Last
  <2>6. EventCounted(e)'
    BY <1>2, <2>1, <2>2, <2>4 DEF EventCounted, HeldBy, pubVars
  <2>7. QED
    BY <2>1, <2>2, <2>3, <2>5, <2>6, CountedAt
<1>7. CASE Complete(w) \/ Fail(w)
  <2>1. Busy(w) /\ Sleep(w) /\ UNCHANGED <<row, pubVars>>
    BY <1>7 DEF Complete, Fail, Busy
  <2>2. PICK e \in Events : e = wev[w]
    BY <1>2, <2>1
  <2>3. Holds(w)
    BY <1>2, <2>1 DEF SlotCarries, Holds
  <2>4. /\ \A x \in Events \ {e} : job'[x] = job[x]
        /\ \/ job'[e].state \in {"completed", "failed"}
           \/ job'[e].state = "delayed" /\ wpc[w] = "failing" /\ ~Last(w)
              /\ job'[e].made = wmade[w] + 1
    BY <1>7, <2>2, <2>3 DEF Complete, Fail, MoveJob
  <2>5. /\ wpc'[w] = "idle"
        /\ \A v \in Workers \ {w} : wpc'[v] = wpc[v] /\ wev'[v] = wev[v] /\ wmade'[v] = wmade[v]
                                    /\ wtodo'[v] = wtodo[v]
    BY <2>1 DEF Sleep
  <2>6. SlotCounted(w)'
    BY <2>5 DEF SlotCounted
  <2>7. EventCounted(e)'
    BY <1>2, <2>1, <2>2, <2>4 DEF EventCounted, SlotCounted, HeldBy, pubVars
  <2>8. QED
    BY <2>1, <2>2, <2>4, <2>5, <2>6, <2>7, CountedAt
<1> HIDE DEF TypeInv, TypeOK
<1>8. QED
  BY <1>1, <1>3, <1>4, <1>5, <1>6, <1>7

(* A step that touches no count.                                           *)
LEMMA CountedAsIs ==
  ASSUME AllCounted, UNCHANGED <<row, job, wrkVars>>,
         \A i \in Instances : HeldBy(i)' = HeldBy(i)
  PROVE  AllCounted'
<1>1. ASSUME NEW e \in Events PROVE EventCounted(e)'
  BY DEF AllCounted, EventCounted
<1>2. ASSUME NEW w \in Workers PROVE SlotCounted(w)'
  BY DEF AllCounted, SlotCounted, Last, wrkVars
<1>3. QED
  BY <1>1, <1>2 DEF AllCounted

LEMMA StepCounts == TypeInv /\ ClaimInv /\ PushInv /\ CountInv /\ [Next]_vars => CountInv'
<1> SUFFICES ASSUME TypeInv, ClaimInv, PushInv, CountInv, [Next]_vars, faults'.pushOnly
             PROVE  AllCounted'
  BY DEF CountInv
<1>0. TypeOK
  BY DEF TypeInv
<1>1. ASSUME NEW k, Fault(k) PROVE k = "redis" /\ faults.pushOnly
  BY <1>0, <1>1, OnlyPushes
<1>2. ASSUME faults.pushOnly PROVE AllCarried /\ AllCounted
  BY <1>2 DEF PushInv, CountInv
<1>3. ASSUME NEW e \in Events, Commit(e) \/ RetryRow(e) \/ RetryJob(e) \/ Remove(e) PROVE AllCounted'
  BY <1>2, <1>3, QueueCounts DEF Commit, RetryRow, RetryJob, Remove
<1>4. ASSUME NEW e \in Events, StalledCheck(e) PROVE AllCounted'
  <2>1. Abandoned(e) /\ UNCHANGED faults /\ job[e].state = "active"
    BY <1>1, <1>4 DEF StalledCheck
  <2>2. EventCarried(e)
    BY <1>2, <2>1 DEF AllCarried
  <2>3. QED
    BY <2>1, <2>2 DEF Abandoned, EventCarried
<1>5. ASSUME NEW i \in Instances, Claim(i) \/ ReturnRow(i) \/ \E e \in Events : Push(i, e)
      PROVE  AllCounted'
  BY <1>2, <1>5, PublisherCounts DEF Claim, ReturnRow, Push
<1>6. ASSUME NEW i \in Instances, NEW e \in Events, PushFails(i, e) PROVE AllCounted'
  <2>1. faults.pushOnly /\ UNCHANGED <<row, job, wrkVars>>
    BY <1>1, <1>6 DEF PushFails
  <2>2. \A k \in Instances : HeldBy(k)' = HeldBy(k)
    BY <1>0, <1>6 DEF PushFails, HeldBy, TypeOK
  <2>3. QED
    BY <1>2, <2>1, <2>2, CountedAsIs
<1>7. ASSUME NEW w \in Workers,
             \/ \E e \in Events : Take(w, e)
             \/ \E h \in Handlers : HandlerSucceeds(w, h) \/ HandlerRejects(w, h)
             \/ Settled(w) \/ MarkDone(w) \/ RecordFailure(w) \/ SendAlert(w)
             \/ Complete(w) \/ Fail(w)
      PROVE  AllCounted'
  BY <1>2, <1>7, SlotCounts DEF Take, HandlerSucceeds, HandlerRejects, Settled, MarkDone,
     RecordFailure, SendAlert, Complete, Fail
<1>8. ASSUME UNCHANGED <<row, job, pubVars, wrkVars, faults>> PROVE AllCounted'
  BY <1>2, <1>8, CountedAsIs DEF HeldBy, pubVars
<1>9. ASSUME NEW i \in Instances, Publisher(i) \/ Process(i) PROVE AllCounted'
  <2>1. CASE Crash(i) \/ ReturnRowFails(i)
    <3>1. Fault("crash") \/ Fault("db")
      BY <2>1 DEF Crash, ReturnRowFails
    <3>2. QED
      BY <1>1, <3>1
  <2>2. CASE AlertWindowEnds(i) \/ Restart(i)
    BY <1>8, <2>2 DEF AlertWindowEnds, Restart
  <2>3. QED
    BY <1>5, <1>6, <1>9, <2>1, <2>2 DEF Publisher, Process
<1>10. ASSUME NEW w \in Workers, Worker(w) PROVE AllCounted'
  <2>1. CASE MarkDoneFails(w) \/ RecordFailureFails(w)
    BY <1>1, <2>1 DEF MarkDoneFails, RecordFailureFails
  <2>2. QED
    BY <1>7, <1>10, <2>1 DEF Worker
<1>11. CASE UNCHANGED vars
  BY <1>8, <1>11 DEF vars
<1>12. QED
  BY <1>3, <1>4, <1>9, <1>10, <1>11 DEF Next, Queue

(* What the promise does not see.                                          *)
LEMMA NothingDelivered ==
  ASSUME \A e \in Events : StageOf(row'[e].status) = StageOf(row[e].status)
                           /\ row'[e].attempts = row[e].attempts,
         UNCHANGED <<fulfilled, faults>>
  PROVE  UNCHANGED Delivery!vars
<1>1. [e \in Events |-> StageOf(row[e].status)]' = [e \in Events |-> StageOf(row[e].status)]
  OBVIOUS
<1>2. [e \in Events |-> row[e].attempts]' = [e \in Events |-> row[e].attempts]
  OBVIOUS
<1>3. QED
  BY <1>1, <1>2 DEF Delivery!vars

(* A fault that is not covered ends the promise and changes no event; after *)
(* it anything may happen.                                                 *)
LEMMA PromiseEnds ==
  ASSUME TypeOK, [Next]_vars, ~faults'.pushOnly
  PROVE  Delivery!Next
<1>1. CASE ~faults.pushOnly
  BY <1>1 DEF Delivery!Next, Delivery!Uncovered
<1>2. CASE faults.pushOnly
  <2>1. ~(\E w \in Workers : MarkDone(w) \/ RecordFailure(w) \/ \E h \in Handlers : HandlerSucceeds(w, h))
    BY <1>2 DEF MarkDone, RecordFailure, HandlerSucceeds
  <2>2. UNCHANGED <<row, fulfilled>>
    <3>1. ASSUME NEW e \in Events, Commit(e) \/ RetryRow(e) \/ Queue(e)
          PROVE  UNCHANGED <<row, fulfilled>>
      BY <1>2, <3>1 DEF Commit, RetryRow, Queue, RetryJob, Remove, StalledCheck
    <3>2. ASSUME NEW i \in Instances, Publisher(i) \/ Process(i)
          PROVE  UNCHANGED <<row, fulfilled>>
      BY <1>2, <3>2 DEF Publisher, Process, Claim, ReturnRow, ReturnRowFails, Push, PushFails,
                        AlertWindowEnds, Crash, Restart
    <3>3. ASSUME NEW w \in Workers, Worker(w)
          PROVE  UNCHANGED <<row, fulfilled>>
      BY <2>1, <3>3 DEF Worker, Take, HandlerRejects, Settled, MarkDoneFails,
                        RecordFailureFails, SendAlert, Complete, Fail
    <3>4. QED
      BY <3>1, <3>2, <3>3 DEF Next, vars
  <2>3. QED
    BY <1>2, <2>2 DEF Delivery!Next, Delivery!Break
<1>3. QED
  BY <1>1, <1>2

(* The row of a served event is settled: the promise sees it finished, or  *)
(* one more failed attempt.                                                *)
LEMMA SettlingDelivers ==
  ASSUME TypeOK, faults.pushOnly, UNCHANGED <<fulfilled, faults>>, NEW e \in Events,
         NEW s \in RowStatus, NEW n \in 0..MaxAttempts, NEW b \in BOOLEAN, WriteRow(e, s, n, b),
         row[e].status = "PROCESSING",
         \/ /\ s = "DONE" /\ n = row[e].attempts
            /\ e \notin Malformed /\ HandlersFor[e] \subseteq fulfilled[e]
         \/ /\ n = row[e].attempts + 1
            /\ s = IF n = MaxAttempts THEN "DEAD" ELSE "PROCESSING"
  PROVE  Delivery!Next
<1>1. /\ [x \in Events |-> StageOf(row[x].status)]' =
            [[x \in Events |-> StageOf(row[x].status)] EXCEPT ![e] = StageOf(s)]
      /\ [x \in Events |-> row[x].attempts]' = [[x \in Events |-> row[x].attempts] EXCEPT ![e] = n]
  <2>1. row' \in [Events -> [status : RowStatus, attempts : 0..MaxAttempts, deferred : BOOLEAN]]
        /\ row'[e].status = s /\ row'[e].attempts = n /\ \A x \in Events \ {e} : row'[x] = row[x]
    BY DEF TypeOK, WriteRow
  <2>2. QED
    BY <2>1
<1>2. [x \in Events |-> StageOf(row[x].status)][e] = "accepted"
  BY DEF StageOf
<1>3. [x \in Events |-> row[x].attempts][e] = row[e].attempts
  OBVIOUS
<1>4. CASE s = "DONE"
  <2>1. StageOf(s) = "done" /\ n = row[e].attempts
        /\ e \notin Malformed /\ HandlersFor[e] \subseteq fulfilled[e]
    BY <1>4 DEF StageOf
  <2>2. [x \in Events |-> row[x].attempts]' = [x \in Events |-> row[x].attempts]
    BY <1>1, <2>1
  <2>3. Delivery!Finish(e)
    BY <1>1, <1>2, <2>1, <2>2 DEF Delivery!Finish
  <2>4. QED
    BY <2>3 DEF Delivery!Next, Delivery!Deliver
<1>5. CASE s # "DONE"
  <2>1. n = row[e].attempts + 1 /\ s = IF n = MaxAttempts THEN "DEAD" ELSE "PROCESSING"
    BY <1>5
  <2>2. StageOf(s) = IF n = MaxAttempts THEN "dead" ELSE "accepted"
    BY <2>1 DEF StageOf
  <2>3. row[e].attempts \in Nat /\ row[e].attempts < MaxAttempts
    BY <2>1, ConstantsAssumption DEF TypeOK
  <2>4. Delivery!FailAttempt(e)
    BY <1>1, <1>2, <1>3, <2>1, <2>2, <2>3 DEF Delivery!FailAttempt
  <2>5. QED
    BY <2>4 DEF Delivery!Next, Delivery!Deliver
<1>6. QED
  BY <1>4, <1>5

(* The steps of slot w that the promise sees.                              *)
LEMMA SlotDelivers ==
  ASSUME TypeInv, FulfilInv, AllCarried, AllCounted, faults.pushOnly, NEW w \in Workers,
         \/ \E h \in Handlers : HandlerSucceeds(w, h)
         \/ MarkDone(w) \/ RecordFailure(w)
  PROVE  Delivery!Next
<1>0. TypeOK /\ Busy(w) /\ wpc[w] \in {"handling", "marking", "recording"}
      /\ wev[w] \in Events /\ wmade[w] \in Nat /\ wmade[w] < MaxAttempts /\ SlotCounted(w)
  <2>1. wpc[w] \in {"handling", "marking", "recording"}
    BY DEF HandlerSucceeds, MarkDone, RecordFailure
  <2>2. Busy(w)
    BY <2>1 DEF Busy
  <2>3. QED
    BY <2>1, <2>2 DEF TypeInv, TypeOK, BusyOK, AllCounted
<1>1. PICK e \in Events : e = wev[w]
  BY <1>0
<1>2. row[e].status = "PROCESSING" /\ row[e].attempts = wmade[w]
  BY <1>0, <1>1 DEF SlotCounted
<1>3. ASSUME NEW h \in Handlers, HandlerSucceeds(w, h) PROVE Delivery!Next
  <2>1. h \in HandlersFor[e] /\ e \notin Malformed
    BY <1>0, <1>1, <1>3 DEF HandlerSucceeds, SlotCounted
  <2>2. UNCHANGED <<row, faults>> /\ fulfilled' = [fulfilled EXCEPT ![e] = @ \cup {h}]
    BY <1>1, <1>3 DEF HandlerSucceeds
  <2>3. StageOf(row[e].status) = "accepted"
    BY <1>2 DEF StageOf
  <2>4. Delivery!Report(e, h)
    BY <2>1, <2>2, <2>3 DEF Delivery!Report
  <2>5. QED
    BY <2>1, <2>4 DEF Delivery!Next, Delivery!Deliver
<1>4. CASE MarkDone(w)
  <2>1. PICK n \in 0..MaxAttempts : n = wmade[w]
    BY <1>0
  <2>2. PICK b \in BOOLEAN : WriteRow(e, "DONE", n, b)
    BY <1>0, <1>1, <1>2, <1>4, <2>1 DEF MarkDone, Settle, TypeOK
  <2>3. e \notin Malformed /\ HandlersFor[e] \subseteq fulfilled[e] /\ UNCHANGED <<fulfilled, faults>>
    BY <1>1, <1>4 DEF MarkDone, FulfilInv, WorkersFulfil
  <2>4. TypeOK /\ "DONE" \in RowStatus
    BY <1>0 DEF RowStatus
  <2>5. n = row[e].attempts
    BY <1>2, <2>1
  <2>6. QED
    BY <1>2, <2>2, <2>3, <2>4, <2>5, SettlingDelivers
<1>5. CASE RecordFailure(w)
  <2>1. PICK n \in 0..MaxAttempts, s \in RowStatus :
          n = wmade[w] + 1 /\ (Last(w) <=> n = MaxAttempts)
          /\ s = IF Last(w) THEN "DEAD" ELSE "PROCESSING"
    <3>1. wmade[w] + 1 \in 0..MaxAttempts /\ (Last(w) <=> wmade[w] + 1 = MaxAttempts)
      BY <1>0, ConstantsAssumption DEF Last
    <3>2. "DEAD" \in RowStatus /\ "PROCESSING" \in RowStatus
      BY DEF RowStatus
    <3>3. QED
      BY <3>1, <3>2
  <2>2. PICK b \in BOOLEAN : WriteRow(e, s, n, b)
    <3>1. row[e].deferred \in BOOLEAN
      BY <1>0 DEF TypeOK
    <3>2. WriteRow(e, s, n, FALSE \/ row[e].deferred)
      BY <1>1, <1>5, <2>1 DEF RecordFailure, Settle
    <3>3. QED
      BY <3>1, <3>2
  <2>3. UNCHANGED <<fulfilled, faults>>
    BY <1>5 DEF RecordFailure
  <2>4. TypeOK
    BY <1>0
  <2>5. n = row[e].attempts + 1 /\ s = IF n = MaxAttempts THEN "DEAD" ELSE "PROCESSING"
    BY <1>2, <2>1
  <2>6. QED
    BY <1>2, <2>2, <2>3, <2>4, <2>5, SettlingDelivers
<1>6. QED
  BY <1>3, <1>4, <1>5

LEMMA StepDelivers ==
  TypeInv /\ ClaimInv /\ FulfilInv /\ PushInv /\ CountInv /\ [Next]_vars => [Delivery!Next]_(Delivery!vars)
<1> SUFFICES ASSUME TypeInv, ClaimInv, FulfilInv, PushInv, CountInv, [Next]_vars, faults'.pushOnly
             PROVE  Delivery!Next \/ UNCHANGED Delivery!vars
  BY PromiseEnds DEF TypeInv
<1>0. TypeOK
  BY DEF TypeInv
<1>1. ASSUME NEW k, Fault(k) PROVE k = "redis"
  BY <1>0, <1>1, OnlyPushes
<1>2. ASSUME faults.pushOnly PROVE AllCarried /\ AllCounted
  BY <1>2 DEF PushInv, CountInv
<1>3. ASSUME UNCHANGED <<row, fulfilled, faults>> PROVE UNCHANGED Delivery!vars
  BY <1>3, NothingDelivered
<1>4. ASSUME NEW e \in Events, Commit(e) PROVE Delivery!Next
  <2>1. faults.pushOnly /\ row[e].status = "ABSENT" /\ UNCHANGED <<fulfilled, faults>>
        /\ WriteRow(e, "PENDING", 0, FALSE)
    BY <1>4 DEF Commit
  <2>2. row[e].attempts = 0
    BY <1>2, <2>1 DEF AllCounted, EventCounted
  <2>3. /\ [x \in Events |-> StageOf(row[x].status)]' =
             [[x \in Events |-> StageOf(row[x].status)] EXCEPT ![e] = "accepted"]
        /\ [x \in Events |-> row[x].attempts]' = [[x \in Events |-> row[x].attempts] EXCEPT ![e] = 0]
    <3>1. /\ row' \in [Events -> [status : RowStatus, attempts : 0..MaxAttempts, deferred : BOOLEAN]]
          /\ row'[e].status = "PENDING" /\ row'[e].attempts = 0
          /\ \A x \in Events \ {e} : row'[x] = row[x]
      BY <1>0, <2>1, ConstantsAssumption DEF TypeOK, WriteRow, RowStatus
    <3>2. StageOf("PENDING") = "accepted"
      BY DEF StageOf
    <3>3. QED
      BY <3>1, <3>2
  <2>4. [x \in Events |-> row[x].attempts]' = [x \in Events |-> row[x].attempts]
    BY <2>2, <2>3
  <2>5. StageOf(row[e].status) = "absent"
    BY <2>1 DEF StageOf
  <2>6. Delivery!Accept(e)
    BY <2>1, <2>3, <2>4, <2>5 DEF Delivery!Accept
  <2>7. QED
    BY <2>6 DEF Delivery!Next, Delivery!Deliver
<1>5. ASSUME NEW e \in Events, RetryRow(e) PROVE UNCHANGED Delivery!vars
  <2>1. \A x \in Events : row'[x].status = row[x].status /\ row'[x].attempts = row[x].attempts
    BY <1>0, <1>5 DEF RetryRow, WriteRow, TypeOK
  <2>2. UNCHANGED <<fulfilled, faults>>
    BY <1>5 DEF RetryRow
  <2>3. QED
    BY <2>1, <2>2, NothingDelivered
<1>6. ASSUME NEW i \in Instances, Claim(i) PROVE UNCHANGED Delivery!vars
  <2>1. \A x \in Events :
          /\ row'[x].attempts = row[x].attempts
          /\ row'[x] = row[x] \/ (row[x].status = "PENDING" /\ row'[x].status = "PROCESSING")
    BY <1>0, <1>6, OldestIsSubset DEF Claim, Claimed, Eligible, TypeOK
  <2>2. \A x \in Events : StageOf(row'[x].status) = StageOf(row[x].status)
    BY <2>1 DEF StageOf
  <2>3. UNCHANGED <<fulfilled, faults>>
    BY <1>6 DEF Claim
  <2>4. QED
    BY <2>1, <2>2, <2>3, NothingDelivered
<1>7. ASSUME NEW i \in Instances, ReturnRow(i) PROVE UNCHANGED Delivery!vars
  <2>1. PICK e \in Events : e = failed[i]
    BY <1>0, <1>7 DEF ReturnRow, TypeOK
  <2>2. UNCHANGED <<fulfilled, faults>> /\ faults.pushOnly /\ e \in HeldBy(i)
    BY <1>7, <2>1 DEF ReturnRow, HeldBy
  <2>3. row[e].status = "PROCESSING"
    BY <1>2, <2>2 DEF AllCounted, EventCounted
  <2>4. /\ row'[e].status = "PENDING" /\ row'[e].attempts = row[e].attempts
        /\ \A x \in Events \ {e} : row'[x] = row[x]
    BY <1>0, <1>7, <2>1 DEF ReturnRow, Settle, WriteRow, TypeOK
  <2>5. \A x \in Events : StageOf(row'[x].status) = StageOf(row[x].status)
                          /\ row'[x].attempts = row[x].attempts
    BY <2>3, <2>4 DEF StageOf
  <2>6. QED
    BY <2>2, <2>5, NothingDelivered
<1>8. ASSUME NEW i \in Instances, NEW e \in Events, Push(i, e) \/ PushFails(i, e)
      PROVE  UNCHANGED Delivery!vars
  <2>1. UNCHANGED <<row, fulfilled>> /\ faults'.pushOnly = faults.pushOnly
    BY <1>0, <1>8, OnlyPushes DEF Push, PushFails
  <2>2. QED
    BY <2>1 DEF Delivery!vars
<1>9. ASSUME NEW e \in Events, Queue(e) PROVE UNCHANGED Delivery!vars
  <2>1. UNCHANGED <<row, fulfilled>>
    BY <1>9 DEF Queue, RetryJob, Remove, StalledCheck
  <2>2. UNCHANGED faults
    BY <1>1, <1>9 DEF Queue, RetryJob, Remove, StalledCheck
  <2>3. QED
    BY <1>3, <2>1, <2>2
<1>10. ASSUME NEW i \in Instances, Process(i) \/ ReturnRowFails(i) PROVE UNCHANGED Delivery!vars
  <2>1. CASE Crash(i) \/ ReturnRowFails(i)
    <3>1. Fault("crash") \/ Fault("db")
      BY <2>1 DEF Crash, ReturnRowFails
    <3>2. QED
      BY <1>1, <3>1
  <2>2. CASE AlertWindowEnds(i) \/ Restart(i)
    BY <1>3, <2>2 DEF AlertWindowEnds, Restart
  <2>3. QED
    BY <1>10, <2>1, <2>2 DEF Process
<1>11. ASSUME NEW w \in Workers, Worker(w) PROVE Delivery!Next \/ UNCHANGED Delivery!vars
  <2>1. CASE MarkDoneFails(w) \/ RecordFailureFails(w)
    BY <1>1, <2>1 DEF MarkDoneFails, RecordFailureFails
  <2>2. CASE (\E h \in Handlers : HandlerSucceeds(w, h)) \/ MarkDone(w) \/ RecordFailure(w)
    <3>1. faults.pushOnly
      BY <2>2 DEF HandlerSucceeds, MarkDone, RecordFailure
    <3>2. QED
      BY <1>2, <2>2, <3>1, SlotDelivers
  <2>3. CASE \/ \E e \in Events : Take(w, e)
             \/ \E h \in Handlers : HandlerRejects(w, h)
             \/ Settled(w) \/ SendAlert(w) \/ Complete(w) \/ Fail(w)
    BY <1>3, <2>3 DEF Take, HandlerRejects, Settled, SendAlert, Complete, Fail
  <2>4. QED
    BY <1>11, <2>1, <2>2, <2>3 DEF Worker
<1>12. CASE UNCHANGED vars
  BY <1>3, <1>12 DEF vars
<1>13. ASSUME NEW i \in Instances, Publisher(i) PROVE UNCHANGED Delivery!vars
  BY <1>6, <1>7, <1>8, <1>10, <1>13 DEF Publisher
<1>14. QED
  BY <1>4, <1>5, <1>9, <1>10, <1>11, <1>12, <1>13 DEF Next

(* The outbox implements EventDelivery, step by step: until a fault other   *)
(* than a failed push, an event that is committed is finished once, after   *)
(* all its handlers, or given up after the whole quota of attempts, and    *)
(* stays so.                                                               *)
THEOREM DeliversStepByStep == Spec => Delivery!Safety
<1>1. Init => PushInv /\ CountInv
  BY DEF Init, PushInv, AllCarried, EventCarried, SlotCarries, NewRow, NoJob, HeldBy, Busy,
         CountInv, AllCounted, EventCounted, SlotCounted
<1>2. Init => Delivery!Init
  BY DEF Init, NewRow, StageOf, Delivery!Init
<1>3. TypeInv /\ ClaimInv /\ FulfilInv /\ PushInv /\ CountInv /\ [Next]_vars
        => (TypeInv /\ ClaimInv /\ FulfilInv /\ PushInv /\ CountInv)'
  BY StepTypeInv, StepClaims, StepFulfil, StepPush, StepCounts
<1>4. QED
  BY InitTypeInv, InitClaims, InitFulfil, <1>1, <1>2, <1>3, StepDelivers, PTL
     DEF Spec, Delivery!Safety
-----------------------------------------------------------------------------
(* The board.                                                              *)

HIDE ConstantsAssumption DEF FaultKinds

AtWork(a) == pc[a] \notin {"new", "ended"}

(* One assignment at a time has the rows of the technicians; a close has   *)
(* its task, which is open, to itself.                                     *)
BoardLocksOK ==
  /\ \A a, b \in Lockers : a = b
  /\ \A a \in Assigns : AtWork(a) => of[a] \in Tasks
  /\ \A a \in Assigns : pc[a] = "telling" => pick[a] \in Techs
  /\ \A c \in Closes : pc[c] = "closing" => of[c] \in Tasks /\ status[of[c]] \in {"NEW", "ASSIGNED"}
  /\ \A t \in Tasks : \A c, d \in ClosersOf(t) : c = d

(* The inductive invariant of the board.                                   *)
BoardInv == BoardTypeOK /\ BoardLocksOK /\ LoadIsNotUnderstated /\ ClosedIsToldOnce

LEMMA BoardStarts == BoardInit => BoardInv
<1> SUFFICES ASSUME BoardInit
             PROVE  BoardInv
  OBVIOUS
<1>1. Cardinality(Tasks) \in Nat
  BY TaskBoardAssumption, FS_CardinalityType
<1>2. BoardTypeOK
  BY <1>1 DEF BoardInit, BoardTypeOK, NoLoad, Requests
<1>3. BoardLocksOK
  BY DEF BoardInit, BoardLocksOK, AtWork, Lockers, ClosersOf, Requests
<1>4. LoadIsNotUnderstated /\ ClosedIsToldOnce
  BY DEF BoardInit, LoadIsNotUnderstated, ClosedIsToldOnce, Requests
<1> QED
  BY <1>2, <1>3, <1>4 DEF BoardInv

(* The load of a technician is the number of some of the tasks.            *)
LoadsInRange ==
  /\ Cardinality(Tasks) \in Nat
  /\ \A u \in Techs : LoadOf(u) \in 0..Cardinality(Tasks)

LEMMA LoadsAreCounts == LoadsInRange
<1>1. ASSUME NEW u \in Techs
      PROVE  LoadOf(u) \in 0..Cardinality(Tasks)
  <2> DEFINE L == {t \in Tasks : status[t] = "ASSIGNED" /\ assignee[t] = u}
  <2>1. IsFiniteSet(L) /\ Cardinality(L) <= Cardinality(Tasks)
    BY TaskBoardAssumption, FS_Subset
  <2>2. Cardinality(L) \in Nat /\ Cardinality(Tasks) \in Nat
    BY <2>1, TaskBoardAssumption, FS_CardinalityType
  <2>3. Cardinality(L) \in 0..Cardinality(Tasks)
    BY <2>1, <2>2
  <2> QED
    BY <2>3 DEF LoadOf
<1> QED
  BY <1>1, TaskBoardAssumption, FS_CardinalityType DEF LoadsInRange

(* Unless a task is assigned, no load grows.                               *)
LEMMA LoadsShrink ==
  ASSUME \A t \in Tasks : status'[t] = "ASSIGNED" => status[t] = "ASSIGNED" /\ assignee'[t] = assignee[t],
         NEW u \in Techs
  PROVE  LoadOf(u)' <= LoadOf(u)
<1> DEFINE L == {t \in Tasks : status[t] = "ASSIGNED" /\ assignee[t] = u}
           M == {t \in Tasks : status'[t] = "ASSIGNED" /\ assignee'[t] = u}
<1>1. M \subseteq L
  OBVIOUS
<1>2. IsFiniteSet(L)
  BY TaskBoardAssumption, FS_Subset
<1>3. Cardinality(M) <= Cardinality(L)
  BY <1>1, <1>2, FS_Subset
<1> QED
  BY <1>3 DEF LoadOf

(* What an assignment has counted stays right if no load grows.            *)
LEMMA CountsStay ==
  ASSUME BoardTypeOK, LoadIsNotUnderstated,
         \A t \in Tasks : status'[t] = "ASSIGNED" => status[t] = "ASSIGNED" /\ assignee'[t] = assignee[t],
         \A a \in Assigns : pc'[a] = "counted" => pc[a] = "counted" /\ load'[a] = load[a]
  PROVE  LoadIsNotUnderstated'
<1> SUFFICES ASSUME NEW a \in Assigns, pc'[a] = "counted", NEW u \in Techs
             PROVE  LoadOf(u)' <= load'[a][u]
  BY DEF LoadIsNotUnderstated
<1>1. LoadOf(u) <= load[a][u]
  BY DEF LoadIsNotUnderstated
<1>2. LoadOf(u)' <= LoadOf(u)
  BY LoadsShrink
<1>0. LoadsInRange /\ LoadsInRange'
  BY LoadsAreCounts, PTL
<1>3. LoadOf(u) \in Nat /\ LoadOf(u)' \in Nat
  BY <1>0 DEF LoadsInRange
<1>4. load[a][u] \in Nat
  BY <1>0 DEF BoardTypeOK, LoadsInRange
<1>5. LoadOf(u)' <= load[a][u]
  BY <1>1, <1>2, <1>3, <1>4
<1> QED
  BY <1>5

(* Each action keeps the invariant.                                        *)
LEMMA CreateKeeps ==
  ASSUME BoardInv, NEW t \in Tasks, Create(t)
  PROVE  BoardInv'
<1> USE DEF BoardInv
<1>1. BoardTypeOK'
  BY DEF BoardTypeOK, Create
<1>2. BoardLocksOK'
  BY DEF BoardTypeOK, BoardLocksOK, Create, AtWork, Lockers, ClosersOf, Requests
<1>3. LoadIsNotUnderstated'
  BY CountsStay DEF BoardTypeOK, Create
<1>4. ClosedIsToldOnce'
  BY DEF BoardTypeOK, ClosedIsToldOnce, Create
<1> QED
  BY <1>1, <1>2, <1>3, <1>4

(* An assignment moves on: what it must not do about the rows.             *)
LEMMA LocksStay ==
  ASSUME BoardTypeOK, BoardLocksOK,
         NEW a \in Assigns, NEW l, NEW x,
         pc' = [pc EXCEPT ![a] = l], of' = [of EXCEPT ![a] = x],
         l \in {"locked", "counted"} => Lockers \subseteq {a},
         l \notin {"new", "ended"} => x \in Tasks,
         l = "telling" => pick'[a] \in Techs,
         \A b \in Assigns \ {a} : pick'[b] = pick[b],
         \A t \in Tasks : status[t] \in {"NEW", "ASSIGNED"} => status'[t] \in {"NEW", "ASSIGNED"}
  PROVE  BoardLocksOK'
<1>1. /\ pc'[a] = l /\ of'[a] = x
      /\ \A r \in Requests \ {a} : pc'[r] = pc[r] /\ of'[r] = of[r]
  BY DEF BoardTypeOK, Requests
<1>2. \A c \in Closes : c # a /\ c \in Requests
  BY TaskBoardAssumption DEF Requests
<1>3. \A t : ClosersOf(t)' = ClosersOf(t)
  BY <1>1, <1>2 DEF ClosersOf
<1>4. \A b, d \in Lockers' : b = d
  BY <1>1 DEF BoardLocksOK, Lockers, Requests
<1>5. \A b \in Assigns : /\ AtWork(b)' => of'[b] \in Tasks
                         /\ pc'[b] = "telling" => pick'[b] \in Techs
  BY <1>1 DEF BoardLocksOK, AtWork, Requests
<1>6. \A c \in Closes : pc'[c] = "closing" => of'[c] \in Tasks /\ status'[of'[c]] \in {"NEW", "ASSIGNED"}
  BY <1>1, <1>2 DEF BoardLocksOK
<1> QED
  BY <1>3, <1>4, <1>5, <1>6 DEF BoardLocksOK

LEMMA ReadsKeeps ==
  ASSUME BoardInv, NEW a \in Assigns, AssignReads(a)
  PROVE  BoardInv'
<1> USE DEF BoardInv
<1>1. BoardTypeOK'
  BY DEF BoardTypeOK, AssignReads, Moves, End, Requests
<1>2. BoardLocksOK'
  <2>1. CASE pc' = [pc EXCEPT ![a] = "ended"]
    BY <2>1, LocksStay DEF AssignReads, Moves, End
  <2>2. CASE pc' = [pc EXCEPT ![a] = "read"]
    BY <2>2, LocksStay DEF AssignReads, Moves, End
  <2> QED
    BY <2>1, <2>2 DEF AssignReads, Moves, End
<1>3. LoadIsNotUnderstated'
  BY CountsStay DEF BoardTypeOK, AssignReads, Moves, End, Requests
<1>4. ClosedIsToldOnce'
  BY DEF BoardTypeOK, ClosedIsToldOnce, AssignReads
<1> QED
  BY <1>1, <1>2, <1>3, <1>4

LEMMA LocksKeeps ==
  ASSUME BoardInv, NEW a \in Assigns, AssignLocks(a)
  PROVE  BoardInv'
<1> USE DEF BoardInv
<1>1. BoardTypeOK'
  BY DEF BoardTypeOK, AssignLocks, Moves, End, Requests
<1>2. BoardLocksOK'
  <2>1. of' = [of EXCEPT ![a] = of[a]] \/ of' = [of EXCEPT ![a] = NoTask]
    BY DEF BoardTypeOK, AssignLocks, End, Requests
  <2>2. CASE pc' = [pc EXCEPT ![a] = "ended"]
    BY <2>1, <2>2, LocksStay DEF AssignLocks
  <2>3. CASE pc' = [pc EXCEPT ![a] = "locked"] /\ of' = of
    <3>1. of' = [of EXCEPT ![a] = of[a]] /\ of[a] \in Tasks
      BY <2>3 DEF BoardTypeOK, BoardLocksOK, AtWork, AssignLocks, Requests
    <3> QED
      BY <2>3, <3>1, LocksStay DEF AssignLocks
  <2> QED
    BY <2>2, <2>3 DEF AssignLocks, Moves, End
<1>3. LoadIsNotUnderstated'
  BY CountsStay DEF BoardTypeOK, AssignLocks, Moves, End, Requests
<1>4. ClosedIsToldOnce'
  BY DEF BoardTypeOK, ClosedIsToldOnce, AssignLocks
<1> QED
  BY <1>1, <1>2, <1>3, <1>4

(* What is counted under the locks is the load, and nobody else has        *)
(* counted.                                                                *)
LEMMA CountsKeeps ==
  ASSUME BoardInv, NEW a \in Assigns, AssignCounts(a)
  PROVE  BoardInv'
<1> USE DEF BoardInv
<1> DEFINE counted == [u \in Techs |-> LoadOf(u)]
<1>1. counted \in [Techs -> 0..Cardinality(Tasks)]
  BY LoadsAreCounts DEF LoadsInRange
<1>2. /\ load' = [load EXCEPT ![a] = counted]
      /\ pc' = [pc EXCEPT ![a] = "counted"] /\ pc[a] = "locked"
      /\ UNCHANGED <<status, assignee, closings, told, of, by, pick, hit>>
  BY DEF AssignCounts, Moves
<1>3. BoardTypeOK'
  <2> HIDE DEF counted
  <2> QED
    BY <1>1, <1>2 DEF BoardTypeOK, Requests
<1>4. BoardLocksOK'
  BY <1>2, TaskBoardAssumption
  DEF BoardTypeOK, BoardLocksOK, AtWork, Lockers, ClosersOf, Requests
<1>5. LoadIsNotUnderstated'
  <2> SUFFICES ASSUME NEW b \in Assigns, pc'[b] = "counted", NEW u \in Techs
               PROVE  LoadOf(u)' <= load'[b][u]
    BY DEF LoadIsNotUnderstated
  <2>1. b = a
    BY <1>2 DEF BoardTypeOK, BoardLocksOK, Lockers, Requests
  <2>2. load'[a][u] = LoadOf(u)
    BY <1>2 DEF BoardTypeOK
  <2>3. LoadOf(u)' = LoadOf(u) /\ LoadOf(u) \in Nat
    BY <1>2, LoadsAreCounts DEF LoadOf, LoadsInRange
  <2> QED
    BY <2>1, <2>2, <2>3
<1>6. ClosedIsToldOnce'
  BY <1>2 DEF ClosedIsToldOnce
<1> QED
  BY <1>3, <1>4, <1>5, <1>6

LEMMA NoLoadIsALoad == NoLoad \in [Techs -> 0..Cardinality(Tasks)]
  BY LoadsAreCounts DEF NoLoad, LoadsInRange

(* The one action that adds to a load: the writer is the only assignment   *)
(* that has counted, and it forgets its count.                             *)
LEMMA WritesKeeps ==
  ASSUME BoardInv, NEW a \in Assigns, AssignWrites(a)
  PROVE  BoardInv'
<1> USE DEF BoardInv
<1>1. of[a] \in Tasks /\ pc[a] = "counted"
  BY DEF BoardLocksOK, AssignWrites, AtWork
<1>2. BoardTypeOK'
  <2> HIDE DEF NoLoad
  <2>1. CASE Assignable(of[a])
    <3>1. PICK u \in Skilled[of[a]] :
            /\ assignee' = [assignee EXCEPT ![of[a]] = u]
            /\ pick' = [pick EXCEPT ![a] = u]
      BY <2>1 DEF AssignWrites
    <3>2. u \in Techs
      BY <1>1, <3>1, TaskBoardAssumption
    <3> QED
      BY <1>1, <2>1, <3>1, <3>2, NoLoadIsALoad DEF BoardTypeOK, AssignWrites, Moves, Requests
  <2>2. CASE ~Assignable(of[a])
    BY <2>2, NoLoadIsALoad DEF BoardTypeOK, AssignWrites, Moves, End, Requests
  <2> QED
    BY <2>1, <2>2
<1>3. BoardLocksOK'
  <2>1. CASE Assignable(of[a])
    <3>1. PICK u \in Skilled[of[a]] : pick' = [pick EXCEPT ![a] = u]
      BY <2>1 DEF AssignWrites
    <3>2. u \in Techs
      BY <1>1, <3>1, TaskBoardAssumption
    <3>3. /\ status' = [status EXCEPT ![of[a]] = "ASSIGNED"] /\ of' = of
          /\ pc' = [pc EXCEPT ![a] = "telling"]
      BY <2>1 DEF AssignWrites, Moves
    <3> QED
      BY <1>1, <3>1, <3>2, <3>3, TaskBoardAssumption
      DEF BoardTypeOK, BoardLocksOK, AtWork, Lockers, ClosersOf, Requests
  <2>2. CASE ~Assignable(of[a])
    <3>1. /\ status' = status /\ pick' = pick /\ of' = [of EXCEPT ![a] = NoTask]
          /\ pc' = [pc EXCEPT ![a] = "ended"]
      BY <2>2 DEF AssignWrites, Moves, End
    <3> QED
      BY <1>1, <3>1, TaskBoardAssumption
      DEF BoardTypeOK, BoardLocksOK, AtWork, Lockers, ClosersOf, Requests
  <2> QED
    BY <2>1, <2>2
<1>4. LoadIsNotUnderstated'
  <2>1. \A b \in Assigns : pc'[b] # "counted"
    BY <1>1 DEF BoardTypeOK, BoardLocksOK, AssignWrites, Moves, End, Lockers, Requests
  <2> QED
    BY <2>1 DEF LoadIsNotUnderstated
<1>5. ClosedIsToldOnce'
  BY <1>1 DEF BoardTypeOK, ClosedIsToldOnce, AssignWrites, Assignable
<1> QED
  BY <1>2, <1>3, <1>4, <1>5

LEMMA TellsKeeps ==
  ASSUME BoardInv, NEW a \in Assigns, AssignTells(a)
  PROVE  BoardInv'
<1> USE DEF BoardInv
<1>1. of[a] \in Tasks /\ pick[a] \in Techs /\ pc[a] = "telling"
  BY DEF BoardLocksOK, AssignTells, AtWork
<1>2. BoardTypeOK'
  BY <1>1 DEF BoardTypeOK, AssignTells, Moves, End, Requests
<1>3. BoardLocksOK'
  BY <1>1, TaskBoardAssumption
  DEF BoardTypeOK, BoardLocksOK, AssignTells, Moves, End, AtWork, Lockers, ClosersOf, Requests
<1>4. LoadIsNotUnderstated'
  BY CountsStay DEF BoardTypeOK, AssignTells, Moves, End, Requests
<1>5. ClosedIsToldOnce'
  BY DEF BoardTypeOK, ClosedIsToldOnce, AssignTells
<1> QED
  BY <1>2, <1>3, <1>4, <1>5

LEMMA AssignFailsKeeps ==
  ASSUME BoardInv, NEW a \in Assigns, AtWork(a), AssignFails(a)
  PROVE  BoardInv'
<1> USE DEF BoardInv
<1>1. of[a] \in Tasks
  BY DEF BoardLocksOK
<1>2. BoardTypeOK'
  BY <1>1, NoLoadIsALoad DEF BoardTypeOK, AssignFails, Moves, End, Requests
<1>3. BoardLocksOK'
  BY <1>1, TaskBoardAssumption
  DEF BoardTypeOK, BoardLocksOK, AssignFails, Moves, End, AtWork, Lockers, ClosersOf, Requests
<1>4. LoadIsNotUnderstated'
  BY CountsStay DEF BoardTypeOK, AssignFails, Moves, End, Requests
<1>5. ClosedIsToldOnce'
  BY DEF BoardTypeOK, ClosedIsToldOnce, AssignFails
<1> QED
  BY <1>2, <1>3, <1>4, <1>5

LEMMA UpdatesKeeps ==
  ASSUME BoardInv, NEW c \in Closes, CloseUpdates(c)
  PROVE  BoardInv'
<1> USE DEF BoardInv
<1>1. PICK t \in Tasks, who \in Techs \cup {Office} :
        /\ pc[c] = "new" /\ ClosersOf(t) = {}
        /\ \/ /\ Closable(t, who)
              /\ of' = [of EXCEPT ![c] = t]
              /\ by' = [by EXCEPT ![c] = who]
              /\ pc' = [pc EXCEPT ![c] = "closing"]
           \/ /\ of' = [of EXCEPT ![c] = NoTask]
              /\ pc' = [pc EXCEPT ![c] = "ended"] /\ by' = by
        /\ UNCHANGED <<status, assignee, closings, told, load, pick, hit>>
  BY DEF CloseUpdates, Moves, End
<1>2. BoardTypeOK'
  <2>1. /\ of' \in [Requests -> Tasks \cup {NoTask}]
        /\ pc' \in [Requests -> {"new", "read", "locked", "counted", "telling", "closing", "ended"}]
    BY <1>1 DEF BoardTypeOK, Requests
  <2>2. by' \in [Closes -> Techs \cup {Office}]
    BY <1>1 DEF BoardTypeOK
  <2> QED
    BY <1>1, <2>1, <2>2 DEF BoardTypeOK
<1>3. BoardLocksOK'
  <2>1. /\ pc'[c] \in {"closing", "ended"}
        /\ pc'[c] = "closing" => of'[c] = t /\ status[t] \in {"NEW", "ASSIGNED"}
        /\ \A r \in Requests \ {c} : pc'[r] = pc[r] /\ of'[r] = of[r]
    BY <1>1 DEF BoardTypeOK, Requests, Closable
  <2>2. \A a \in Assigns : a # c /\ a \in Requests
    BY TaskBoardAssumption DEF Requests
  <2>3. Lockers' = Lockers
    BY <2>1, <2>2 DEF Lockers
  <2>4. \A s \in Tasks : \A d, e \in ClosersOf(s)' : d = e
    BY <1>1, <2>1 DEF BoardLocksOK, ClosersOf, Requests
  <2>5. \A a \in Assigns : /\ AtWork(a)' => of'[a] \in Tasks
                           /\ pc'[a] = "telling" => pick'[a] \in Techs
    BY <1>1, <2>1, <2>2 DEF BoardLocksOK, AtWork
  <2>6. \A d \in Closes : pc'[d] = "closing" => of'[d] \in Tasks /\ status'[of'[d]] \in {"NEW", "ASSIGNED"}
    BY <1>1, <2>1 DEF BoardLocksOK, Requests
  <2> QED
    BY <2>3, <2>4, <2>5, <2>6 DEF BoardLocksOK
<1>4. LoadIsNotUnderstated'
  BY <1>1, CountsStay, TaskBoardAssumption DEF BoardTypeOK, Requests
<1>5. ClosedIsToldOnce'
  BY <1>1 DEF ClosedIsToldOnce
<1> QED
  BY <1>2, <1>3, <1>4, <1>5

(* The close that commits has its task to itself, and the task is open, so *)
(* that this task.closed row is the first.                                 *)
LEMMA CommitsKeeps ==
  ASSUME BoardInv, NEW c \in Closes, CloseCommits(c)
  PROVE  BoardInv'
<1> USE DEF BoardInv
<1>1. /\ of[c] \in Tasks /\ status[of[c]] \in {"NEW", "ASSIGNED"} /\ pc[c] = "closing"
      /\ c \in ClosersOf(of[c])
  BY DEF BoardLocksOK, CloseCommits, ClosersOf
<1>2. closings[of[c]] = 0
  BY <1>1 DEF ClosedIsToldOnce
<1>3. BoardTypeOK'
  BY <1>1, <1>2 DEF BoardTypeOK, CloseCommits, Moves, End, Requests
<1>4. BoardLocksOK'
  <2>1. /\ status' = [status EXCEPT ![of[c]] = "CLOSED"] /\ of' = [of EXCEPT ![c] = NoTask]
        /\ pc' = [pc EXCEPT ![c] = "ended"] /\ pick' = pick
    BY DEF CloseCommits, Moves, End
  <2>2. \A d \in Closes \ {c} : pc[d] = "closing" => of[d] # of[c]
    BY <1>1 DEF BoardLocksOK, ClosersOf
  <2> QED
    BY <1>1, <2>1, <2>2, TaskBoardAssumption
    DEF BoardTypeOK, BoardLocksOK, AtWork, Lockers, ClosersOf, Requests
<1>5. LoadIsNotUnderstated'
  <2>1. \A t \in Tasks : status'[t] = "ASSIGNED" => status[t] = "ASSIGNED" /\ assignee'[t] = assignee[t]
    BY <1>1 DEF BoardTypeOK, CloseCommits
  <2>2. \A a \in Assigns : pc'[a] = "counted" => pc[a] = "counted" /\ load'[a] = load[a]
    BY DEF BoardTypeOK, CloseCommits, Moves, End, Requests
  <2> QED
    BY <2>1, <2>2, CountsStay
<1>6. ClosedIsToldOnce'
  BY <1>1, <1>2 DEF BoardTypeOK, ClosedIsToldOnce, CloseCommits
<1> QED
  BY <1>3, <1>4, <1>5, <1>6

LEMMA CloseFailsKeeps ==
  ASSUME BoardInv, NEW c \in Closes, CloseFails(c)
  PROVE  BoardInv'
<1> USE DEF BoardInv
<1>1. BoardTypeOK'
  BY DEF BoardTypeOK, CloseFails, Moves, End, Requests
<1>2. BoardLocksOK'
  BY TaskBoardAssumption
  DEF BoardTypeOK, BoardLocksOK, CloseFails, Moves, End, AtWork, Lockers, ClosersOf, Requests
<1>3. LoadIsNotUnderstated'
  BY CountsStay, TaskBoardAssumption DEF BoardTypeOK, CloseFails, Moves, End, Requests
<1>4. ClosedIsToldOnce'
  BY DEF BoardTypeOK, ClosedIsToldOnce, CloseFails
<1> QED
  BY <1>1, <1>2, <1>3, <1>4

(* The steps of the board, in the cases that the proofs distinguish.       *)
LEMMA BoardSteps ==
  ASSUME BoardInv, BoardNext
  PROVE  \/ \E t \in Tasks : Create(t)
         \/ \E a \in Assigns :
              \/ AssignReads(a) \/ AssignLocks(a) \/ AssignCounts(a) \/ AssignWrites(a)
              \/ AssignTells(a)
              \/ AtWork(a) /\ AssignFails(a)
         \/ \E c \in Closes : CloseUpdates(c) \/ CloseCommits(c) \/ CloseFails(c)
<1>1. CASE \E r \in Requests : Abort(r)
  BY <1>1 DEF Abort, AtWork
<1>2. CASE BreakDeadlock
  BY <1>2 DEF BreakDeadlock, AtWork
<1> QED
  BY <1>1, <1>2 DEF BoardNext, AssignStep, CloseStep

LEMMA BoardStep == BoardInv /\ [BoardNext]_boardVars => BoardInv'
<1> SUFFICES ASSUME BoardInv, [BoardNext]_boardVars
             PROVE  BoardInv'
  OBVIOUS
<1>1. CASE BoardNext
  BY <1>1, BoardSteps, CreateKeeps, ReadsKeeps, LocksKeeps, CountsKeeps, WritesKeeps, TellsKeeps,
     AssignFailsKeeps, UpdatesKeeps, CommitsKeeps, CloseFailsKeeps
<1>2. CASE UNCHANGED boardVars
  BY <1>2 DEF BoardInv, BoardTypeOK, BoardLocksOK, LoadIsNotUnderstated, ClosedIsToldOnce,
     boardVars, AtWork, Lockers, ClosersOf, LoadOf
<1> QED
  BY <1>1, <1>2

(* On the board of a tenant no assignment takes a technician for less      *)
(* loaded than he is at any moment until it writes, and every task has     *)
(* written task.closed once if it is closed, never if it is open.          *)
THEOREM BoardSound == BoardSpec => []BoardIsSound
<1>1. BoardInv => BoardIsSound
  BY DEF BoardInv, BoardIsSound
<1> QED
  BY <1>1, BoardStarts, BoardStep, PTL DEF BoardSpec

(* No step takes a closed task from its status or its technician.          *)
LEMMA ClosedStays ==
  ASSUME BoardInv, BoardNext, NEW t \in Tasks, status[t] = "CLOSED"
  PROVE  status'[t] = "CLOSED" /\ assignee'[t] = assignee[t]
<1>1. CASE \E s \in Tasks : Create(s)
  BY <1>1 DEF BoardInv, BoardTypeOK, Create
<1>2. CASE \E a \in Assigns : AssignWrites(a)
  BY <1>2 DEF BoardInv, BoardTypeOK, AssignWrites, Assignable
<1>3. CASE \E c \in Closes : CloseCommits(c)
  BY <1>3 DEF BoardInv, BoardTypeOK, CloseCommits
<1>4. CASE UNCHANGED <<status, assignee>>
  BY <1>4
<1> QED
  BY <1>1, <1>2, <1>3, <1>4, BoardSteps
  DEF AssignReads, AssignLocks, AssignCounts, AssignTells, AssignFails, CloseUpdates, CloseFails

(* A closed task is never opened again or given to somebody else, also by  *)
(* an assignment that found it open.                                       *)
THEOREM ClosedFrozen == BoardSpec => ClosedIsFrozen
<1> DEFINE Frozen == \A t \in Tasks : status[t] = "CLOSED" =>
                       status'[t] = "CLOSED" /\ assignee'[t] = assignee[t]
<1>1. BoardInv /\ [BoardNext]_boardVars => [Frozen]_boardVars
  BY ClosedStays
<1> QED
  BY <1>1, BoardStarts, BoardStep, PTL DEF BoardSpec, ClosedIsFrozen
=============================================================================
