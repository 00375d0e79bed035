------------------------------- MODULE Outbox -------------------------------
(***************************************************************************)
(* The transactional outbox: a business transaction commits a row in       *)
(* outbox_events, a publisher in every application instance claims rows and *)
(* pushes them to the BullMQ queue "domain-events", and worker slots of the *)
(* same instances run the handlers, settle the row and complete the job.   *)
(*                                                                         *)
(* Sources: queue/outbox.publisher.ts, queue/domain-events.processor.ts,   *)
(* queue/queue.constants.ts, alerting/alert.service.ts and the functions   *)
(* claim_outbox_batch and settle_outbox_event of migration 0004.  BullMQ   *)
(* itself (job states, retries, the stalled check) is external and is      *)
(* modelled from the options the code gives it.                            *)
(***************************************************************************)
EXTENDS Naturals, FiniteSets

CONSTANTS
  Events,        \* outbox row ids, numbered in createdAt order
  Instances,     \* application processes: one publisher each
  Slots,         \* worker slots of a process (concurrency: 5)
  Handlers,      \* handler names
  HandlersFor,   \* HandlersFor[e]: the handlers handlersFor returns for e
  Swallowers,    \* handlers that catch their own errors and return normally
  Malformed,     \* events whose payload the zod schema rejects
  MaxAttempts,   \* RETRY_POLICY.attempts
  Batch,         \* OutboxPublisher.BATCH
  MaxStalled,    \* BullMQ maxStalledCount
  Faults,        \* the kinds of fault this instance of the model allows
  MaxFaults,     \* bound: faults in one behaviour
  NoEvent, NoWorker

FaultKinds == {"crash", "redis", "ack", "db", "stall"}

ASSUME ConstantsAssumption ==
  /\ Events \subseteq Nat
  /\ HandlersFor \in [Events -> SUBSET Handlers]
  /\ Swallowers \subseteq Handlers
  /\ Malformed \subseteq Events
  /\ MaxAttempts \in Nat \ {0}
  /\ Batch \in Nat \ {0}
  /\ MaxStalled \in Nat
  /\ Faults \subseteq FaultKinds
  /\ MaxFaults \in Nat
  /\ NoEvent \notin Events
  /\ NoWorker \notin Instances \X Slots

Workers == Instances \X Slots

VARIABLES
  row,        \* row[e]: the outbox_events row
  job,        \* job[e]: the BullMQ job with jobId outbox-e
  up,         \* instances whose process is running
  batch,      \* batch[i]: rows claimed by i and not yet pushed
  failed,     \* failed[i]: the row whose queue.add has just thrown
  wpc,        \* wpc[w]: where worker slot w is in process()
  wev,        \* wev[w]: the event it handles
  wmade,      \* wmade[w]: job.attemptsMade as w read it
  wtodo,      \* wtodo[w]: handlers of this attempt that have not settled
  wbad,       \* wbad[w]: some handler of this attempt rejected
  muted,      \* instances inside the alert de-duplication window
  fulfilled,  \* history: handlers of e that once reported success
  alerted,    \* history: events whose DEAD alert went out
  faults      \* faults so far, at most MaxFaults, and whether only pushes failed

pubVars  == <<batch, failed>>
wrkVars  == <<wpc, wev, wmade, wtodo, wbad>>
vars == <<row, job, up, pubVars, wrkVars, muted, fulfilled, alerted, faults>>

RowStatus == {"ABSENT", "PENDING", "PROCESSING", "DONE", "DEAD"}
JobState  == {"none", "waiting", "active", "delayed", "completed", "failed"}
WorkerPc  == {"idle", "handling", "marking", "recording", "alerting",
              "failing", "completing"}

TypeOK ==
  /\ row \in [Events -> [status : RowStatus, attempts : 0..MaxAttempts,
                         deferred : BOOLEAN]]
  /\ job \in [Events -> [state : JobState, made : 0..MaxAttempts,
                         stalled : 0..MaxStalled,
                         holder : Workers \cup {NoWorker}]]
  /\ up \subseteq Instances
  /\ batch \in [Instances -> SUBSET Events]
  /\ failed \in [Instances -> Events \cup {NoEvent}]
  /\ wpc \in [Workers -> WorkerPc]
  /\ wev \in [Workers -> Events \cup {NoEvent}]
  /\ wmade \in [Workers -> 0..MaxAttempts]
  /\ wtodo \in [Workers -> SUBSET Handlers]
  /\ wbad \in [Workers -> BOOLEAN]
  /\ muted \subseteq Instances
  /\ fulfilled \in [Events -> SUBSET Handlers]
  /\ alerted \subseteq Events
  /\ faults \in [count : 0..MaxFaults, pushOnly : BOOLEAN]

NewRow == [status |-> "ABSENT", attempts |-> 0, deferred |-> FALSE]
NoJob  == [state |-> "none", made |-> 0, stalled |-> 0, holder |-> NoWorker]

Init ==
  /\ row = [e \in Events |-> NewRow]
  /\ job = [e \in Events |-> NoJob]
  /\ up = Instances
  /\ batch = [i \in Instances |-> {}]
  /\ failed = [i \in Instances |-> NoEvent]
  /\ wpc = [w \in Workers |-> "idle"]
  /\ wev = [w \in Workers |-> NoEvent]
  /\ wmade = [w \in Workers |-> 0]
  /\ wtodo = [w \in Workers |-> {}]
  /\ wbad = [w \in Workers |-> FALSE]
  /\ muted = {}
  /\ fulfilled = [e \in Events |-> {}]
  /\ alerted = {}
  /\ faults = [count |-> 0, pushOnly |-> TRUE]

(* A fault of kind k happens now. *)
Fault(k) ==
  /\ k \in Faults /\ faults.count < MaxFaults
  /\ faults' = [count |-> faults.count + 1, pushOnly |-> faults.pushOnly /\ k = "redis"]

-----------------------------------------------------------------------------
(* The row functions of migration 0004. *)

(* mutant: rows in PROCESSING are picked up again *)
MEligible == {e \in Events : row[e].status \in {"PENDING", "PROCESSING"} /\ ~row[e].deferred}

Eligible == {e \in Events : row[e].status = "PENDING" /\ ~row[e].deferred}

(* ORDER BY "createdAt" LIMIT n *)
Oldest(S) == {e \in S : Cardinality({f \in S : f < e}) < Batch}

(* The rows of S become PROCESSING in one statement. *)
Claimed(S) ==
  [e \in Events |->
     IF e \in S THEN [status |-> "PROCESSING", attempts |-> row[e].attempts,
                      deferred |-> row[e].deferred]
                ELSE row[e]]

(* settle_outbox_event: an unconditional UPDATE of status, attempts and    *)
(* (when an interval is given) nextAttemptAt.                              *)
WriteRow(e, status, attempts, deferred) ==
  row' = [row EXCEPT ![e] = [status |-> status, attempts |-> attempts,
                             deferred |-> deferred]]

Settle(e, status, attempts, later) ==
  WriteRow(e, status, attempts, later \/ row[e].deferred)

(* The business transaction that writes the event commits. *)
Commit(e) ==
  /\ row[e].status = "ABSENT"
  /\ WriteRow(e, "PENDING", 0, FALSE)
  /\ UNCHANGED <<job, up, pubVars, wrkVars, muted, fulfilled, alerted, faults>>

(* The ten seconds after a failed push are over. *)
RetryRow(e) ==
  /\ row[e].deferred
  /\ WriteRow(e, row[e].status, row[e].attempts, FALSE)
  /\ UNCHANGED <<job, up, pubVars, wrkVars, muted, fulfilled, alerted, faults>>

-----------------------------------------------------------------------------
(* The publisher of instance i: tick and publishBatch. *)

Publishing(i) == batch[i] # {} \/ failed[i] # NoEvent

(* claim_outbox_batch is one statement; rows that another claim has locked *)
(* are skipped, so concurrent claims behave as one after the other.        *)
Claim(i) ==
  /\ i \in up /\ ~Publishing(i) /\ Eligible # {}
  /\ row' = Claimed(Oldest(Eligible))
  /\ batch' = [batch EXCEPT ![i] = Oldest(Eligible)]
  /\ UNCHANGED <<job, up, failed, wrkVars, muted, fulfilled, alerted, faults>>

MoveJob(e, state, made, stalled, holder) ==
  job' = [job EXCEPT ![e] = [state |-> state, made |-> made,
                             stalled |-> stalled, holder |-> holder]]

(* mutant: an existing job is replaced *)
MAdd(e) == MoveJob(e, "waiting", 0, 0, NoWorker)

(* queue.add under the fixed jobId: a job that still exists is kept as is. *)
Add(e) ==
  IF job[e].state = "none" THEN MoveJob(e, "waiting", 0, 0, NoWorker)
                           ELSE UNCHANGED job

Push(i, e) ==
  /\ i \in up /\ e \in batch[i] /\ failed[i] = NoEvent
  /\ Add(e)
  /\ batch' = [batch EXCEPT ![i] = @ \ {e}]
  /\ UNCHANGED <<row, up, failed, wrkVars, muted, fulfilled, alerted, faults>>

(* queue.add throws: the job was not stored ("redis"), or it was and only  *)
(* the acknowledgement was lost ("ack").                                   *)
PushFails(i, e) ==
  /\ i \in up /\ e \in batch[i] /\ failed[i] = NoEvent
  /\ \/ Fault("redis") /\ UNCHANGED job
     \/ Fault("ack") /\ Add(e)
  /\ batch' = [batch EXCEPT ![i] = @ \ {e}]
  /\ failed' = [failed EXCEPT ![i] = e]
  /\ UNCHANGED <<row, up, wrkVars, muted, fulfilled, alerted>>

(* mutant: the catch block only logs *)
MReturnRow(i) ==
  /\ i \in up /\ failed[i] # NoEvent
  /\ failed' = [failed EXCEPT ![i] = NoEvent]
  /\ UNCHANGED <<row, job, up, batch, wrkVars, muted, fulfilled, alerted, faults>>

(* The catch block: back to PENDING, to be retried in ten seconds. *)
ReturnRow(i) ==
  /\ i \in up /\ failed[i] # NoEvent
  /\ Settle(failed[i], "PENDING", row[failed[i]].attempts, TRUE)
  /\ failed' = [failed EXCEPT ![i] = NoEvent]
  /\ UNCHANGED <<job, up, batch, wrkVars, muted, fulfilled, alerted, faults>>

(* The catch block's own statement throws: publishBatch rejects, tick logs *)
(* it, and the rest of the batch is forgotten.                             *)
ReturnRowFails(i) ==
  /\ i \in up /\ failed[i] # NoEvent
  /\ Fault("db")
  /\ failed' = [failed EXCEPT ![i] = NoEvent]
  /\ batch' = [batch EXCEPT ![i] = {}]
  /\ UNCHANGED <<row, job, up, wrkVars, muted, fulfilled, alerted>>

-----------------------------------------------------------------------------
(* A worker slot: DomainEventsProcessor.process. *)

Busy(w)   == wpc[w] # "idle"
Alive(w)  == w[1] \in up
Holds(w)  == job[wev[w]].holder = w
Last(w)   == wmade[w] + 1 >= MaxAttempts      \* attempts >= opts.attempts

Goto(w, pc) == wpc' = [wpc EXCEPT ![w] = pc]
Sleep(w) ==
  /\ wpc' = [wpc EXCEPT ![w] = "idle"]
  /\ wev' = [wev EXCEPT ![w] = NoEvent]
  /\ wmade' = [wmade EXCEPT ![w] = 0]
  /\ wtodo' = [wtodo EXCEPT ![w] = {}]
  /\ wbad' = [wbad EXCEPT ![w] = FALSE]

Take(w, e) ==
  /\ Alive(w) /\ ~Busy(w) /\ job[e].state = "waiting"
  /\ MoveJob(e, "active", job[e].made, job[e].stalled, w)
  /\ Goto(w, "handling")
  /\ wev' = [wev EXCEPT ![w] = e]
  /\ wmade' = [wmade EXCEPT ![w] = job[e].made]
  /\ wtodo' = [wtodo EXCEPT ![w] = IF e \in Malformed THEN {} ELSE HandlersFor[e]]
  /\ wbad' = [wbad EXCEPT ![w] = e \in Malformed]
  /\ UNCHANGED <<row, up, pubVars, muted, fulfilled, alerted, faults>>

(* One handler of the attempt settles.  A handler that catches its own      *)
(* errors never rejects: for the dispatcher it succeeds, whatever it did.  *)
HandlerSucceeds(w, h) ==
  /\ Alive(w) /\ wpc[w] = "handling" /\ h \in wtodo[w]
  /\ wtodo' = [wtodo EXCEPT ![w] = @ \ {h}]
  /\ fulfilled' = [fulfilled EXCEPT ![wev[w]] = @ \cup {h}]
  /\ UNCHANGED <<row, job, up, pubVars, wpc, wev, wmade, wbad, muted, alerted,
                 faults>>

HandlerRejects(w, h) ==
  /\ Alive(w) /\ wpc[w] = "handling" /\ h \in wtodo[w] \ Swallowers
  /\ wtodo' = [wtodo EXCEPT ![w] = @ \ {h}]
  /\ wbad' = [wbad EXCEPT ![w] = TRUE]
  /\ UNCHANGED <<row, job, up, pubVars, wpc, wev, wmade, muted, fulfilled,
                 alerted, faults>>

(* mutant: the results of allSettled are not looked at *)
MSettled(w) ==
  /\ Alive(w) /\ wpc[w] = "handling" /\ wtodo[w] = {}
  /\ Goto(w, "marking")
  /\ UNCHANGED <<row, job, up, pubVars, wev, wmade, wtodo, wbad, muted,
                 fulfilled, alerted, faults>>

(* Promise.allSettled returns; dispatch throws when any handler rejected. *)
Settled(w) ==
  /\ Alive(w) /\ wpc[w] = "handling" /\ wtodo[w] = {}
  /\ Goto(w, IF wbad[w] THEN "recording" ELSE "marking")
  /\ UNCHANGED <<row, job, up, pubVars, wev, wmade, wtodo, wbad, muted,
                 fulfilled, alerted, faults>>

MarkDone(w) ==
  /\ Alive(w) /\ wpc[w] = "marking"
  /\ Settle(wev[w], "DONE", row[wev[w]].attempts, FALSE)
  /\ Goto(w, "completing")
  /\ UNCHANGED <<job, up, pubVars, wev, wmade, wtodo, wbad, muted, fulfilled,
                 alerted, faults>>

(* markDone is inside the try: its failure is recorded like a handler's. *)
MarkDoneFails(w) ==
  /\ Alive(w) /\ wpc[w] = "marking"
  /\ Fault("db")
  /\ Goto(w, "recording")
  /\ UNCHANGED <<row, job, up, pubVars, wev, wmade, wtodo, wbad, muted,
                 fulfilled, alerted>>

RecordFailure(w) ==
  /\ Alive(w) /\ wpc[w] = "recording"
  /\ Settle(wev[w], IF Last(w) THEN "DEAD" ELSE "PROCESSING", wmade[w] + 1, FALSE)
  /\ Goto(w, IF Last(w) THEN "alerting" ELSE "failing")
  /\ UNCHANGED <<job, up, pubVars, wev, wmade, wtodo, wbad, muted, fulfilled,
                 alerted, faults>>

(* The statement of recordFailure throws: process rejects with its error. *)
RecordFailureFails(w) ==
  /\ Alive(w) /\ wpc[w] = "recording"
  /\ Fault("db")
  /\ Goto(w, "failing")
  /\ UNCHANGED <<row, job, up, pubVars, wev, wmade, wtodo, wbad, muted,
                 fulfilled, alerted>>

(* AlertService.send: the key outbox.dead:global is sent once in five      *)
(* minutes by one process; inside the window the call returns at once.     *)
SendAlert(w) ==
  /\ Alive(w) /\ wpc[w] = "alerting"
  /\ alerted' = IF w[1] \in muted THEN alerted ELSE alerted \cup {wev[w]}
  /\ muted' = muted \cup {w[1]}
  /\ Goto(w, "failing")
  /\ UNCHANGED <<row, job, up, pubVars, wev, wmade, wtodo, wbad, fulfilled, faults>>

AlertWindowEnds(i) ==
  /\ i \in muted
  /\ muted' = muted \ {i}
  /\ UNCHANGED <<row, job, up, pubVars, wrkVars, fulfilled, alerted, faults>>

(* process returned or threw: BullMQ moves the job, if w still holds it. *)
Complete(w) ==
  /\ Alive(w) /\ wpc[w] = "completing"
  /\ IF Holds(w)
       THEN MoveJob(wev[w], "completed", wmade[w] + 1, job[wev[w]].stalled, NoWorker)
       ELSE UNCHANGED job
  /\ Sleep(w)
  /\ UNCHANGED <<row, up, pubVars, muted, fulfilled, alerted, faults>>

(* mutant: the job has no attempts option *)
MFail(w) ==
  /\ Alive(w) /\ wpc[w] = "failing"
  /\ IF Holds(w)
       THEN MoveJob(wev[w], "failed", wmade[w] + 1, job[wev[w]].stalled, NoWorker)
       ELSE UNCHANGED job
  /\ Sleep(w)
  /\ UNCHANGED <<row, up, pubVars, muted, fulfilled, alerted, faults>>

Fail(w) ==
  /\ Alive(w) /\ wpc[w] = "failing"
  /\ IF Holds(w)
       THEN MoveJob(wev[w], IF Last(w) THEN "failed" ELSE "delayed",
                    wmade[w] + 1, job[wev[w]].stalled, NoWorker)
       ELSE UNCHANGED job
  /\ Sleep(w)
  /\ UNCHANGED <<row, up, pubVars, muted, fulfilled, alerted, faults>>

-----------------------------------------------------------------------------
(* BullMQ and the processes. *)

RetryJob(e) ==
  /\ job[e].state = "delayed"
  /\ MoveJob(e, "waiting", job[e].made, job[e].stalled, NoWorker)
  /\ UNCHANGED <<row, up, pubVars, wrkVars, muted, fulfilled, alerted, faults>>

(* removeOnComplete and removeOnFail *)
Remove(e) ==
  /\ job[e].state \in {"completed", "failed"}
  /\ job' = [job EXCEPT ![e] = NoJob]
  /\ UNCHANGED <<row, up, pubVars, wrkVars, muted, fulfilled, alerted, faults>>

(* The stalled check: the lock of an active job expired, because its       *)
(* holder is gone or because its event loop stopped renewing it.           *)
Abandoned(e) ==
  \A w \in Workers : job[e].holder = w => ~(Busy(w) /\ wev[w] = e)

StalledCheck(e) ==
  /\ job[e].state = "active"
  /\ \/ Abandoned(e) /\ UNCHANGED faults
     \/ ~Abandoned(e) /\ Fault("stall")
  /\ IF job[e].stalled >= MaxStalled
       THEN MoveJob(e, "failed", job[e].made, job[e].stalled, NoWorker)
       ELSE MoveJob(e, "waiting", job[e].made, job[e].stalled + 1, NoWorker)
  /\ UNCHANGED <<row, up, pubVars, wrkVars, muted, fulfilled, alerted>>

(* A process dies (or is stopped: onModuleDestroy only clears the timer):  *)
(* its claimed batch, its workers and its alert window are memory.         *)
Crash(i) ==
  /\ i \in up /\ Fault("crash")
  /\ up' = up \ {i}
  /\ batch' = [batch EXCEPT ![i] = {}]
  /\ failed' = [failed EXCEPT ![i] = NoEvent]
  /\ wpc' = [w \in Workers |-> IF w[1] = i THEN "idle" ELSE wpc[w]]
  /\ wev' = [w \in Workers |-> IF w[1] = i THEN NoEvent ELSE wev[w]]
  /\ wmade' = [w \in Workers |-> IF w[1] = i THEN 0 ELSE wmade[w]]
  /\ wtodo' = [w \in Workers |-> IF w[1] = i THEN {} ELSE wtodo[w]]
  /\ wbad' = [w \in Workers |-> IF w[1] = i THEN FALSE ELSE wbad[w]]
  /\ muted' = muted \ {i}
  /\ UNCHANGED <<row, job, fulfilled, alerted>>

Restart(i) ==
  /\ i \in Instances \ up
  /\ up' = up \cup {i}
  /\ UNCHANGED <<row, job, pubVars, wrkVars, muted, fulfilled, alerted, faults>>

-----------------------------------------------------------------------------
Publisher(i) ==
  \/ Claim(i) \/ ReturnRow(i) \/ ReturnRowFails(i)
  \/ \E e \in Events : Push(i, e) \/ PushFails(i, e)

Worker(w) ==
  \/ \E e \in Events : Take(w, e)
  \/ \E h \in Handlers : HandlerSucceeds(w, h) \/ HandlerRejects(w, h)
  \/ Settled(w) \/ MarkDone(w) \/ MarkDoneFails(w)
  \/ RecordFailure(w) \/ RecordFailureFails(w) \/ SendAlert(w)
  \/ Complete(w) \/ Fail(w)

Queue(e) == RetryJob(e) \/ Remove(e) \/ StalledCheck(e)

Process(i) == AlertWindowEnds(i) \/ Crash(i) \/ Restart(i)

Next ==
  \/ \E e \in Events : Commit(e) \/ RetryRow(e) \/ Queue(e)
  \/ \E i \in Instances : Publisher(i) \/ Process(i)
  \/ \E w \in Workers : Worker(w)

Spec == Init /\ [][Next]_vars

(* The poll timer always fires again, a waiting job is taken by some free  *)
(* slot, the code between two awaits always runs on, timers elapse, and a  *)
(* stopped process is restarted.  Faults, alert windows and the removal of *)
(* old jobs are not forced.                                                *)
Fairness ==
  /\ \A i \in Instances :
       /\ WF_vars(Claim(i)) /\ WF_vars(ReturnRow(i)) /\ WF_vars(Restart(i))
       /\ \A e \in Events : WF_vars(Push(i, e))
  /\ \A e \in Events :
       /\ WF_vars(RetryRow(e)) /\ WF_vars(RetryJob(e))
       /\ WF_vars(\E w \in Workers : Take(w, e))
       /\ WF_vars(Abandoned(e) /\ StalledCheck(e))
  /\ \A w \in Workers :
       WF_vars(\/ \E h \in Handlers : HandlerSucceeds(w, h) \/ HandlerRejects(w, h)
               \/ Settled(w) \/ MarkDone(w) \/ RecordFailure(w) \/ SendAlert(w)
               \/ Complete(w) \/ Fail(w))

FairSpec == Spec /\ Fairness

-----------------------------------------------------------------------------
(* Safety. *)

HeldBy(i) == batch[i] \cup ({failed[i]} \ {NoEvent})

(* Two instances never hold the same row for publishing, and no row that a *)
(* publisher holds can be claimed again (FOR UPDATE SKIP LOCKED together   *)
(* with the status test of claim_outbox_batch).                            *)
ClaimsAreExclusive ==
  \A i \in Instances :
    /\ \A e \in HeldBy(i) : row[e].status # "PENDING"
    /\ \A k \in Instances \ {i} : HeldBy(i) \cap HeldBy(k) = {}

(* A row is DONE only if its payload was valid and every handler of the    *)
(* event has reported success, whatever failed, crashed or ran twice.      *)
DoneMeansFulfilled ==
  \A e \in Events : row[e].status = "DONE" =>
    e \notin Malformed /\ HandlersFor[e] \subseteq fulfilled[e]

(* A row is DEAD only after the whole quota of attempts was recorded.      *)
DeadMeansExhausted ==
  \A e \in Events : row[e].status = "DEAD" => row[e].attempts = MaxAttempts

(* As long as no worker stalls, two slots never handle the same event at   *)
(* the same time: publishing twice is absorbed by the fixed jobId.         *)
OneWorkerPerEvent ==
  "stall" \notin Faults =>
    \A w1, w2 \in Workers :
      Busy(w1) /\ Busy(w2) /\ wev[w1] = wev[w2] => w1 = w2

(* Somebody still carries the event: a live publisher, a job that will     *)
(* run, or a worker that has not finished with it.                         *)
Carried(e) ==
  \/ \E i \in Instances : e \in HeldBy(i)
  \/ job[e].state \in {"waiting", "active", "delayed"}
  \/ \E w \in Workers : Busy(w) /\ wev[w] = e

(* A row in PROCESSING is always carried by somebody; the claim query does *)
(* not look at it again, so nobody else would pick it up.                  *)
ClaimedIsCarried ==
  \A e \in Events : row[e].status = "PROCESSING" => Carried(e)

(* A final failure of the job leaves the row DEAD (or DONE): the quota of  *)
(* RETRY_POLICY ends in DEAD, as queue.constants.ts says.                  *)
FailedJobIsSettled ==
  \A e \in Events : job[e].state = "failed" => row[e].status \in {"DONE", "DEAD"}

(* The first event that is given up never passes in silence: once its      *)
(* worker is through with it, an alert has gone out.  (Later ones may: the *)
(* alert key outbox.dead:global is the same for all events of a process.)  *)
DeadIsNoticed ==
  (\E e \in Events : row[e].status = "DEAD" /\ job[e].state = "failed") => alerted # {}

(* As long as nothing but pushes has failed, nothing is forgotten: what is *)
(* claimed is carried until it is settled, a failed job is settled, and    *)
(* the first DEAD row is noticed.                                          *)
NothingIsForgotten ==
  faults.pushOnly => ClaimedIsCarried /\ FailedJobIsSettled /\ DeadIsNoticed

(* What a state of the outbox owes to its rows and its slots.              *)
RowsAreExclusive == TypeOK /\ ClaimsAreExclusive
StatusIsEarned   == DoneMeansFulfilled /\ DeadMeansExhausted

(* A row is claimed by one publisher at most, is DONE only once a handler  *)
(* has done its work and DEAD only once its attempts are exhausted.        *)
OutboxIsSound    == RowsAreExclusive /\ StatusIsEarned

-----------------------------------------------------------------------------
(* Liveness. *)

IsSettled(e) == row[e].status \in {"DONE", "DEAD"}

(* Every committed event ends DONE or DEAD (at-least-once publishing).     *)
EveryEventSettles ==
  \A e \in Events : row[e].status = "PENDING" ~> IsSettled(e)

(* An event whose job was stored is settled in the end, whoever dies while *)
(* handling it, unless BullMQ itself gives the job up for having stalled   *)
(* more than maxStalledCount times: then the row stays in PROCESSING.      *)
EnqueuedSettles ==
  \A e \in Events :
    job[e].state = "waiting" ~>
      IsSettled(e) \/ (job[e].state = "failed" /\ job[e].stalled = MaxStalled)
=============================================================================
