------------------------------- MODULE Intake -------------------------------
(***************************************************************************)
(* modules/intake and the workers of queue/intake.processor: mails become  *)
(* tasks.  A run of syncGmail reads the unread mails since the watermark   *)
(* through the tenant's Gmail connection (Integrations) and ingests them   *)
(* one by one; a forwarded mail is ingested by its own request (a drop).   *)
(* All the mails are of one sender, whose address is valid.                *)
(***************************************************************************)
EXTENDS Integrations, Sequences

CONSTANTS
  Drops,      \* deliveries of forwarded mails, repeated ones included
  Mails,
  Overlap,    \* WATERMARK_OVERLAP_MS, in ticks
  SearchLimit, \* SEARCH_LIMIT: customers a search returns
  MaxEntered, \* bound: the most customers when another is entered
  Budget,     \* calls of the LLM the month's budget pays for
  MaxNow,     \* the last tick: a bound of the model
  Shapes,     \* how many <<runs, drops, letters, consents, mails>> take part, and
              \* sixth the most mails of one run
  Never, Absent  \* a mail that did not arrive yet, and one that never will

ASSUME IntakeAssumption ==
  /\ Overlap \in Nat /\ Budget \in Nat /\ MaxNow \in Nat
  /\ SearchLimit \in Nat \ {0} /\ MaxEntered \in Nat
  /\ IsFiniteSet(Mails) /\ IsFiniteSet(Runs \cup Drops) /\ {Never, Absent} \cap Int = {}
  /\ Runs \cap Drops = {} /\ Nobody \notin Mails

VARIABLES
  maxFetch,   \* HARD_MESSAGE_CAP, MAX_PAGES: mails of one run; never changes
  now,
  date,       \* date[m]: Gmail's date of a mail that is in the mailbox
  unread,     \* mails in the mailbox that nobody opened
  watermark,  \* lastSyncedAt
  work,       \* work[w]: what a run or a drop is doing, and to which mail
  sync,       \* sync[r]: what a run read and fetched
  tasks,      \* <<channel, mail>>: tasks by their sourceEmailId
  customers,  \* customers whose name, phone or e-mail contains the sender's
              \* address, by createdAt; history: their rivals, who were creating
  spent,      \* calls of the LLM charged this month
  failed      \* mails whose ingestion failed in some run

mailVars == <<maxFetch, now, date, unread>>
workVars == <<watermark, work, sync, tasks, customers, spent, failed>>
intakeVars == <<mailVars, workVars>>
vars == <<intakeVars, integrationVars>>

Workers == Runs \cup Drops
Times == 0 .. MaxNow
Creators == Workers \X (Mails \cup {Nobody})
Ingesting == {"checking", "resolving", "creating", "classifying", "calling", "inserting"}

TypeOK ==
  /\ IntegrationsTypeOK
  /\ maxFetch \in 0 .. Cardinality(Mails) /\ now \in Times
  /\ date \in [Mails -> Times \cup {Never, Absent}] /\ unread \subseteq Mails
  /\ watermark \in Times \cup {Never}
  /\ \A w \in Workers :
       /\ work[w].mail \in Mails \cup {Nobody}
       /\ work[w].pc \in Ingesting \cup {"idle", "connecting", "erring", "fetching", "expiring",
                                         "looping", "ended"}
  /\ sync \in [Runs -> [since : Times \cup {Never}, started : Times, todo : SUBSET Mails,
                        cut : BOOLEAN]]
  /\ tasks \subseteq {"gmail", "hook"} \X Mails
  /\ customers \in Seq([by : Creators \cup {Nobody}, exact : BOOLEAN, rivals : SUBSET Creators])
  /\ spent \in Nat /\ failed \subseteq Mails

ShapeOf(cast) == [i \in 1 .. 5 |->
  Cardinality(cast \cap <<Runs, Drops, Letters, Consents, Mails>>[i])]

(* Only the actors in some cast take part: the instance is the union of    *)
(* the small systems Shapes describes.  Without mails time stands still.   *)
(* The sender may be a customer already.                                   *)
Init ==
  \E cast \in SUBSET (Workers \cup Letters \cup Consents \cup Mails) :
    /\ maxFetch \in {n \in 0 .. Cardinality(Mails) : Append(ShapeOf(cast), n) \in Shapes}
    /\ IntegrationsInit(cast)
    /\ now = IF cast \cap Mails = {} THEN MaxNow ELSE 0
    /\ date = [m \in Mails |-> IF m \in cast THEN Never ELSE Absent] /\ unread = {} /\ watermark = Never
    /\ work = [w \in Workers |->
                 [pc |-> IF w \in cast THEN "idle" ELSE "ended", mail |-> Nobody]]
    /\ sync = [r \in Runs |-> [since |-> Never, started |-> 0, todo |-> {}, cut |-> FALSE]]
    /\ customers \in {<<>>, <<[by |-> Nobody, exact |-> TRUE, rivals |-> {}]>>}
    /\ tasks = {} /\ spent = 0 /\ failed = {}

-----------------------------------------------------------------------------
(* External: time and the mailbox.  Gmail shows a mail up to Overlap after *)
(* the date it gives it.                                                   *)

Arrived(m) == date[m] \in Times

Tick == now < MaxNow /\ now' = now + 1 /\ UNCHANGED <<maxFetch, date, unread, workVars, integrationVars>>

Arrive(m) ==
  /\ date[m] = Never
  /\ \E d \in Times : d <= now /\ now - d <= Overlap /\ date' = [date EXCEPT ![m] = d]
  /\ unread' = unread \cup {m}
  /\ UNCHANGED <<maxFetch, now, workVars, integrationVars>>

Open(m) ==
  /\ m \in unread /\ unread' = unread \ {m}
  /\ UNCHANGED <<maxFetch, now, date, workVars, integrationVars>>

-----------------------------------------------------------------------------
(* syncGmail *)

At(w, pc) == work[w].pc = pc
Goes(w, pc) == work' = [work EXCEPT ![w].pc = pc]
kept == <<mailVars, watermark, tasks, customers, spent, failed>>
others == <<googleVars, ownerVars, saving, lost, letter>>

SyncStarts(r) ==
  /\ At(r, "idle") /\ Goes(r, "connecting")
  /\ sync' = [sync EXCEPT ![r].since = watermark, ![r].started = now]
  /\ UNCHANGED <<kept, integrationVars>>

(* getConnector: connected, not connected or expired, or without the key *)
SyncConnects(r) ==
  /\ At(r, "connecting")
  /\ \/ Acquire(r) /\ Goes(r, "fetching")
     \/ ~Usable /\ Goes(r, "ended") /\ UNCHANGED held
     \/ Usable /\ Goes(r, "erring") /\ UNCHANGED held
  /\ UNCHANGED <<kept, sync, row, late, expiredBy, others>>

SyncMarks(r) ==
  /\ \/ At(r, "expiring") /\ Mark(r, "EXPIRED")
     \/ At(r, "erring") /\ Mark(r, "ERROR")
  /\ Goes(r, "ended") /\ Release(r)
  /\ UNCHANGED <<kept, sync, late, others>>

(* buildQuery, and messages.list: the newest first *)
Matching(r) ==
  {m \in unread : sync[r].since = Never \/ date[m] >= sync[r].since - Overlap}
Listed(S, all) ==
  /\ S \subseteq all
  /\ Cardinality(S) = IF Cardinality(all) < maxFetch THEN Cardinality(all) ELSE maxFetch
  /\ \A m \in S, n \in all \ S : date[m] >= date[n]

(* fetch: answered, refused (a dead grant, or a 403 for the quota), or it  *)
(* failed for another reason and the job with it                           *)
SyncFetches(r) ==
  /\ At(r, "fetching")
  /\ \/ /\ Accepted(r) /\ Goes(r, "looping")
        /\ \E S \in SUBSET Matching(r) :
             /\ Listed(S, Matching(r))
             /\ sync' = [sync EXCEPT ![r].todo = S, ![r].cut = S # Matching(r)]
        /\ UNCHANGED <<held, late>>
     \/ /\ Goes(r, "expiring")
        /\ late' = IF Accepted(r) THEN late \cup {r} ELSE late
        /\ UNCHANGED <<held, sync>>
     \/ Goes(r, "ended") /\ Release(r) /\ UNCHANGED <<late, sync>>
  /\ UNCHANGED <<kept, row, expiredBy, others>>

SyncTakes(r) ==
  /\ At(r, "looping")
  /\ \E m \in sync[r].todo :
       /\ \A n \in sync[r].todo : date[m] >= date[n]
       /\ work' = [work EXCEPT ![r] = [pc |-> "checking", mail |-> m]]
       /\ sync' = [sync EXCEPT ![r].todo = @ \ {m}]
  /\ UNCHANGED <<kept, integrationVars>>

(* mutant: the watermark moves to the end of the run *)
MMoved(r) == IF sync[r].cut THEN watermark ELSE now

Moved(r) == IF sync[r].cut THEN watermark ELSE sync[r].started

(* recordSyncSuccess *)
SyncEnds(r) ==
  /\ At(r, "looping") /\ sync[r].todo = {}
  /\ watermark' = Moved(r)
  /\ Goes(r, "ended") /\ Release(r)
  /\ UNCHANGED <<mailVars, sync, tasks, customers, spent, failed,
                 row, late, expiredBy, others>>

(* The process dies, or a write of the run itself fails. *)
SyncDies(r) ==
  /\ work[r].pc \notin {"idle", "ended"} /\ Goes(r, "ended") /\ Release(r)
  /\ UNCHANGED <<kept, sync, row, late, expiredBy, others>>

-----------------------------------------------------------------------------
(* ingest *)

Channel(w) == IF w \in Runs THEN "gmail" ELSE "hook"
Source(w) == <<Channel(w), work[w].mail>>

(* The rest of the batch follows.  GOOGLE_SCOPES do not let a run mark the *)
(* mail as read: markReadQuietly logs the refusal.                         *)
AfterIngest(w) == IF w \in Runs THEN "looping" ELSE "ended"
Ingested(w) == Goes(w, AfterIngest(w))
scene == <<mailVars, watermark, sync, integrationVars>>

(* receive: an unknown address, the verification of the forwarding or an   *)
(* automated mail ends it                                                  *)
DropArrives(d, m) ==
  /\ At(d, "idle") /\ Arrived(m)
  /\ \E pc \in {"checking", "ended"} : work' = [work EXCEPT ![d] = [pc |-> pc, mail |-> m]]
  /\ UNCHANGED <<scene, tasks, customers, spent, failed>>

Checks(w) ==
  /\ At(w, "checking")
  /\ IF Source(w) \in tasks THEN Ingested(w) ELSE Goes(w, "resolving")
  /\ UNCHANGED <<scene, tasks, customers, spent, failed>>

(* mutant: the sender is not searched *)
MKnown == FALSE

(* search: the newest rows that match; exact: one of the very address      *)
Known ==
  \E k \in DOMAIN customers : customers[k].exact /\ k + SearchLimit > Len(customers)

(* create, by an ingest or by Nobody: a row of the sender, or of another   *)
(* whose address, like one that ends with the sender's, contains it        *)
Ingest(w) == <<w, work[w].mail>>
Created(by, exact) ==
  customers' = Append(customers,
    [by |-> by, exact |-> exact,
     rivals |-> {Ingest(v) : v \in {v \in Workers : At(v, "creating")}}])

(* resolveCustomer *)
Resolves(w) ==
  /\ At(w, "resolving") /\ Goes(w, IF Known THEN "classifying" ELSE "creating")
  /\ UNCHANGED <<scene, tasks, customers, spent, failed>>

Creates(w) ==
  /\ At(w, "creating") /\ Goes(w, "classifying") /\ Created(Ingest(w), TRUE)
  /\ UNCHANGED <<scene, tasks, spent, failed>>

(* The office, a booking or another sender's mail enters a customer; who   *)
(* looks for one has a mail.                                               *)
Enters(exact) ==
  /\ Len(customers) < MaxEntered /\ (\E m \in Mails : Arrived(m))
  /\ Created(Nobody, exact)
  /\ UNCHANGED <<scene, work, tasks, spent, failed>>

(* assertWithinBudget *)
Affordable == spent < Budget

(* extractFromEmail: no template, no budget: no call *)
Classifies(w) ==
  /\ At(w, "classifying")
  /\ \/ Affordable /\ Goes(w, "calling")
     \/ Goes(w, "inserting")
  /\ UNCHANGED <<scene, tasks, customers, spent, failed>>

(* The call is charged, unless it or the record of it failed. *)
Calls(w) ==
  /\ At(w, "calling") /\ Goes(w, "inserting")
  /\ spent' \in {spent, spent + 1}
  /\ UNCHANGED <<scene, tasks, customers, failed>>

(* createFromEmail: one task of a source, a second one is skipped *)
Inserts(w) ==
  /\ At(w, "inserting") /\ Ingested(w)
  /\ tasks' = tasks \cup {Source(w)}
  /\ UNCHANGED <<scene, customers, spent, failed>>

(* An error of the database: the mail is reported, the batch continues; a  *)
(* drop is answered with an error and the sender delivers again.           *)
IngestFails(w) ==
  /\ work[w].pc \in Ingesting \ {"calling"} /\ Ingested(w)
  /\ failed' = IF w \in Runs THEN failed \cup {work[w].mail} ELSE failed
  /\ UNCHANGED <<scene, tasks, customers, spent>>

Syncing == \E r \in Runs :
  SyncStarts(r) \/ SyncConnects(r) \/ SyncMarks(r) \/ SyncFetches(r) \/ SyncTakes(r)
    \/ SyncEnds(r) \/ SyncDies(r)
Ingests == \E w \in Workers :
  Checks(w) \/ Resolves(w) \/ Creates(w) \/ Classifies(w) \/ Calls(w) \/ Inserts(w)
    \/ IngestFails(w)
World == Tick \/ (\E exact \in BOOLEAN : Enters(exact)) \/ \E m \in Mails : Arrive(m) \/ Open(m) \/ \E d \in Drops : DropArrives(d, m)
Connection == (Owner \/ Background \/ Mailing) /\ UNCHANGED intakeVars

Next == Syncing \/ Ingests \/ World \/ Connection

Spec == Init /\ [][Next]_vars

-----------------------------------------------------------------------------
(* A mail that no later run will ask for, because its date is more than    *)
(* the overlap before the watermark, is a task, was opened by the owner,   *)
(* or was reported as failed: runs that overlap, end out of order, die or  *)
(* fetch only a part of the mailbox lose none.                             *)
NoMailIsMissed ==
  \A m \in Mails :
    Arrived(m) /\ watermark # Never /\ date[m] < watermark - Overlap =>
      <<"gmail", m>> \in tasks \/ m \notin unread \/ m \in failed

(* An ingest creates a customer for a sender who has one only when it had  *)
(* looked before that one was created, or when so many whose name or       *)
(* address contains the sender's came after it that a search does not      *)
(* reach it.                                                               *)
CustomersAreShared ==
  \A j, k \in DOMAIN customers :
    j < k /\ customers[j].exact /\ customers[k].by # Nobody =>
      customers[k].by \in customers[j].rivals \/ k - j > SearchLimit

(* The month's cost passes the budget by no more than the calls that were  *)
(* under way when it was reached: less than one per worker.                *)
SpentIsBounded ==
  LET calling == {w \in Workers : At(w, "calling")}
      ingested == {w \in Workers : work[w].mail # Nobody}
  IN  ingested # {} => spent + Cardinality(calling) < Budget + Cardinality(ingested)

(* What ingests that run at the same time do to each other stays in these  *)
(* bounds: customers of the sender, and the cost of the month.             *)
IngestsOverlapSafely == TypeOK /\ CustomersAreShared /\ SpentIsBounded

(* No mail is passed over, and none does harm by overlapping another.      *)
IntakeIsSound == NoMailIsMissed /\ IngestsOverlapSafely
=============================================================================
