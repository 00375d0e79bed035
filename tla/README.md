# Verification of the service core and of its clients

This directory holds TLA+ models of the field-service product in
`project-skeleton/`: its back end (NestJS, Prisma, PostgreSQL, Redis/BullMQ),
and of its three clients (`frontend-web` for the office, `frontend-pwa` for
technicians, public pages for customers) the parts that decide something. TLC
configurations check them on small instances, and TLAPS proofs establish the
safety properties for every value of the constants. Paths are relative to
`src/project-skeleton/src/` unless they say otherwise. `PROJECT.json` names, for
every definition, the lines it models, and the mutants, hazards and findings.

The back end is one application that runs in several processes. Every process
serves HTTP, polls the outbox and runs queue workers. Processes share PostgreSQL
(READ COMMITTED; `PrismaService.forTenant` opens one transaction and sets the
tenant for row level security) and Redis. Clients reach it over connections that
lose answers. What is hard is therefore what happens *between* transactions and
*between* requests: two requests, two deliveries, two instances, a late answer, a
page that shows an old state, and the process that dies in between.

## Components

| component | state it keeps | operations | hard behaviour | what makes it correct |
|---|---|---|---|---|
| Outbox, publisher, workers (`queue/`, migration 0004), alerts | `outbox_events` rows, BullMQ jobs, the claimed batch in memory, last time of an alert | claim, push, return a row, handle, mark done, record a failure, alert | several publishers, crash between claim and push, lost acknowledgement, stalled jobs, retries | exclusive claims; DONE means handled; DEAD means the quota is spent; nothing is forgotten |
| Inventory (`modules/inventory`) | items, stock movements | create, adjust, consume a closed task, low-stock rows | duplicate and concurrent deliveries, row locks in checklist order, swallowed errors | the ledger replays; never below zero; once per task; all or nothing; atomic |
| Checklist plan | none | `consumptionPlan` | repeated SKUs, bad quantities | total by SKU, each SKU once |
| Invoicing (`modules/invoicing`, `price-list`) | invoices, lines, prices, advisory lock | generate, edit a price; print | read and write in different transactions, crash, failed upload; text in two directions | dense numbers, nothing billed twice, honest 409, every request answered, a readable page |
| Brief, counters, report (`modules/dashboard`, `reports`) | none: nine, one and two statements | read | READ COMMITTED: each statement sees another moment | each figure was true at its moment |
| Idempotency (`common/interceptors`) | key rows | claim, replay, store, release | concurrent retries, crash before the answer is stored | one effect and one answer per key, no claim without an owner |
| Office dialogs and lists (`frontend-web`) | an open form, its key, the query behind it | open, edit, submit, close, refetch | late and lost answers, refetch under way at a success, rows added between pages | done at most once, what is told was done, the list shows it, paging skips nothing that was there |
| Sessions of both clients, service worker | token, session, cached tasks, queries in memory | login, logout, change of password, fetch | answers that come after a logout or under the next user | what is shown is of who is signed in |
| Tasks, scheduling (`modules/tasks`, `scheduling`) | tasks, assignments | create, assign, close | loads counted before they are used, locks in different orders, event in a second transaction | loads not understated, one `task.closed`, technicians told |
| Task status and the technician's phone (`modules/task-status`, `features/jobs`) | time of a visit, confirmation, ticks on the page | schedule, on the way, confirm, ask, close | the customer and the technician act on old pages; two closes | a confirmation refers to its time; what the phone says happened |
| Field route (`modules/field-route`, `features/day`) | places, order of a day | my-day, learn a place | two phones teach one place; order of stops | a tour of the day's visits, in time order; a place is learnt once |
| Quotes and public links | quote, status, link | create, send, approve, decline, view | status read, then written unconditionally; two active links | an answer makes one task and stays |
| Equipment, bookings and public links | equipment, its open task, link | remind, book, switch off | bookings through several links, a refusal that undoes the mark of the link, midnight | never two open tasks, a link books once |
| Onboarding (`modules/onboarding`) and its page | session with version, call count, draft | message, upload, finalise | budget reserved by version, parallel requests, reload, two-transaction finalise | calls are paid for, answers stay, one tenant per session |
| Intake (`modules/intake`, `queue/intake.processor.ts`) | watermark, processed ids, customers | sync, ingest | failed mails in a batch, overlapping runs and ingests | no mail is missed, customers are shared |
| Integrations, customer mail (`modules/integrations`, `comms`) | tokens, status, OAuth nonce | connect, disconnect, renew, expire, send | renewed tokens saved without being awaited, tries that time out | the status is true, a letter goes out once |
| LLM metering (`llm/`) | usage rows per month | check, call, record | check before, charge after; retries | overshoot is bounded and known |
| Tenants and RLS, health, e-mail worker, deployment | | | | see "Not modelled" |

HTTP handlers and intake write business rows and outbox rows in one transaction;
the publisher turns rows into jobs; workers call inventory, scheduling and
customer mail; quotes and equipment make public links in their own transactions,
and what a customer does through a link creates a task and its outbox row; the
idempotency interceptor wraps mutating requests, and the dialogs choose its keys.

## Modules

| module | role |
|---|---|
| `Outbox`; `EventDelivery`; `OutboxDelivery` | rows, publishers, jobs, slots, alerts, processes; what is promised of an event; the refinement mapping |
| `Inventory`; `StockLedger`; `Checklist` | managers, consumers, row locks, transactions; atomic deductions and corrections; the plan and the totals it is checked against |
| `Lists` | long lists of the office, by page number, by cursor, filtered on the screen |
| `Invoicing`; `Brief` (extends it); `InvoiceText` | `generateInvoice`; figures read while it runs; lines and pages of the PDF |
| `Idempotency`; `Desk` (extends it) | the interceptor; a dialog in front of it and the list behind |
| `Accounts`; `Tab` (extends it) | users and tokens; a tab two users share |
| `PublicLinks`; `Quotes`, `QuotePages`; `Booking`, `BookingPages` | links of one kind of subject, extended by its two users; the pages before each server |
| `TaskBoard` | creation, assignment and close |
| `TaskStatus`; `FieldApp` (extends it); `Day` | one visit; the technician's page; lists, tours and places |
| `Onboarding`; `OnboardingPage` (extends it) | one session; the page in one tab |
| `Integrations`; `Intake` (extends it); `Metering` | the Gmail connection and letters; mails to tasks; a call of the model |
| `MC*` | values of the constants, and the choice of what a behaviour is about |
| `*Proofs` | TLAPS: `OutboxProofs`, `InventoryProofs`, `InvoicingProofs`, `DeskProofs` (interceptor, dialogs and tab), `BookingProofs` (bookings and their pages), `CustomerProofs` (visits and quotes), `OnboardingProofs`, `MailProofs` (metering, connection, mails) |

Several MC modules choose at the start what a behaviour is about (`scene`,
`screen`, `about`): the parts do not share state, and the product of two of them
would show nothing that each alone does not. In its scene a component makes just
the steps of its own `Next`, so that what is proved of the component's
specification holds of that part of the run.

### Outbox

`row[e]` is the row (status, attempts, `deferred` while `nextAttemptAt` is in the
future); `job[e]` the BullMQ job with `jobId = outbox-<id>`; `batch[i]` and
`failed[i]` the memory of `publishBatch`. A slot walks `handling → marking →
completing` or `handling → recording → (alerting) → failing`; each arrow is an
`await` of `process`.

| action | code |
|---|---|
| `Commit` | the business transaction writes the row |
| `Claim`, `RetryRow` | `claim_outbox_batch`; `nextAttemptAt` passes |
| `Push`, `PushFails`, `ReturnRow`, `ReturnRowFails` | `publishBatch`, its catch block, `tick`'s catch |
| `Take`, `HandlerSucceeds`, `HandlerRejects`, `Settled` | `process`, `dispatch` with `Promise.allSettled` |
| `MarkDone`, `RecordFailure`, `...Fails`, `SendAlert` | `settle_outbox_event` by the worker; `AlertService.send` |
| `Complete`, `Fail`, `RetryJob`, `Remove`, `StalledCheck` | BullMQ (external), from `RETRY_POLICY` and its defaults |
| `Crash`, `Restart` | a process dies or is redeployed |

A handler in `Swallowers` catches its own errors: the dispatcher sees success, so
`fulfilled` records "reported success"; what that costs is shown in `Inventory`.
`MaxAttempts` is 5 in the code and 2 in the runs: properties compare the counter
only with its bound. `faults.pushOnly` is true while nothing but `queue.add` has
failed; `OutboxDelivery` maps it to the `covered` of `EventDelivery`, which
promises something of an event only so long.

### Inventory and lists

`qty` and `ledger` are committed; `wrote[c]` is what the open transaction of `c`
has written, `lock[i]` the row lock its UPDATE took and keeps to the end.
`ReadItems` and `ReadRecorded` are separate statements and so separate actions.
`Decrement` is the UPDATE with its floor, in plan order; a blocked one is not
enabled, and `InCycle` is a cycle of such waits, one member of which PostgreSQL
aborts. `Insufficient`, `Duplicate`, `DeadlockVictim` and `Fail` end in `GiveUp`:
roll back and *return normally*, because `handleTaskClosed` swallows. Low-stock
rows are written after the commit; `hit` names the tasks for which a fault came
in between. The plans of the run are `ConsumptionPlan` of two checklists with a
repeated SKU, an item not done, one without SKU and quantities that do not count.
`Lists` reads pages in one of three ways while rows are added and change level.

### Invoicing, brief, text

A run is one call of `generateInvoice`: `ReadBilled`, `ReadTasks`, `ReadPrices`,
`Lock` (the advisory lock; `LockKey` need not be injective, as `tenantLockKey`
keeps 32 bits), `Number` (`MAX + 1`), `Insert` or `Refused`, `Upload` and
`Finalize`, the last two outside a transaction. A line has its position in the
checklist, so that a checklist that names a code twice is representable;
`ConflictMeansRace` says that it is not covered. `looked[r]` remembers whose invoices
were there when `r` read them. The initial price list is arbitrary. `Brief` reads the rows of `Invoicing`, of quotes and of bookings one
statement at a time, by plans that are subsequences of the brief, the report or
the counters. A statement with a `LIMIT` or a `take` returns any rows of that many
(`Found`): the agreement of estimate and revenue is stated for what fits the limits,
and without the jobs closed on the first of the days the brief looks back to, which
the 90 days of the report's page leave out (`shared` in `ScreensAgree`).
A report is told by a flag that it was cut short (`truncated`), but its page shows
nothing of it; `BriefIsHonest` therefore speaks of the jobs found, not of all.
`InvoiceText` cuts a line into runs (an interval of places each), places one left of
the other (`Leads`, `Cursor`) and draws each as `pdfkit` does (external): the
character at a place of the page is `Shown`. It fills pages with rows; heights are
constants, of which it asks that a page holds its margins and what a row leaves free.

### Idempotency, dialogs, tabs

`hash[k]` and `answer[k]` are the row of a key, a key standing for (tenant, key,
endpoint). `did` collects the requests whose handler committed. The claim is one
insert; the loser reads in a second statement, and the row may be gone by then.
`Respond` comes before `Store` or `Release`, which are not awaited. In `Desk` a
`Kind` says of each of ten dialogs when it takes a new key (at opening, by
content, at submission, never), what disables its button, and what an answer does
when it comes late. A request without a key has a fresh one. `kind = Clients`
replaces the dialog by arbitrary requests.
`Tab` has `tab` (token, saved session, session, status, page), `calls` under way
and, on the phone, `memory` of the queries and `cache` of the service worker;
`crossed`, `left` and `dirty` remember the races that the properties except.

### Links, quotes, bookings

`making[m]` and `targets[m]` follow `PublicLinkService.create` inside the
transaction of its caller: `RevokeBegins` is the snapshot of the revoking UPDATE,
`RevokeEnds` the moment it has its locks and looks again, `Insert` shares the key
of the subject, `Publish` and `Withdraw` are commit and rollback. In `Quotes` a
send reads the status, makes its link and commits; a tap resolves its link and
opens, approves or declines; `ApproveCommits` writes `taskId`, a unique column,
and waits for those who share the key; `Deadlocked` is the circle this makes with
a send. `met` records the quotes for which two sends overlapped. In `Booking`,
`BookMarks` sets `usedAt`, uncommitted, `BookLocks` is the `SELECT ... FOR
UPDATE`, `BookChecks` the look for an open task, `BookCommits` the task. The
`*Pages` modules put a page's view, form and mutation before these servers.

### Task board, visit, day

An assignment goes `read → locked → counted → telling`; `Score` is a parameter.
A technician's close inserts an audit row whose foreign key shares the key of his
`users` row and so waits for an assignment that has locked it. Redeliveries,
managers' calls and first deliveries are the same action, `AssignReads`.
`TaskStatus` numbers the times the business sets; a page acts with the view it
loaded. In `FieldApp` a close is sent with the ticks of the page; its answer may
be lost and another be sent. `Day` computes the tour of `route.ts` (timed visits in
order, the others by nearest neighbour), the list of jobs, and what the pages of both say:
`DayPage`, `JobsPage`. The closed ones of that list are the `ClosedSize` created last
(`Newest`), and the page does not say when there are more. A set of visits is put in order by counting, for each, the
visits before it, and the tour is a recursive function of the number of stops.

### Onboarding, mails, connection, metering

A message reserves its calls by a conditional update on `version`, loops over
tools, gives back what it did not use and writes conditionally again; an upload
takes one call without the version. A draft is the set of facts recorded.
`together` holds the pairs of requests that overlapped. `OnboardingPage` decides
which request begins and when (`PageImplements`).
`Integrations` names a token by the number of its grant; Google accepts those in
`valid`. `held[c]` is what a client works with, `saving` the background writes,
`late` the clients that a reconnect, a disconnect or somebody's write overtook.
`Intake` adds `watermark`, `sync[r]` (where a run began, what it has in hand,
whether it was cut), `work[w]` (the step and the mail of a worker) and the
`customers` whose name or address contains the sender's, oldest first, each with the
`rivals` that were creating one when it was made. A search finds the last `SearchLimit`
of them (`Known`); `Enters` is everybody else who makes one.
`Metering` follows a call from the check through its tries to its row; `counted`
is what the provider counted, `recorded` and `charged` what the rows say.

## Runs

All runs but one pass. Sizes are distinct states; the times are those of two
workers. Every behaviour-cutting bound is a constant of a cfg and a guard of the
model, and stands in the table or in the list after it.

| run | states | bounds | shows |
|---|---|---|---|
| `OutboxFaults` | 3.1 M | 2 events, 2 instances of 1 slot, 2 handlers of which one swallows, 2 attempts, batch 1, any 2 faults of 5 kinds | `OutboxIsSound`: types, exclusive claims, what DONE and DEAD mean |
| `OutboxLive` | 120 s | 2 events of which one malformed, batch 2, 2 faults of crash / Redis error / lost acknowledgement | `NothingIsForgotten`, `OneWorkerPerEvent`, `DeliversAsPromised` (refinement of `EventDelivery`), `EnqueuedSettles` |
| `OutboxOrphan` | small | 1 event, 1 instance, 1 crash | `EveryEventSettles` is **violated** |
| `Inventory` | 242 k, 60 s | 2 items, 2 tasks with opposite plans, 2 consumers, 2 deliveries each, stock 3, an item created late, a correction of -1, 3 movements per item, all faults; lists of 3 rows, 2 pages of 2, 2 levels | `BooksAreSound`, `DeductsChecklist`, `ActsAtomically` (refinement of `StockLedger`), `EveryDeliveryEnds`, `ListsAreTrue` |
| `Invoicing` | 753 k, 185 s | 1 tenant, 2 customers, 2 tasks, 2 codes, 3 runs, 1 price edit, all faults; brief of 2 tasks, 2 units, 3 days, a lookback of 2 days, limits of 1 and 2 rows; every line of up to 5 characters of 7 kinds, 20 rows | `NumbersAreSound`, `BilledOnce`, `ConflictMeansRace`, `EveryRunEnds`, `FiguresAreTrue`, `InvoiceIsReadable` |
| `Browser` | 864 k, 170 s | 2 keys, 2 bodies, 2 openings, 2 submissions, all faults, lists of 2 of 10 dialogs; or 4 requests of other clients; or 2 users with 3 tokens (web), 2 (phone) | `DialogsAreSound` with `KeysAreSound`, `ListIsCurrent`, `TabIsOwn`, `ClaimsEnd` |
| `Quotes` | 1.56 M, 112 s | 2 quotes, 2 sends of one, 2 taps, all faults; pages with 2 reads | `QuotesAreSound`, `QuotePagesAreTrue`, `EveryRequestEnds` |
| `Booking` | 828 k, 45 s | 1 unit, 2 reminders, 3 bookings, all faults; one page, 2 taps, 2 fetches, 2 days | `BookingsAreSound`, `PagesAreTrue`, `EveryRequestEnds` |
| `TaskBoard` | 31 k | 3 tasks of which one needs a skill nobody has, 2 technicians, 2 assignments, 2 closes, aborts | `BoardIsSound`, `ClosedIsFrozen`, `TasksSettle` |
| `Onboarding` | 5.3 M, 143 s | 2 messages, 2 uploads, 2 finalisations, 3 calls (2 per message), 1 document, 1 reload or loss, 1 fact | `BudgetIsKept`, `OneTenant`, `NothingIsTakenBack`, `FinalIsFinal` |
| `Intake` | 2.8 M, 161 s | 5 shapes of 2 or 3 workers and up to 2 mails, 3 grants, 2 changes, 2 tries, 3 instants; in one shape 3 customers when another is entered, searches of 2 rows; metering of 3 calls, 2 months, 2 tries | `IntakeIsSound`, `IntegrationIsSound`, `SpendIsBounded` |
| `FieldApp` | 1.4 M, 95 s | 1 page, 2 times, 2 fetches, 1 item, and either 1 departure with 1 close or 2 closes; a day of 3 visits, 2 days, 2 phones, a list of 1 closed job | `VisitIsTrue`, `DayIsRight`, `FinishedIsFrozen`, `TicksAreKept` |

Why the bounds are enough to be interesting: two publishers share a claim; two
attempts give a first, a last and a retried one; two faults cover a fault
during the recovery from another; two tasks over two items are the smallest
deadlock; a third invoice run sees the gap or the repetition after two others; two
submissions under two keys with two bodies are a retry, an edit and a new one; two
sends overlap, two taps are a double tap; three bookings let two race for one link
while a third comes through another; two uploads and two messages overlap in every
order; two overlapping runs end out of order. Units, and quotes but for their
numbers, do not interact. For every property a mutated definition, beside the
original and marked `mutant:`, makes TLC find a violation under the run's own cfg.

What the bounds and the abstractions leave out, run by run:

* `Intake`: `MaxChanges` counts disconnections, withdrawals and renewals; a
  client's renewal is saved or lost before its next. Google may refuse for quota
  (403), which makes a client late. Mails are of one sender with a valid address;
  others enter customers only in the shape of one mail, where time stands still and no
  ingest of a run fails (`AboutMails`), and `MaxEntered` ends it; in the shapes
  without a forwarded mail the sender is a customer from the start, elsewhere nobody
  is; a customer is one step, so
  that the order of `createdAt` is that of the commits; nothing in the code switches
  a customer off. Gmail shows a mail within `Overlap` of its date. Metering leaves out the calls of onboarding, which have no tenant, and
  scales amounts.
* `FieldApp`: links are valid; the day followed is today's; places lie on a line;
  the two pages of the list of jobs (`PageSize`, `ClosedSize`) are scaled.
* `Browser`: the list is followed for `GenerateInvoice` and `AdjustQuantity`; the
  service worker controls the page; an abort may or may not reach it. `Tab` alone
  with three tokens on both devices was checked too (2.9 M states).
* `Invoicing`, the brief: lookback, interval and warning are scaled to days; a
  plan is a subsequence of the nine statements, or the report's two, or the
  counters; one answer per behaviour, and nothing is followed after it; a job that
  both the brief and the 90 days have left behind is beyond the last day. The text:
  a character is 1 wide, heights are scaled.
* `Booking`, `Quotes`, the pages: one page at a time, no aborts and no expiry in
  the pages' scenes; midnight is followed while a form is shown; the send of
  another quote is one step.
* `Inventory`, the lists: the search on the server and the eviction of cached
  answers are left out; rows that an order does not tell apart come in any order.

All cfgs switch deadlock checking off because requests are made once and the
systems rest when they are used up; that nothing rests too early is what the
liveness properties say. `EveryRequestEnds` of `Quotes` and `Booking` is written
`[]<>(all are new or ended)`, which is the same as each one ending, since a
request is made once.

## Where code and comments disagree

`OutboxOrphan` is the run that refutes a comment: a row claimed by a process that
dies before the push stays in PROCESSING, although `outbox.publisher.ts` expects
the next scan to pick it up. The other disagreements met while modelling are under
"findings" in `PROJECT.json`, each with the line it quotes. Those that change what
a reader should expect of the system most: the victim of a deadlock over stock is
swallowed, and its event is DONE; a partly billed task is never billed for the
rest; if storing an answer fails, retries get 409 for ever; two overlapping sends
of one quote let it be approved twice; two concurrent links of one subject both
stay active; the retry that a 409 asks for leaves such a task out as well; a sender whom ten newer
customers contain is made a customer again; a job of some age that was closed today
may be missing from the "completed lately" of the technician's list, which holds the
20 created last; a repeated `task.created` may move a task to somebody else; a cut run
of Gmail lists the same mails again; a mistyped current password signs the user
out; a checklist that names a code twice meets 409 on every run.

Smaller things seen, without a comment to contradict: users who must change their
password have no page for it; the OAuth callback of an older tab clears the cookie
of a newer one; the dialogs of stock corrections, new items and prices carry no key;
a late success closes a dialog that was opened anew; an answer of an older refetch
may replace a newer state on the quote's page for a moment; low stock is paged in
an order that leaves ties open; the page of the report reads that it was cut short
and shows nothing of it; its 90 days end with today, while the brief counts what was
closed since 90 days ago, so that a job of that day is in one and not in the other;
the technician's list of closed jobs says nothing of those it leaves out, which the
warning about open jobs does not cover.

## Fairness

* Outbox: the poll timer fires again, code between two awaits runs on, a waiting
  job is taken by *some* free slot, timers elapse, the stalled check runs, a
  stopped process is restarted. Faults, business transactions, alert windows and
  removal of old jobs are never forced. Weak fairness suffices: each action stays
  enabled until it is taken or made superfluous.
* Inventory: a running handler goes on, and PostgreSQL resolves a cycle of
  waits; a consumer that waits for a lock is not enabled.
* Invoicing: a request that has started goes on; the lock is granted in the end,
  and each run asks once.
* Browser: one weak fairness condition on the steps of the server, `Answers`;
  weaker than one per request, and enough because there are finitely many.
* Quotes, bookings, task board: a request that has begun goes on as soon as its
  locks are free, and PostgreSQL breaks deadlocks. `Booking` has no deadlock
  breaker: that its requests end shows that there is nothing to break.

No fairness is assumed for clients, users, deliveries or faults. `Onboarding`,
`Intake` and `FieldApp` state safety only.

## Proofs

The theorems hold for all constants that satisfy the named assumptions of the
modules, which TLC evaluates for the instances of the runs. The specification of
each theorem is that of its component (`Spec`, `BoardSpec`, `FieldSpec`,
`DaySpec`, `DeskSpec`, `TabSpec`, `PageSpec`, `PagesSpec`, `CustomerSpec`, `StaffSpec`,
`MeterSpec`, `ListSpec`, `BriefSpec`, `TextSpec`). Every invariant that a
proof needs was checked by TLC on the run of its component before it was proved.

* **Outbox** (`OutboxProofs`). `TypeInv`: `attempts` stays in its range only
  because a job that is to run has an attempt left and a worker carries fewer than
  the quota of failed ones. `ClaimInv`: claims of different instances are disjoint
  and not PENDING, so a claim cannot meet a held row. `FulfilInv`: what a slot has
  left to do and what was reported cover the handlers. `HolderInv`: without stalls
  a busy slot is the holder of an active job. `PushInv`, for `NothingForgotten`:
  row, job and slot of an event agree at every step while only pushes have failed;
  a held row has no job, an active job is held by a slot that is busy with it, and a
  slot lets its job go only after its row is settled.
  `DeliversStepByStep`: every step of the outbox is a step of `EventDelivery`, or
  none (`StepDelivers`), which is the refinement but for its fairness. It needs
  `CountInv`: so long as only pushes have failed, the row, the job and the slot of
  an event have counted the same failed attempts, and the row is PROCESSING until
  the slot settles it. So `settle_outbox_event`, which asks nothing of the row it
  writes, never counts an attempt twice and never leaves DONE or DEAD.
* **Task board** (also in `OutboxProofs`, as assignment is a handler of the
  outbox). `BoardLocksOK`: one assignment has the technicians' rows from the lock
  to the write, and a close has its task, which is open, to itself. So nobody adds
  to a load that was counted (`LoadIsNotUnderstated` is inductive only with it),
  and the `task.closed` row of a commit is the first (`BoardSound`); that a closed
  task stays with whom it was (`ClosedFrozen`) rests on the condition of the
  assignment's write, not on what it had read.
* **Inventory** (`InventoryProofs`). The argument of two-phase locking: a row is
  locked by the one transaction that has written it (`LocksOK`), so what it wrote
  still follows from the committed state when it commits (`WroteOK`); `TodoOK` and
  `NothingIsLost` carry the plan from the reads to the commit, which is what "all
  or nothing" rests on. `BooksSound` follows, and `DeductionsAreAtomic` is the
  refinement: the commit maps to `Consume`, creation and adjustment to theirs,
  every other step to a stutter.
  `ChecklistsDeducted`: what the ledger says a task took is, code by code, the sum
  over its checklist, however often the checklist names a code. The plan is a
  recursive function over the checklist (`Plans`) and the reference a sum over a
  set, so that this needs induction over the checklist: `PlanIsTotal` says of every
  prefix that its plan names each code once, with the sum of the prefix.
* **Lists** (also in `InventoryProofs`; `ListSpec`). A page by number is what has a
  place of the page in an order of the rows, and in an order without ties the place
  of a row is the number of rows before it (`PlaceIsRank`). So a new row only moves
  others to later pages, and a walk has seen every row it began with whose rank
  belongs to a page already read (`WalkSound`); a page that is not full ends it
  (`PageEnds`). By cursor, the pages read are an initial part of the order, sorted
  and apart from each other, with every row up to the last cursor that was there at
  the start (`Reading`), and this also of a second reading that is not finished
  (`PagesSound`). The proof found an error of the property: it excepted ties among
  the rows the walk began with, but a row *added* later that ties with one of them
  lets the next page order both anew. TLC shows it only with four pages of one row
  (its instance has two of two), and now finds nothing there.
* **Invoicing** (`InvoicingProofs`). `LockOK`, `NextOK` and `CreatedOK` (the lock is
  held between numbering and commit, the number is one more than the largest,
  nothing exists before the insert) give dense numbers and no double billing, also
  for tenants that share a lock key. `LinesOK` (a run's lines are items of the
  tasks it picked, each once) and `LookedOK` (what it picked has no line on an invoice
  it found) give `ConflictIsRace`: the line that a refused run met is on an invoice
  that was not there when it looked, and invoices stay as they are.
* **Brief** (also in `InvoicingProofs`; `BriefSpec`). That two screens agree is that
  two sums over different things are equal, so the laws of sums come first: a sum
  over a finite set does not depend on the order (`SumExists`, `SumUnique`,
  `SumAnyOrder`, by induction over the cardinality), splits over disjoint parts
  (`SumJoin`), over groups (`SumByGroups`) and carries over to other names of its
  terms (`SumOverImages`: the lines of a bill and the codes they name).
  `BooksKept` (finite books; closed is made and dated, and no date is to come) then
  gives `ScreensRight` at every moment. What was read at different moments needs
  `ReadingKept`: an answer already read is good for what the page says with it, and
  what waited throughout waits now. `FiguresTrue` is both, with the guard of
  `FiguresAreTrue` itself: what is closed was made.
* **Interceptor, dialogs, tab** (`DeskProofs`). `IInv`: at most one request has won
  a key, and a stored answer is the winner's. `DeskImplements`: a dialog only
  decides which request begins, so that these hold under it. `DInv` adds that keys
  are new when taken (`KeysOK`), a series of repetitions has one key (`SeriesOK`), a
  key has one content where the dialog sees to it (`BodiesOK`), and a fetch that is
  not stale has read what was told (`ListOK`). `TabInv`: on the phone a page
  inside means a token, a fetch carries the token of the tab and nobody signs in
  while somebody is inside (`CallsAreSound`); what is kept is of the token's holder
  or remembered as left behind (`KeptIsOwn`).
* **Bookings** (`BookingProofs`). `MarkExcludes` and `LockExcludes`: the lock of a
  link keeps `usedAt` null, and that of a unit keeps it without open task, from the
  check to the commit. Without it `OneOpenTask` is not inductive. `PagesInv` adds
  the pages: what a request was answered is backed by a row that is never taken back
  (`AnsweredTruly`: "conflict" by a task of the unit, whether the link was used up or
  a visit was open), and what a page has read or heard stays so while other
  requests, other pages and midnight go on (`PageOK`); a day refused is one that
  has come, as the form took it from the range of its own day (`PagesTrue`).
* **Visits** (`CustomerProofs`). A handled close knows whether it was the one that
  counted; nothing is done in an open task.
* **Field route** (also in `CustomerProofs`; `DaySpec`: any visits, places, phones,
  days and limits). What `InOrder` and `Tours` compute is proved of them first: an
  order without ties puts the members of a finite set at the numbers of those
  before them, and the tour of a pool visits each of it once, each time a nearest
  of the rest (`ToursTravel`, by induction over the number of stops). `TourRight`
  and `PageRight` then hold of every well typed day; the list of jobs and what
  phones have taught need invariants, `JobsKept` and `LessonsKept` (a report that
  will teach a place found it unknown and has its row to itself). `DayRight` is all
  of them.
* **Quotes** (also in `CustomerProofs`). `QInv` says what the locks buy. Of a quote
  that no two sends met there is one send under way, and what it read is still true
  (`SendsOK`), so that its unconditional update finds a DRAFT; it has every active
  link in hand until it commits (`LinksOK`), so that its own is the only one. An
  approval has its row to itself and finds it SENT (`ApprovalsOK`), so that no task
  exists yet and nobody was shown another answer. The create that has a number is
  alone and the number is one more than the quotes there are (`NumbersOK`). The
  proviso on overlapping sends is not for the proof's sake: TLC refutes the
  property without it, see "Where code and comments disagree". `QuotePagesTrue` adds
  the two pages, each with a specification of its own. An answer, the end of the
  validity and an overlap of sends are never taken back (`Kept`), so a page may hold
  on to what it read (`ReadOK`), whatever overtakes what; a refusal came too late
  (`RefusalsOK`). The page of staff keeps one send under way only while it awaits
  each answer (`TurnsOK`): the send it remembers is then the one under way, and the
  link in its dialog, whose send has ended, is revoked by no other (`LinksEnded`).
* **Onboarding** (`OnboardingProofs`). `PageImplements` lets the server's theorems
  hold with the page. `VersionsAreSound`: who owns the version has the draft in
  hand. `TInv`: who is on the way to make a tenant is a rival of whoever made one.
  `BInv`: the calls reserved and not yet spent, as a finite set of pairs, fit
  beside those made (`CallsArePaid`); the counter passes the limit only by uploads
  that got `Ahead` of a message; the documents an upload has not run beside are
  those it counted (`DocsAreCounted`).
* **Mails** (`MailProofs`). `SpendBounded`: each call under way keeps a claim of
  `MaxCost` on the margin (`BusyIsPaid`); answers not yet recorded are a finite set
  with one member per unit of cost, and fit beside the rows (`RowsAndDue`).
  `IntegrationSound`: a client that nobody overtook holds the grant of the row, or
  one that killed it (`HeldIsCurrent`); a refusal that no race explains is of a dead
  grant (`RefusedIsDead`, `ExpiredIsDead`); without race or loss the newest grant is
  in the row or on its way (`GrantIsKept`). `IntakeSound`: a run that fetched all it
  asked for has in hand what came before it (`RunHasAll`), so that the watermark
  leaves only what was handled behind, also when it moves back
  (`PassedIsHandled`); of any customer of the sender, who is creating another is a
  rival or it has `SearchLimit` newer ones (`RivalsAreKnown`); calls stay below the budget by the mails begun.

* **Invoice text** (also in `InvoicingProofs`; `TextSpec`: lines of any length, any
  heights such that a page holds its margins and what a row leaves free). A run is
  a longest stretch of one direction (`RunIs`), so that every place of a line is in
  one run and no two overlap (`RunOf`, `OneRun`, `Ordered`); what is drawn before a
  run is what follows it in the text (`CursorIs`). So the character at `c` from the
  left is the one at `c` from the right, unless its run is not turned, and then it
  is its mirror image in the run (`ShownIs`). Letters are only in runs from right
  to left and a number only in one from left to right (`ResolvedIs`, `SameRun`),
  which gives `LineRight`. Of the pages, `PagesKept`: `y` is one row under the last
  one, and never further down than a full page and one row. `InvoiceReadable` is
  both.

Liveness is not proved, and checked by TLC only: `EnqueuedSettles`,
`EveryDeliveryEnds`, `EveryRunEnds`, `ClaimsEnd`, `EveryRequestEnds`, `TasksSettle`,
and the fairness that `DeliversAsPromised` asks of `EventDelivery`
(`DeliversStepByStep` is the rest of it). The provers do not reach fairness and
`ENABLED`. Every invariant and action property of the runs has its theorem.

Form kept for the provers: in modules with proofs an `EXCEPT` of several updates
never lets a later update refer to its own field by `@` through an arithmetic or
sequence operator (the translation of such a form to SMT is not to be trusted);
the self-referring update comes first, or the record is updated in one step.
`SUBSET S` is put in parentheses before `\cup`, which the parsers bind differently.

## Not modelled

Row level security is SQL policy text; the models take for granted that a
transaction sees one tenant. Registration, and the encryption of tokens but for a
missing key, carry no protocol of their own, nor do health checks, the forwarding
mail worker and deployment files. Wording of letters, layout and fonts, and edits
of descriptive columns are data that no property tells apart. `setCost` writes a
column nothing else depends on. Time appears as "it passes", as days where dates
matter, and as instants where the watermark does. `updatedAt` and audit columns are
left out but for the audit row whose foreign key takes a lock.

## Plan

Model: registration and the places where a page of the office shows what another one
changes; compositions of `Outbox` with `Inventory` and of `Idempotency` with
`Invoicing`.
