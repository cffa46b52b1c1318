# THISO leasing platform: specification and verification

The platform (NestJS backend in `src/apps/backend`, Next.js frontend in
`src/apps/frontend`, PostgreSQL through Prisma, Redis) runs the leasing of malls: a
lead books a unit, the booking becomes a proposal, the proposal is approved
and becomes a contract, the contract is billed, fitted out, ended; around it the
malls are patrolled, maintained, stocked and parked in.  This directory holds
TLA+ models of these processes, translated from the source, the TLC runs that
check them and the TLAPS proofs about them.

Contents: [system](#1-the-system), [modules](#2-modules-and-code),
[runs](#3-runs), [bounds](#4-bounds), [fairness](#5-fairness),
[proofs](#6-proofs), [what the runs found](#7-what-the-runs-found),
[not modelled](#8-not-modelled), [plan](#9-plan).

Run everything in this directory:

    tlc -workers 2 -config BookingSerial.cfg MCBookingQueue.tla
    tlapm BookingQueueProofs.tla

## 1. The system

All state is in PostgreSQL; the services are stateless classes (but for the
token and the circuit breaker of the SAP service).  What runs concurrently are HTTP
requests, about 22 cron jobs and, with several instances, copies of both.
Events between modules are either in-process (`EventEmitter2.emit`) or go
through an outbox table.

| Component (backend `src/`) | State | Operations | Interacts with |
|---|---|---|---|
| Booking queue, `modules/booking` | `UnitBooking`: status, unit, party, priority, price review, expiry | create, update, reorder, reinstate, cancel, extend, convert, hourly expiry, soft delete | unit status; creates proposals |
| Unit status, `common/services/unit-status.service.ts` | `Unit.status` | `transition()` with a table and checks against contracts and bookings | called by bookings, proposals, contracts, fit-out, spaces |
| Proposals, `modules/proposals` | `Proposal`: status, terms, unit, tenant | create, update, submit, reject, convert, handlers of the approval events | approvals, contracts, unit status, billing |
| Approvals, `modules/approvals` | `ApprovalWorkflow`, `ApprovalStep` | approve, reject a step; policy selects the steps | leaves its verdict in the outbox; used by proposals and fit-out |
| Contracts, `modules/contracts` | `Contract`, `ContractTermination`, amendments | create, update, status, terminate, expire (daily), amend | unit status, billing schedule, outbox |
| Outbox, `common/services/outbox.service.ts` | `OutboxEvent` | enqueue in a transaction; a job every ten seconds | every listener of an event |
| Scheduler lock, `common/services/scheduler-lock.service.ts`, `redis.service.ts` | Redis key with time to live, `JobExecution` ledger | `runExclusive` | every cron job |
| Short-term slots, `modules/slots` | `SlotBooking`: slot, dates, status, reference | create, update, confirm, cancel, delete | billing |
| Invoices, `modules/billing/billing.service.ts`, `ar-dunning.service.ts` | `Invoice`, lines, `Payment`, adjustments | add lines, issue, pay, reverse, adjust, approve, cancel, void; the overdue and dunning jobs | mirrors its status onto service contracts and parking |
| Schedules, `modules/billing/billing-schedule.*` | `BillingSchedule` rows | rebuild, monthly job, invoice by hand | contracts and their amendments |
| Receivables, `billing.service.ts`, `service-contracts`, `parking`, `billing-addin`, `slots` | the rows that can be billed | edit, confirm, reopen, transfer | invoices |
| Units, `modules/spaces` | `Unit` with what it is merged from | merge, split, delete | unit status |
| Fit-out, `modules/fitout` | project, stage, milestones; submittals and revisions | create, advance, configure stages; submit, review, resubmit, publish, attach | unit status, contracts, approvals |
| Patrol, `modules/patrol` | shift, checks, work orders | start, check, upload, complete, cancel, overdue job | work orders |
| Work orders, `modules/work-orders` | templates, orders | edit, switch, daily job | |
| Maintenance, `modules/tickets` | `MaintenanceSchedule`, executions | edit, start, complete | |
| Parking, `modules/parking` | contract, rates, statements | adjust, change dates, statement, daily job | receivables |
| Inventory, `modules/inventory` | item, journal of movements | move, edit | |
| Price rules, `modules/categories` | `CategoryMallPricing` | create, change, new version, delete | |
| Departments, `modules/departments` | the tree of departments | create, move, remove | users |
| Users, `modules/users` | accounts, role, lock, deletion, department | create, change, lock, remove | departments |
| SAP interface, `modules/sap` | log of calls; in memory: token, circuit breaker | sync, retry | SAP, external |

### What is hard

* **Check, then write.**  Most endpoints read a row, check it and write it in
  a later statement or transaction.  Some transactions repeat the check, some
  only read again, some do neither.  The models keep the two moments apart
  wherever the code does.
* **Several owners of one column.**  Five services move `Unit.status`;
  `transition()` asks for a contract or a booking but not for the mover's.
* **Sums kept in two places.**  Balance and status of an invoice are recomputed from its
  payments by some writers and written blindly by others; a receivable is copied into an invoice.
* **Calls made several times, or lost.**  The outbox delivers again after a
  crash or an overrun of its lock, but not after a listener threw, since the event emitter
  swallows that; SAP may have booked a call that timed out.
* **Locks that expire.**  `runExclusive` never renews its key.
* **Jobs that stop half way.**  The monthly billing job, the work-order job and the
  outbox job write row by row and are repeated.
* **Queues that must be passed on.**  Each way out of a queue has to promote
  the next booking or free the unit; one that does not strands the unit.
* **Long protocols.**  Termination, cancellation of a termination, the status
  endpoint and the expiry job all write `Contract.status`; billing schedules are rebuilt
  under invoices already drawn.
* **Intervals.**  Slots, rates, price rules and billing periods must neither overlap nor leave gaps.

`PROJECT.json` lists these hazards at their lines ("hazards"), with the
properties about them.

### What makes each component correct

* Booking queue: a unit somebody waits for is reserved, and the unit is freed when the last who waits leaves; one ACTIVE booking a unit; overdue bookings leave; terminal statuses are final; no conversion on an unreviewed price.
* Unit status: a unit with a contract in force, or one being prepared, is committed to it.
* Proposals and approvals: no contract without all approvals for its terms; the verdict is the one of the steps; terminal statuses are final; verdicts arrive.
* Contracts: one live contract a unit; a contract in force has its schedule; ended means ended; a contract past its date leaves force.
* Outbox and lock: one holder; PROCESSED means that the listeners were called to the end; every event is delivered; runs do not overlap.
* Slots: no time of a slot is given away twice; the next booking can be made.
* Invoices: status and balance follow the money; never more collected than owed; an issued total is that of its lines; void is void.
* Schedules: each owed month is billed, once, as its entry says; periods add up to the lease; an ended lease is not rebuilt.
* Receivables: billed once, and as they stand.
* Units: an area is let once, be it as itself or as part of a merged unit.
* Fit-out: one open milestone, at the present and active stage; what a revision says of its review is what was decided.
* Patrol: a completed shift has every required check; an abnormal point has one work order.
* Work orders, maintenance: no date skipped, no date twice, one open cycle.
* Parking: no day without a rate; no month charged at a rate of later months.
* Inventory: stock is the sum of the journal and not negative.
* Price rules: one price a day.  Departments: a tree; nobody in a removed one.  Users: somebody can still unlock.
* SAP: SUCCESS in the log means that SAP did the work.

## 2. Modules and code

| Module | Models | Composed with |
|---|---|---|
| `UnitStatus` | table and checks of `transition()`; constant-level | used by `BookingQueue`, `ContractLifecycle`, `ProposalPipeline`, `UnitMerge`, `FitoutStages` |
| `BookingQueue` | `booking.service.ts`, the manual status endpoint of `spaces.service.ts`, the contract operations a queue notices | `UnitStatus`, implements `UnitDesk` |
| `UnitDesk` | abstract: what proposals and contracts expect of the bookings of a unit | `UnitStatus` |
| `ContractLifecycle` | `contracts.service.ts`, `contract-termination.service.ts`, amendments, expiry job, fit-out's writes to the unit | `UnitStatus`, implements `LeaseBook` |
| `LeaseBook` | abstract: what the leasing team expects of contracts and units | |
| `ProposalPipeline` | `proposals.service.ts`, `approvals.service.ts`, delivery of verdicts, creation of the contract | `UnitStatus`; `LeaseBook` as the contracts, `UnitDesk` as the bookings |
| `SchedulerLock` | `runExclusive`, Redis key, ledger | |
| `Outbox` | `outbox.service.ts` | `SchedulerLock` |
| `SlotCalendar` | bookings of `slots.service.ts` | |
| `InvoiceLedger` | one invoice: `billing.service.ts`, `ar-dunning.service.ts`, the overdue job | the row of the service contract or statement that mirrors it |
| `BillingSchedule` | `billing-schedule.service.ts`, invoices by hand, amendments | |
| `BillingPeriods` | `generateBillingPeriods()` | |
| `Receivables` | one receivable of four modules and its transfer into billing | |
| `UnitMerge` | merge, split, delete of `spaces.service.ts` | `UnitStatus` |
| `PatrolShift`, `WorkTemplates`, `MaintenancePlan` | patrol, recurring work orders, maintenance of `tickets` | |
| `FitoutSubmittals`, `FitoutStages` | revisions with their reviews; stages with milestones and unit | the second: `UnitStatus` |
| `SapGateway`, `StockLedger`, `ParkingRates`, `PriceBook`, `DepartmentTree`, `UserAccounts` | `modules/sap`, `inventory`, `parking`, `categories`, `departments`, `users` | |
| `MCBackOffice`, `MCProgress` | put components without common tables into one run | the seventeen of `SlotCalendar` and below; `BillingSchedule` and `ProposalPipeline` |
| `MCBookingQueue`, `MCContractLifecycle`, `MCOutbox`, `MCProposalPipeline` | symmetry for TLC | |
| `BookingQueueProofs`, `OutboxProofs`, `ProposalProofs` | theorems | `BookingQueue`; `Outbox` with `SchedulerLock`; `ProposalPipeline` |
| `ContractProofs`, `InvoiceProofs` | theorems | `ContractLifecycle`, `FitoutStages`; `InvoiceLedger`, `Receivables` |
| `CalendarProofs` | theorems | `SlotCalendar`, `BillingSchedule`, `BillingPeriods`, `ParkingRates`, `WorkTemplates` |
| `OperationsProofs` | theorems | `PatrolShift`, `StockLedger`, `SapGateway`, `FitoutSubmittals`; the types of all that `MCBackOffice` composes |
| `DataLemmas` | lemmas: least numbers, least subsets, sums over finite sets | used by `CalendarProofs`, `InvoiceProofs`, `OperationsProofs` |

Composition: `Outbox` extends `SchedulerLock`; its `StartBatch`, `EndBatch`,
`CrashBatch` conjoin the steps of the lock with those of the batch.
`ProposalPipeline` contains `LeaseBook` instead of all of
`ContractLifecycle`: `contract_serial` shows that
`ContractLifecycle` implements `LeaseBook` (and where it does not,
section 7), so that the pipeline may rely on it.  In the same way `booking_core` and
`BookingsServeTheDesk` show that `BookingQueue` implements `UnitDesk`, and `BookUnit` of the pipeline is a
step `Serve` of that desk; `Negotiate` is the move to NEGOTIATING, which the pipeline alone makes.
A delivery that can crash and repeat, or whose listener throws and is not repeated, stands for what `Outbox` does.

`MCBackOffice` and `MCProgress` are sums, not compositions: the components have no table in
common, so no interleaving of two of them is of interest, and a variable `part` says
which of them a behaviour moves.  Where components do meet, the other side is
inside the module: a service contract in `InvoiceLedger`, amendments in
`BillingSchedule`, letting in `UnitMerge`, the contract and its unit in
`FitoutStages`, approvals in `FitoutSubmittals`, users in `DepartmentTree`.

### Conventions

* `req[k]` (`call`, `visit`, `session`... in other modules) is the request client `k` has in flight:
  what it has read and will use.  `XRead` is the part of an endpoint before its write,
  `X` or `XWrite` the write or the transaction; an endpoint whose checks are all inside a
  Serializable transaction is one action.  Serializable transactions are one step because
  Prisma reports `P2034` and the code retries, or the request ends (`Abandon`).
  A read-committed transaction that reads and then writes is *not* one step: its
  read belongs to `XRead`.
* `Abandon` (`Drop`, `Fail`, `GiveUp`) is a request that ends before its write: a check refused, the
  retries ran out, the process died.
* `Operations` selects the endpoints in use, so that a run or a
  theorem can say under which operations a property holds.
* **Pairs kept apart.**  Where the code checks first and writes later without looking again, two
  requests that cross can break almost anything.  A constant such as `Apart` or `MergeApart`
  is a set of pairs of operations (`{op}` is an operation with itself) of which no two are under way at once.  The run and the
  theorems then say precisely which crossings the property depends on: `MCBackOffice`
  lists pairs each of which is *necessary*: without it TLC finds the property violated (section 7).  With an empty set nothing is
  assumed, and every pair that is not listed may cross.
* The booleans `BackDated`, `EditedInRun`, `LateInMonth` and the set `OddSplits` add one operation or condition of the
  code that breaks a property by itself; the run leaves it out, section 7 says what happens with it.
* Mutants of a definition stand directly before it, with a comment.
* Time: expiry dates, the rest of a term and the backoff are flags that an
  action of time sets (`HoldEnds`, `left`, `BackoffEnds`); slots, months, due dates and
  price rules have a small range of times; calendars are parameters with months of two or three days.
* Actors: the checks of role, mall and assignee are left out: they restrict who may do
  something, and some role may do everything modelled.

### State and actions by module

**BookingQueue.** `booking` has the rows (status, unit, party, priority,
`isActive`, price review, overdue, proposal), `unitStatus` the units, `live`
the units with a contract.  `Promotions` is `promoteNextInQueue`, `Allowed`
is `transition()`.  `UpdateRead`/`Update` ... `SoftDelete` are the
endpoints, `ExpireRead`/`Expire` one booking of the hourly job,
`ContractFromProposal`, `CreateContract`, `ContractExpires`, `CompleteTermination`
and `SetStatus` the writes of other services.  A deletion (`SoftDelete`) leaves the unit as it
is, also that of the last booking that waited: `EmptiedIsFreed`, which says
that a queue is not emptied without its unit being freed, excepts it by name (section 7).

**ContractLifecycle.** `status`, `place`, `left` (the rest of the term), `billed`
of a contract; `termination` and `returned` of its termination; `unit`.
`ChangeStatus` is the transaction of the status endpoint, shared with
the expiry job; `Initiate`, `Checklist`, `Complete`, `Cancel` are the
termination endpoints.  The refinement mapping (`phase`) takes a status to a
phase of `LeaseBook`: pre-activation to `draft`, ACTIVE, EXPIRING, TERMINATING to
`lease`, EXPIRED, TERMINATED to `over`.

**ProposalPipeline.** `proposal`, `terms`, `target`, `tenant`; the
approval policy is reduced to the number of steps it selects, which is what
`terms` says.  `Submit`, `ApproveStep`, `RejectStep` are Serializable
transactions; `RejectRead`, `Reject`, `FreeUnit` the three commits of the
rejection endpoint; `Convert`, `AssignTenant`, `Create`/`CreateFound` the
conversion, `CreateDirectly` `ContractsService.create()` with a `proposalId`.
`DeliverCompleted`, `Handle`, `Create`, `Build` are one delivery of the
completed event.  A unit has any status when its proposal is drafted, as `create()` looks at none.

The listeners are methods with `@OnEvent`, none of which sets `suppressErrors: false`.  The event
module of the application (`@nestjs/event-emitter` ^3.1.0, `package.json:37`) by default catches
what such a method throws and logs it: `emitAsync` resolves, and `outbox.service.ts:55-63`
writes PROCESSED.  So a listener that throws (`DeliveryFails`, `Fail`: a check
refused, a query failed) ends the event; `lost` remembers
of which proposals the verdict was thrown away like this.  Only a crash or an update that fails (`Abandon`,
`Settled`) makes the outbox deliver again.  (`outbox.service.spec.ts:80` shows the FAILED
branch with an `emitAsync` that rejects, which the emitter of the application does not do.)

**SchedulerLock and Outbox.** `holder` is the Redis key, `lease` says whether a run
is still within the time to live, `phase` where the run is, `ledger` its
`JobExecution` row.  `Emit` calls the listeners of the first event of the batch and waits for
them; `answers` remembers how they ended, which the batch does not learn (see above).
`MarkProcessed` is the update that follows, `MarkFailed` what happens when that update throws.  `RedisEnabled = FALSE` is a
deployment without Redis, where jobs run without a lock; `MayOverrun` lets
the lock expire under a run.

**SlotCalendar.** `from` and `to` are the start of the installation and the end of
the dismantling, the interval `findBookingConflict` compares.  `ref` is the number
in the booking reference, `NextRef` the count it is made from.  The confirmation of a
cancelled booking is the operation `revive`.

**InvoiceLedger.** One `invoice` with its `lines`, `payments` and `adjustments`, the row
it mirrors (`source`) and where today is seen from the due date (`due`).  The invoice of a parking statement starts as a DRAFT with the
payment that was already made on the statement (`billing.service.ts:531-544`), every other one without money.  Each endpoint is `XRead`
(`findOneInvoice` and the checks) and its transaction; `IssueInvoice` and
`WriteLine` commit before the totals are recomputed, and the recomputation
(`IssueRecompute`, `RecalculateTotals`) is another step.  `Recompute` is
`recomputeInvoiceStatusFromPayments`, with the clamp of the balance.  `MarkOverdue` is
the daily job, `DunningRead` to `DunningMark` the reminders.

**BillingSchedule.** `terms` are the columns of the contract a schedule is made
from, `entries` its rows by first month, `drawn` the invoices.  A rebuild is
`BuildRead`, one `BuildUpsert` for each period and `BuildPrune`; the monthly job continues
with `SelectDue` and one `GenerateInvoice` at a time; `AmendRead`/`Amend` are an
amendment, `BillRead`/`Bill` an invoice asked for by a clerk.  `Fail` ends any of them half way.

**BillingPeriods.** `generateBillingPeriods()` as a loop: `GeneratePeriod`
appends one period to `cut`, with the days of each month that are charged, and at
which escalation step.  `PeriodsChargeTheLease` compares the result with a definition that
does not cut: day by day over the lease.

**Receivables.** One receivable of a `kind` with its row (`owed`) and the invoices
made of it (`bills`).  `ChangesOf` lists the endpoints of each kind; what they check is
`Check`, what they write `Written`.  `TransferRead`/`Transfer` are `createInvoiceFromPending()`,
`OwnTransfer` the transfer of the module of service contracts; `Numbered` is the unique index on invoice numbers.

**UnitMerge.** `unit` has status, `isActive` and parts of each row.
`MergeRead`/`MergeWrite`, `SplitRead`/`SplitWrite`, `DeleteUnit` are the endpoints,
`LeaseRead`/`LeaseWrite` any transition of a leasing module that the table of `UnitStatus` allows.

**PatrolShift.** `shift`, the checks of its points (`tick`), and what each device is at (`visit`).
`CheckWrite` is the Serializable transaction of a check, which makes the work order; the
other endpoints are a read and a plain update (`WriteShift`).  `complete()` asks for the required checks
(`RequiredChecked`) and for the photos (`PhotosTaken`).  `MonitorRead` is the overdue job.

**WorkTemplates.** `template` rows, the `orders` of each, `run` of the job: `StartRun`
reads what is due, `PickTemplate`, `MakeOrder` (a duplicate is skipped), `MoveNext`
write one row each, `EndRun` ends it anywhere.  `NextRun` is the arithmetic of
dates, with the overflow of `setMonth`.

**FitoutSubmittals.** `revision` and `flow` (the approval workflows).  `SubmitRead`/`SubmitWrite`,
`ResubmitRead`/`ResubmitWrite`, `PublishRead`/`PublishWrite` are the endpoints, `UploadLock`/`UploadCommit` an
upload under `FOR UPDATE`, `Decide` a decision, `Deliver` the handler of its event, once, several times or never.

**FitoutStages.** The configured stages (`order`, `active`), one `project` with its `milestone`s, its
`contract` and the unit (`space`).  `AdvanceWrite` closes the milestone, opens the
next and moves the unit if the stage has a `Trigger`; `EndLease` and `NextLease` are the contract's end and its unit let again.

**SapGateway.** One document: its version (`content`), the row of the log (`sapLog`), what SAP has (`posted`, external), the
breaker and the token of the process, and what each call is doing
(`sending`).  `Sync`, `Retry` begin a call, `Enter` passes the breaker, `Answered`, `Refused`, `Unanswered` are
what may come of an attempt, `Record` writes the log; `Restart` ends all calls and sets whether the interface is `enabled`.

**MaintenancePlan.** `dueDate` and `interval` of a schedule, its `executions` by
due date.  `ReadSchedule` finds the earliest open execution, `MakeExecution` makes one for the due date, `StartWork` and
`CompleteWork` write; `Reschedule` is the edit.

**StockLedger.** `stock`, `inUse`, `journal` of items; `ReadStock` opens a transaction, `MoveStock` commits it
unless the row was `Changed`, as PostgreSQL does at Serializable.

**ParkingRates.** `span` of the contract, its `rates`, the `statements` by month.
`RateRead`/`RateWrite` are `adjustQuantity`, `StatementRead`/`StatementWrite` a statement (`Touching` and `Latest` are
`previewStatement`; of two rates that begin together `find()` may take either), `Redate` the edit of the dates.

**PriceBook.** `rules` of a scope and the `date`.  `RuleRead`/`RuleWrite` create, `UpdateRead` with
`EditWrite` (in place) or `VersionWrite` (a dated version) change, `Deactivate` deletes.

**DepartmentTree.** `parent` of each department that was `founded`, department of each `member`.  `Place`, one
`Climb` for each ancestor that `validateParent` reads, and `Put` are create and update; `Remove` clears the users' departments.

**UserAccounts.** Four sets of accounts (`made`, `usable`, `deleted`, `admins`).  `TakeRead`,
`RemoveRead` count the other administrators, `GiveRead` has nothing to count, `ChangeWrite` writes what was asked.

## 3. Runs

Passing runs (all invariants and properties hold on every reachable state):

| Run | Question | Answer |
|---|---|---|
| `booking_serial` | one request at a time, two units, reordering, moves, prices to review, contracts, the manual status endpoint | whatever five services do to the status of a unit, one with a contract in force is not handed out |
| `booking_core` | two requests interleaved (one may be the hourly job), the operations that fill and empty a queue | `DeskIsKept`: who waits for a unit waits for a reserved one, and a queue is not emptied without its unit being freed (a deletion excepted); the bookings are the `UnitDesk` that proposals and contracts expect: only a contract takes a unit from those who wait, and no late request touches it then |
| `outbox` | overlapping runs, crashes, expiring locks, failing updates | one holder within its lease; what is PROCESSED was delivered; every event is, once failures end |
| `progress` | jobs and deliveries that fail, crash and are repeated, until that ends | every month that is owed is on an invoice; rejections arrive and approvals become contracts, unless a listener threw |
| `contract_serial` | one request at a time, two contracts, two units, without cancelled terminations | implements `LeaseBook`; the contract of a completed termination is TERMINATED |
| `contract_concurrent` | every endpoint and the daily job interleaved, on one contract | in force implies billed; contracts past their date leave force |
| `pipeline_all` | all endpoints interleaved, two proposals, one unit | one contract a unit |
| `pipeline_concurrent` | three requests and deliveries, two approval steps, no edits, no direct contracts | verdict = steps = event; contracts are approved and hold their unit |
| `back_office` | seventeen components around leasing, two or three requests each | 22 properties, below |

`booking_two_active`, `outbox_swallowed` and `pipeline_rejected_wins` are runs that TLC must find violated:
each shows a sentence of the code or the documentation that the code does not keep.

The properties of `back_office`, with the pairs of operations (section 2) kept apart for
them.  Everything else crosses.

| Property | Says | Pairs kept apart |
|---|---|---|
| `NoOverlap` | no time of a slot is given away twice | |
| `MoneyAddsUp` | the status of an invoice never contradicts its payments, but for money carried over from a statement; nothing is booked on a DRAFT that is not of a statement; the running amounts are those of the adjustments | issue and dunning with pay, adjust, cancel; issue with reverse; lines with reverse and cancel; cancel with itself |
| `BookingFits` | no payment over the balance, no refund over what was paid | pay, adjust, cancel with one another and themselves; reverse with adjust |
| `VoidIsVoid` | void is final, nothing is in force on a void invoice | void with pay, adjust, issue, dunning |
| `IssuedTotalIsOfLines` | the total of an issued invoice is that of its lines, beside edits that cross one another, the recomputation after each, and payments | issue with line |
| `MonthsAreBilled` | a month is billed once, and as its entry says | amend with bill |
| `EndedIsNotRebuilt` | the schedule of an ended contract is left alone | amend with run and with build |
| `PeriodsChargeTheLease` | periods have neither gaps nor overlaps and charge each day at its step | |
| `TransferIsExact` | a receivable becomes one invoice, of what is owed, and stays it where no edit crosses the transfer | transfer with the edits and with the second transfer endpoint, which is apart from itself and from deletions |
| `PartsLetOnce` | no floor space is on the market twice | merge, split with one another, themselves and leasing |
| `ShiftIsReported` | a completed shift has every required check; one work order for an abnormal point | |
| `NoRunIsSkipped` | each date of a template has its order, wherever the job stopped | |
| `RevisionsAreReviewed` | a revision stands as approved, published, rejected or set aside only if a workflow of its own said so; an upload ends before a verdict is delivered | |
| `StagesAgree` | one open milestone, at the present, active stage | deactivate with create and advance |
| `LogShowsTheDelivery` | SUCCESS stands for nothing that SAP did not do, with lost answers, restarts, retries, edits and the interface switched off | |
| `OneCycleIsOpen` | one open maintenance execution, and the next can be made | start and complete with one another and themselves |
| `StockIsTheJournal` | each movement starts from what the one before left | |
| `RatesHold` | no day from the first rate on is without one; a month is charged at a rate that had begun by its end | |
| `OnePriceADay` | no two active rules cover one day | create and update with one another and themselves |
| `TreeHolds` | no circle of departments, no member of a department that is gone | move with itself; assign with remove |
| `AccountsHold` | an active administrator remains; the deleted are not active | lock, demote, remove with one another and themselves; remove with unlock |

`RowsAreTyped` is the type invariant of whichever of the seventeen moves.

Every property of a passing run has a mutant (`PROJECT.json`, "mutants"): a
plausible bug in a modelled definition under which the same run fails.  Properties that join
several parts have a mutant for each part.

Where a property is false as soon as two requests cross, the pair is not there because the code
keeps them apart: nothing does.  What the property then says is that everything else leaves it true, and
section 7 says what the crossing does.  Eight properties need no pair, and one (`MonthsAreBilled`) only that of an amendment.

The other configurations of the directory are run by hand in the same way and end in a
counterexample; section 7 lists them.

`CHECK_DEADLOCK FALSE` stands where the system really stops: rows
are finite in number, and when all are in a final state nothing is left to do.  `outbox`
checks for deadlock.

## 4. Bounds

| Constant | Values | Why enough |
|---|---|---|
| `Clients` and the requests of the other modules (`Callers`, `Askers`, `Clerks`, ...) | 1 where a property needs requests not to interleave; 2 or 3 elsewhere | the races in this code are between a read and a write of one request and one commit of another; `pipeline_concurrent` has three since a delivery, a rejection and a conversion meet, patrol since two devices meet the job |
| `Bookings` | 2 (3 in `booking_two_active`) | a holder and one who waits; order in the queue needs three; two slot bookings overlap or do not |
| `Units` | 1 or 2 | two where bookings or drafts move between units |
| `Parties` | as many as bookings | a party may have one queued booking per unit |
| `MaxPriority` | number of bookings | priorities are positions in the queue |
| `Contracts`, `Proposals` | 1 or 2 | competition for a unit is between two |
| `MaxSteps` | 1, and 2 in `pipeline_concurrent` | approvers that decide out of order need two steps; other races do not look at the number |
| `Runs`, `Events`, `Limit` | 2, 2, 2 | overlap of two runs; a batch smaller than, and as large as, the backlog |
| `Answers` | {"threw"} in `outbox`, both in `outbox_swallowed` | the batch treats all answers alike, and one that threw is the one in doubt |
| `Horizon` | 3 | intervals that touch, meet, contain one another |
| `Amounts`, `MaxPayments`, `MaxAdjustments` | {1, 2}, 2, 1 on an invoice of 2 | a part, the whole, two parts, one too much |
| `LastMonth`, `Cycles`, `MaxAmendments`, `MaxFailures` | 3, {2}, 1, 1 | a full and a partial period, one of which can be invoiced as the other is rebuilt |
| `LeaseCalendar`, `CycleLengths`, `MonthsPerStep` | months of 3, 2, 3, 3, 2 days; 1, 3, 4; 2 | short months after long ones, every first and last day, two escalation steps, a cycle longer than a step |
| `Parts`, `Combined` | 3, 2 | two merges that want one common part, a merge of a merged unit |
| `Points`, `Templates`, `WorkCalendar`, `Week` | 2, 2, months of 3, 2, 3 days, 2 | a point that is required and one that is not; a run that stops between two templates; a month that lacks a day (an edit moves a template to a day of this calendar only) |
| `MaxRevisions`, `MaxFlows`, `MaxUploads` | 3, 3, 2 | a revision resubmitted twice; two submissions of one revision, each with its workflow |
| `Stages`, `Places` | 3, 3 | stages behind, at, and ahead of a project, with shared places |
| `MaxContent`, `MaxAttempts`, `Threshold`, `MaxRestarts` | 3, 2, 2, 2 (the code: 3 attempts, threshold 5) | a first and a last attempt; a breaker that opens in one call or across two |
| `LastDue`, `Intervals` | 5, {1, 2} | a due date passed over, met again, and moved |
| `MaxMovements`, `Quantities` | 3, {1, 2} | a movement in, one out, one that crosses them |
| `LastPeriod`, `DaysPerMonth`, `MaxRates` | 2, 2, 2 | a rate that changes in a month with a statement, before it and after it |
| `LastDate`, `MaxRules` | 2, 3 | today, tomorrow and no end; a rule, its version and one beside them |
| `Departments`, `Accounts` | 3, 3 | a circle of three; two administrators who remove each other, and a third |

Symmetry is over clients, runs and rows, and in the booking runs over units and parties, in
safety runs only.  Every action treats these values alike; the `CHOOSE` in `Init` only fills
the columns of rows that do not exist yet.  No run with a liveness property uses symmetry.

The core operations of `booking_core` do not move a booking, and `booking_serial`
has no two requests at once, since otherwise the properties are false (section 7).  Between them the two
runs have every operation: extension and deletion are in the first, reordering, price review, moves and
the manual status in the second.

## 5. Fairness

* `Outbox!Fairness`: the job is scheduled every ten seconds (strong fairness of
  `StartBatch`, since the lock may be taken at any one time), started code
  runs on (weak fairness), time passes (`ExpireLock`, `BackoffEnds`), the update of a row
  does not fail each time it is tried (strong fairness of `MarkProcessed`), and crashes do not go on for
  ever.  Of listeners nothing is assumed but that they end: how they end makes no difference.
  The query takes the oldest events first, so that no event is passed over for ever.
* `BillingFairness`: the monthly job is started again and again and goes on
  (weak fairness of its reads and of its steps).  Failures are bounded by
  `MaxFailures`: a job that fails every month bills nothing.
* `ContractLifecycle!FairSpec`: requests end (weakly fair), the daily job looks at each
  contract again and again, and its write does not lose a
  conflict each time (strong fairness: other requests may interfere at any one time).
* `ProposalPipeline!Fairness`: the outbox comes back to an event that is PENDING, and crashes do not interrupt
  every delivery at the same place (strong fairness of its steps).  A check that refuses the contract
  throws (`Refused`), and then the event is lost: this is an outcome, not a retry.
* `BookingQueue!FairSpec` is used by `BookingStuckOverdue.cfg`: the hourly job
  visits every overdue booking, and even then two stay.

Nothing is assumed of users: no endpoint is fair.

## 6. Proofs

Each theorem is proved for all values of the constants, from the
named assumptions of the module (finite bookings, nonempty sets of units, positive bounds).  The `ASSUME`s are evaluated by TLC in every run.

| Theorem | Under | Says |
|---|---|---|
| `BookingQueueProofs!TypeCorrect` | | types |
| `...!QueuesAreReserved`, `EmptyQueuesFreeTheUnit` | `CoreOperations` | a unit somebody waits for is BOOKING; the step that empties a queue frees the unit, gives it a contract, or is a conversion or a deletion |
| `...!BookingsServeTheDesk` | `CoreOperations` | both, and the refinement of `UnitDesk` |
| `...!ContractedUnitIsHeld` | `StatusIsSetAlone`: the manual status endpoint unused, or one client | the unit of a live contract is not on the market |
| `OutboxProofs!LockIsExclusive` | | one run within its lease |
| `...!RunsAreSerial`, `ProcessedStays` | `InTime` | no overlap; PROCESSED is final |
| `...!TypeCorrect`, `ProcessedMeansCalled` | | types; PROCESSED was delivered to the end |
| `ContractProofs!TypeCorrect`, `InForceIsBilled` | | types; a contract in force has a schedule |
| `...!OneMilestoneIsOpen` | | the open milestone is that of the present stage |
| `...!StagesAlwaysAgree` | `DeactivationIsApart` | ... and the present stage is active |
| `ProposalProofs!TypeCorrect`, `VerdictsAreSound`, `UnitsAreContractedOnce` | | types; verdict = steps = event; one contract a unit |
| `...!ContractsHoldTheirUnits` | no direct contracts | the unit of a contract is committed, its queue empty |
| `...!ContractsAreApproved` | no edits, no direct contracts | a contract has all the approvals of its terms |
| `CalendarProofs!TypeCorrect` | | types |
| `...!AllocationsAreDisjoint`, `DeletionIsOfCancelled` | no revival | no overlap; only cancelled bookings are deleted |
| `...!ReferencesNeverBlock` | no deletion | the next reference is free |
| `...!EveryLeaseIsCharged` | | the periods of a lease charge its months, each once |
| `...!MonthsAreBilledOnce` | `ScheduleIsApart`, `PeriodsStay` | a month is on one invoice, as its entry says |
| `...!EndedScheduleStays` | `ScheduleIsApart` | an ended schedule is not rebuilt |
| `...!EveryDayIsRated` | | no day without a rate; no month at a rate of later months |
| `...!EveryRunHasItsOrder` | `RunsAreApart`: no edit within a run, no monthly template told a day that some month lacks | a template's dates each have their work order |
| `InvoiceProofs!DraftsStayUnbooked` | | an issued invoice is never a DRAFT again, and only one of a parking statement has money before it is issued |
| `...!NumbersBillOnce` | | a receivable has one invoice with its number, and, but for payments of service contracts, one invoice at all |
| `OperationsProofs!PatrolReportsOnce`, `ShiftsAreReported` | | an abnormal point has one work order; a completed shift has every required check |
| `...!JournalExplainsStock` | | the journal of an item explains its stock |
| `...!SuccessIsDelivered` | | SUCCESS in the log is of what SAP did |
| `...!RevisionsFollowReviews` | | the status of a revision is that of a review of its own; uploads end before a verdict is delivered |
| `...!EveryRowIsTyped` | | types of all seventeen components of `MCBackOffice`, whatever crosses |

An empty second column means that nothing is assumed of what may be under way together.  The assumptions
that are left are of three kinds.  Some leave out an operation that breaks the property by itself (`CoreOperations`, no revival, no deletion,
no edits, no direct contracts, `PeriodsStay`, `RunsAreApart`); one is a choice of deployment (`InTime`); and `StatusIsSetAlone`,
`DeactivationIsApart` and `ScheduleIsApart` name the crossings that do break it, of the manual status with a contract, of a
deactivation, of an amendment.  Section 7 has the counterexample of each.  Where a property says no more than its pairs
leave of it (most of the invoices' money, merges, prices, maintenance, departments, accounts), no theorem is stated:
it would prove the pairs and not the code.

The arguments:

* **Queues.** `QueuedUnitIsReserved` alone is not inductive: a request that read
  the unit of a booking frees *that* unit later.  `IInv` adds `RequestsAgree`:
  a request in flight remembers the unit its booking still has, which the core operations never change; and
  `PromotionsKeepReservation` says what `promoteNextInQueue` leaves.  Moving a booking breaks
  `RequestsAgree`, and with it `QueuedUnitNotVacant` (section 7).  `EmptyingStep`: whichever step takes the last booking
  out of a queue, its promotion finds nobody left and frees the unit, unless the step is the contract, the conversion or the deletion that the property names.
* **Desk.** The mapping reads `queued` off the rows.  A unit with a queue is BOOKING (`IInv`), and so without
  a contract (`LiveInv`, the invariant of `ContractedUnitIsHeld`); a step that fills an empty queue passes
  `transition()`, which finds no contract either.  So each step of `BookingQueue` is
  a `Serve`, a `Contract` or an `End` of `UnitDesk`, or changes nothing that it shows.
* **Lock.** `BusyHolds`: without overruns, a run that is not idle holds the key.  For the outbox
  `BatchIsOpen` adds that what a batch still has is not PROCESSED.
  `ProcessedMeansCalled` needs neither, only that a run which has an emission behind it emitted the oldest event
  of its batch, and that this is the one it marks.
* **Live contracts.** Every write to a unit but that of the manual endpoint comes with the check of `transition()`, which does not release a unit
  with a live contract, in one transaction.  `setStatus` writes what it read before; the two
  cases of `StatusIsSetAlone` are the two ways in which that is harmless.
* **Contracts.** `InForceIsBilled` needs that a request that read a
  status in force read it of a billed contract (`BilledInv`): this is why no
  interleaving of unchecked writes can produce an unbilled one.
* **Approvals.** `WorkflowReflects` says what the status of a workflow says of
  its steps, `StepsInOrder` that they are used and decided in order; a workflow in progress
  always has a PENDING step, so the last approval is recognised.
  `EventsOK` adds that a delivery in flight has an event.
* **Contracts of proposals.** `PipelineOK`: a proposal is a draft exactly
  while it has no workflow, the workflow covers the terms, and what requests
  in flight have read is still so (`RequestOK`); terms only change in drafts.
  With `update` in use `RequestOK` fails, with `direct` `ContractOK` does (section 7).
* **Units.** `UnitsAreContractedOnce` rests on `DraftIsAlone`: the two
  transactions that draft a contract look for live contracts of the unit
  themselves.  For `ContractsHoldTheirUnits` each step that frees a unit or books it is shown to find
  no live contract there.
* **Slots.** `Conflict` at creation and update is the whole argument; `DeletingIsCancelled`
  and `RefsAreCounted` (with the finiteness of the rows) give the other two.
* **Schedules.** The entries of a schedule are the periods of its terms and those already invoiced (`ScheduleHolds`), so a
  rebuild without an amendment changes nothing; their first months lie a cycle apart, so no two share a month.
* **Periods.** Up to the cursor the months of the lease are charged, and the last period ends where the month before the
  cursor does, or the lease.  The days of a month that belong to the lease are an interval, and the months before one
  are counted from the first.
* **Rates.** An adjustment ends one rate and begins another on the same day, so no day is lost, whichever rate it
  read and whoever ended that before; a statement carries the fee of a rate that touches its month, and no step moves the
  start of a rate.
* **Work orders.** What a run has read of the templates it has not yet reached is what they still are, and the one it is at
  has been served up to its date.  The next date of a monthly template is in the next month because each month has the day it was told
  (`LateInMonth = FALSE`).
* **Drafts.** Four writers of the status do not look at what it is.  `DraftInv`: only the issue makes an invoice ISSUED, and a
  recomputation says DRAFT of none that was issued; an issue that still has to recompute has issued it.
  An invoice of another source than a statement, before it is issued, is a DRAFT or void, and no call that books
  or reminds can begin on it (`Unbooked`).
* **Receivables.** `OnceInv`: the number of a transfer is that of the source, so the unique index refuses a second; only the
  transfer of the module of service contracts numbers by the clock.
* **Patrol.** `RowsInv` ties the work orders of a check to its result, for which the second read
  inside the transaction is needed.  `ResultsStay`: no step takes a result back, so what `complete()` has read of the required
  points still holds when it writes (`CheckedInv`), whatever starts, cancels or checks beside it.
* **Stock.** `StockInv`: a transaction that is not void has read the stock as it is, because a commit and an
  edit void every other that read the row; so what it writes continues the journal.
* **SAP.** `CallHolds`: a call carries some version of the document, and says SUCCESS only when SAP did the work; SAP does not undo it,
  so this survives lost answers, restarts, other calls and edits.
* **Stages.** One open milestone needs no assumption, because the transaction looks at the stage
  of the project again; `ActiveInv` needs one, because it does not look at the stages.
* **Submittals.** No workflow loses its verdict and none changes its revision, so what a resubmission or a publication has read of its
  revision (`ReviewHolds`) stays true of some workflow; and while an upload holds the row no step writes its status.
* **Types.** The type of a row does not follow from the types of rows alone: what a request
  has read stays within bounds only if what it will write is a row again, so each `...Types` lemma has an
  invariant for the rows and for the requests in flight (`StageTyped`, `TemplatesTyped`, `BilledPlans` ...), without any pair
  kept apart.  A step of the office is a step of one component and no step of the others (`OfficeMoves`), so the types hold together.

`DataLemmas` stands in for induction: `StartOf`, `LastDay` and the sums over rows are recursive functions, and
what is needed of them is shown by taking the least number, or the least finite subset, for which it fails.

Only model-checked:

* liveness (`EventuallyProcessed`, `OwedMonthIsBilled`, `ExpiredLeavesForce`,
  `RejectionArrives`, `ApprovalBecomesContract`), since fairness and ENABLED are out of the prover's reach;
* the refinement of `LeaseBook` (`BookSpec`) and `CompletedMeansTerminated`, which hold of requests one at a time without
  cancelled terminations only;
* `MoneyAddsUp`, `BookingFits`, `VoidIsVoid`, `IssuedTotalIsOfLines`, `TransferIsExact`, `PartsLetOnce`, `OneCycleIsOpen`,
  `OnePriceADay`, `TreeHolds` and `AccountsHold`, which hold under the pairs of section 3 only;
* the properties that three runs expect to be violated, of course.

## 7. What the runs found

### The leasing chain

Each row is a counterexample.  The first column of sources is the code,
the second what a comment, a message or a document says of it.  The first three are runs of
`PROJECT.json` with their findings there; the others are run by hand
(`tlc -config BookingResurrected.cfg MCBookingQueue.tla`, or with the constants changed as stated).

| Configuration | Property | What happens | Code | Says otherwise |
|---|---|---|---|---|
| `BookingTwoActive` | `AtMostOneActive` | cancelling the second of three promotes the third beside the first | `booking.service.ts:958` | `booking.service.ts:956` |
| `OutboxSwallowed` | `ProcessedWasHandled` | a listener throws, and its event is PROCESSED all the same: the emitter of `@nestjs/event-emitter` has caught the error | `fitout.service.ts:170` | `fitout.service.ts:165-166`: "marks the event FAILED, and retries" |
| `PipelineRejectedWins` | `RejectedIsFinal` | a rejected proposal is approved by its workflow | `proposals.service.ts:848` | `03-CONTRACT-LIFECYCLE-MAP.md:62` |
| `BookingResurrected` | `TerminalStatusesAreFinal` | a cancellation that read before a conversion overwrites it | `booking.service.ts:941` | `07-CRM-BOOKING-CONCURRENCY.md:10` |
| `BookingStuckOverdue` | `OverdueLeavesQueue` | the job promotes beside an ACTIVE booking; then neither expires | `booking.service.ts:1142` | `GAP_ANALYSIS_MATBANG_QUYTRINH.md:90` |
| `BookingResurrected`, one client, `Operations = {"create", "cancel", "createContract", "contractFromProposal"}` | `NoQueueOnContractedUnit` | a contract created directly leaves the queue waiting | `contracts.service.ts:325` | `proposals.service.ts:744` |
| `BookingResurrected`, `Reviews = {"NONE", "PENDING"}`, `Operations = {"create", "update", "price", "convert"}` | `PriceReviewGatesConversion` | a review requested during a conversion does not stop it | `booking.service.ts:976` | `04-STATE-MACHINES.md:16` |
| `BookingResurrected`, two bookings, units, parties, `Operations = {"create", "update", "reinstate", "cancel"}` | `QueuedUnitNotVacant` | a reinstatement puts a moved booking in front of a VACANT unit | `booking.service.ts:888` | `unit-status.service.ts:130` |
| `OutboxOverrun` | `RunsNeverOverlap` | a batch over 30 s overlaps the next one: the lock is never renewed | `scheduler-lock.service.ts:49` | `10-RETRY-IDEMPOTENCY-MODEL.md:13` |
| `ContractTwoLive` | `OneLiveContractPerUnit` | the status endpoint terminates a contract, its unit is let again, cancelling its termination revives it | `contract-termination.service.ts:157` | `contracts.service.ts:248`, `06-BUSINESS-INVARIANTS.md:19` |
| `ContractStaleStatus` | `StatusFollowsTable` | two status changes checked against one status are both written | `contracts.service.ts:449` | `contracts.service.ts:442` |
| `ContractStaleStatus`, two units, `Operations = {"create", "moveUnit", "update", "status"}` | `ActivatedStaysPut` | an edit checked on a draft moves an ACTIVE contract | `contracts.service.ts:394` | `contracts.service.ts:43` |
| `ContractCancelledCompletes` | `OnlyTerminatingEnds` | a cancelled termination with a finished checklist can be completed | `contract-termination.service.ts:130` | `03-CONTRACT-LIFECYCLE-MAP.md:76` |
| `ContractCancelledCompletes` without "cancel" | `TerminatedIsCompleted` | the status endpoint terminates without the termination | `contracts.service.ts:30` | `contracts.service.ts:19` |
| `PipelineRedelivery` | `ConvertedIsFinal` | a redelivery takes CONVERTED back to APPROVED | `proposals.service.ts:545` | `03-CONTRACT-LIFECYCLE-MAP.md:62` |
| `PipelineRedelivery`, two clients, `MaxSteps = 2`, `Operations = {"update"}` | `OnlyDraftIsEdited` | an edit checked on a draft is written after the submission | `proposals.service.ts:294` | `proposals.service.ts:275` |
| `PipelineRedelivery`, `Operations = {"direct"}` | `ContractIsApproved` | a contract for a proposal that was not approved | `contracts.service.ts:275` | `proposals.service.ts:662` |
| `PipelineRedelivery`, `SPECIFICATION FairSpec` | `ContractIsBilled` | the contract of an approval is a DRAFT, for which the schedule is refused: the delivery that made it throws there, and is not repeated | `proposals.service.ts:610` | `proposals.service.ts:538` |

Three things the models of the chain show without contradicting a property they check:

* Deleting an ACTIVE booking (`booking.service.ts:1357-1372`) that nobody waits behind leaves its unit in BOOKING, reserved for nobody:
  a deletion is excepted from `EmptiedIsFreed`.  A reinstatement or an extension that crosses it writes to the deleted row.
* A listener that throws loses its event for good (`lost`).  A rejection may so never reach its proposal, and an approval
  never become a contract, without a FAILED row that an operator could find.
* A proposal may be drafted for a unit of any status.  From VACANT the move to CONTRACTED is refused, so
  the approval of such a proposal is lost in the same way unless somebody books or negotiates the unit before.

Two statements of documents hold: `contract_serial` without "update" keeps `LiveContractHoldsUnit` (drafts that
stay keep their unit committed), and `docs/program/03-CONTRACT-LIFECYCLE-MAP.md` (lines 196 to 225) claims
that no contract is half active: `ActivatedIsBilled`, checked and proved.

### Around leasing

With `BackOffice.cfg` and one change each (a pair taken out of a `...Pairs` of `MCBackOffice`, or a constant):

| Change | Property | What happens | Code | Says otherwise |
|---|---|---|---|---|
| "revive" added to `Operations` | `NoOverlap` | a cancelled slot booking is confirmed over a new one | `slots.service.ts:395` | `GOLDEN-PROGRAM-TRACKER.md:343` |
| the same, with "delete" | `OnlyCancelledIsDeleted` | a booking confirmed between check and deletion is deleted | `slots.service.ts:658` | `slots.service.ts:656` |
| "delete" | `BookingNeverBlocked` | after a deletion the next reference is taken and creations fail | `slots.service.ts:346` | the retry of `P2002` at `slots.service.ts:217` |
| {dunning, pay} crosses | `MoneyAddsUp` | the reminder job writes OVERDUE over PAID, for good | `ar-dunning.service.ts:130` | `04-BILLING-CONCURRENCY.md:14`: at worst a stale reminder |
| {pay, adjust} crosses | `BookingFits` | a payment and a credit note, each of the whole balance | `billing.service.ts:1160` | `04-BILLING-CONCURRENCY.md:13` |
| {issue, reverse} crosses | `MoneyAddsUp` | a statement's invoice is issued while its payment is reversed: the recomputation after the issue writes the status of the money it read before | `billing.service.ts:999` | |
| {reverse, line} or {cancel, line} crosses | `MoneyAddsUp` | an edit of the lines writes its total over an invoice that became PAID at total 0 meanwhile | `billing.service.ts:1103` | |
| {pay, void} crosses | `VoidIsVoid` | a payment on an invoice that is CANCELLED | `billing.service.ts:1326` | `02-E2E-WORKFLOW.md:505` |
| {amend, run} crosses, or with a third biller {amend, build} | `EndedIsNotRebuilt` | a rebuild that passed its check writes after the contract ended | `billing-schedule.service.ts:71` | `04-BILLING-CONCURRENCY.md:15` |
| `Amendable` with "cycle"; in `Progress.cfg` with "free" | `MonthsAreBilled`; `OwedMonthIsBilled` | a new cycle bills a month again; a month that was free stays SKIPPED | `billing-schedule.service.ts:71` | |
| `Changes` with "reprice", "updateSlot" or "cancelSlot" | `TransferIsExact` | the receivable changes under its invoice | `service-contracts.service.ts`, `slots.service.ts` | |
| `OddSplits = {"merged"}`, `{"retired"}` or `{"wanted"}` | `PartsLetOnce` | a unit that is itself merged away, retired or reserved is split | `spaces.service.ts:1718` | |
| `LateInMonth = TRUE` or `EditedInRun = TRUE` | `NoRunIsSkipped` | the 31st of January becomes March; the job moves a date that was edited under it | `work-orders.service.ts:248` | |
| `BackDated = TRUE` | `OneCycleIsOpen` | a due date put back onto a completed execution refuses every start from then on | `tickets.service.ts:471` | |
| a pair of `AccountPairs` crosses | `AccountsHold` | two administrators remove each other | `users.service.ts:351` | `users.service.ts:355` |
| any other pair crosses | the property of its row in section 3 | check, then write | | |

Each pair was taken out by itself.  Six matter only in a larger instance: {cancel}, {adjust} and {adjust, cancel} with
`MaxAdjustments = 2`, {amend, build} and {amend, bill} with a third biller, {split, lease} with "NEGOTIATING" and "CONTRACTED" among the `Lettings`.

The code also does what follows.  No property of a run says otherwise, since it would be false; the models have every one of these steps.

* Invoices: one without lines is issued with total 0.  A crash between the issue of a statement's invoice and its recomputation
  leaves it ISSUED, later OVERDUE, over the money carried to it.  Its DRAFT becomes PAID when all lines are removed
  and its payment is reversed, and can then be adjusted before it was issued.
  `markOverdue` does not tell the service contract; a voided invoice's period is not billed again.
* Parking: two adjustments that cross leave two rates open.  A month that has a statement keeps it when its rate is adjusted afterwards
  or beside it (`parking.service.ts:228`), and a month is charged wholly at its latest rate.  A contract whose start is moved before its
  first rate (`parking.service.ts:173`) has months without one: the statement throws, and the daily job stops there for all later contracts.
* Fit-out submittals: a verdict delivered again takes a revision out of OBSOLETED or PUBLISHED (`fitout-submittal.service.ts:319`); two
  resubmissions that cross set one revision aside and make two; two submissions that cross send one revision to two workflows, and the
  second puts an approved revision back into review.  A workflow can be decided during an upload, since the lock is on the revision only, which is not what
  the comment at `fitout-submittal.service.ts:262` says; `RevisionsAreReviewed` says what the lock does give.
* Fit-out stages: an advance that read the contract before it ended moves the unit of the next contract (`fitout.service.ts:217` is its only guard).
* Patrol: a start or a cancellation that read the shift before it ended starts it again or cancels it, and the monitor marks a
  shift OVERDUE that was started meanwhile.  A check sent beside `complete()` may replace a result with photo by one without, so
  a completed shift can lack a photo, though never a result.
* SAP: the payload in the log need not be what SAP has.  After an edit while the outcome of a call is in doubt SAP knows the key of the old content
  (`sap.service.ts:333`), and a sync while the interface is switched off writes PENDING and a new payload over SUCCESS (`sap.service.ts:62`).  A
  document changed after SUCCESS is not sent again, and a FAILED of a late call can overwrite SUCCESS.
* Price rules: an override validated against the prices it inherits can
  come to have a minimum over its maximum; a deletion of a price rule under a change of its price revives it as a new version.

## 8. Not modelled

* **Most of the repository by lines.**  Of some 95,000 lines more than half is the frontend
  (pages, forms, maps: local component state over the endpoints), then seed data, read
  models (dashboards, reports, exports), queries with filters and pages, DTOs, and create/read/update/delete endpoints without a
  rule that relates two rows.  A model of these would say nothing beyond the code, and so the modelled definitions stand for a
  small share of the lines; they cover the services whose state changes can conflict.
* Currencies, taxes, discounts, documents, PDFs, e-mails, notifications, audit log:
  no property above depends on them.
* Who may act (roles, mall access, assignees).
* Of the modelled components: soft deletes of proposals and of slots' parent rows, to which no modelled operation looks;
  the step-advanced notifications of approvals, which do not go through the outbox
  (`docs/program/RELIABILITY_BACKLOG.md:17`); areas and prices of merged units; routes, QR codes and
  positions of patrols; gate overrides and the change of a stage's trigger in fit-out; reminders of maintenance; actual quantities of parking;
  the inheritance of prices; costs of stock; passwords, tenants and malls of users; SAP's entity mapping and reconciliation.
* Tickets with their SLA clocks, service-contract terms, sales, CRM and tenants: they write single rows under checks of that row.
* Statuses the code never writes: `WorkflowStatus.PENDING`, `StepStatus.SKIPPED`,
  `ProposalStatus.UNDER_REVIEW`, `SlotBookingStatus.COMPLETED`.
* SAP itself and the MS SQL mirror are external systems; PostgreSQL's isolation levels and unique indexes, Redis'
  `SET NX`, `emitAsync` and the error handling of `@OnEvent` are taken as documented.
* `PROJECT.json` lists every component with its status.

## 9. Plan

Done: the leasing chain (bookings, proposals and approvals, contracts, unit status), its
infrastructure (outbox, lock), billing, and the components around leasing whose operations can conflict; theorems for
the properties that hold whatever crosses, or under an assumption that names what breaks them.

Next, in this order:

1. Composition of `ProposalPipeline` and `Outbox` in one module, so that delivery with its lock replaces `CanDeliver`; of
   `InvoiceLedger` and `Receivables` over one receivable.
2. Tickets and work orders: SLA clocks, escalation, the sweep that is repeated.
3. SAP's entity mapping and reconciliation beside `SapGateway`.
4. Proofs: the refinements that item 1 adds; what remains true of merges, price rules, maintenance and accounts when
   every pair crosses, in the way of `RatesHold` and `ShiftIsReported`.
