# Muatmd HRM: formal models

Muatmd HRM is a multi-tenant HR service for Saudi companies: a Django 5.2 REST
backend (`apps/`, `config/`), Celery tasks with a beat schedule, PostgreSQL with
row level security, two Next.js front ends (`web/`, `web-admin/`) and a small
agent that forwards punches of attendance devices. These modules model the part
of it that decides things: who approves a request and what an approval does,
what a leave is charged, what a day of attendance is, what a payslip takes and
pays, what a leaver owes, and what an account has paid for.

Every definition translates code; `PROJECT.json` ("map") names the lines. Paths
below are relative to the repository.

## 1. The system

### Execution model

* A web request is one PostgreSQL transaction (`ATOMIC_REQUESTS`,
  `config/settings/base.py:92`) at READ COMMITTED: each statement sees what was
  committed when it started. Handlers read rows without locks, except in the
  access screens (`apps/core/api/access.py:247`) and in the `update_or_create` of
  the balance import.
* `Model.save()` without `update_fields` writes every column, with the values
  the handler read.
* A Celery task based on `AccountTask` (`apps/core/tasks.py`) is one transaction. A
  beat task that visits all accounts opens one for each (`account_scope`,
  `apps/core/tenancy/context.py:57`): what it has written for an account stays locked
  until it is through that account, and is lost with it if something raises.
* Row level security shows a transaction the rows of its account only
  (`apps/accounts/migrations/0012_billing_v2_rls.py` for invoices and payments), and none if
  it has no account, as on the page a customer returns to from his bank without a session.
* Work handed to Celery is handed over at once, not on commit; only
  notifications to phones wait for the commit (`apps/notifications/tasks.py:190`).
* Beat (`config/celery.py`): absences every 15 minutes, the day before at 00:30,
  escalation hourly, device files every 5 minutes, reminders every 15 minutes,
  renewals and the evaluation of subscriptions daily.

### Components

| Component | State | Operations | Must hold | Here |
|---|---|---|---|---|
| Approval engine, `apps/leaves/services/approvals.py` | `Request.status`, `current_step`; `RequestApproval` rows; chains, steps, seats | submit, decide, acknowledge, cancel, escalate, revoke; edits of chains | only approvers decide, a rejection ends, silence never approves, no open row is left behind, every request ends | `ApprovalEngine` |
| The same handlers under concurrency | committed rows, and what each transaction has read and written | their statements | status and rows agree; no lost decision | `ConcurrentDecisions` |
| Leave ledger, `leave_requests.py`, `balances.py`, `leave_cashout.py`, `import_balances.py` | leave requests of an employee, `LeaveBalance` | create, charge, revoke, accrue, adjust, pay out, import | charged once, refunded once, no overlap, no overdraft | `LeaveLedger` |
| Balance transactions, the same files | the columns of `LeaveBalance` while handlers read and write them | their statements | no lost charge | `BalanceTransactions` |
| Attendance days, `apps/attendance` | `AttendanceDay` rows, flags, recompute jobs | punch, nightly task, absence sweep, recompute, adjust; holidays, exemptions, leaves | a row shows what its sources make of it | `AttendanceDays` |
| Payroll runs, `apps/payroll/services/engine.py`, `run_approval.py` | `PayrollRun`, `PayrollApproval`, payslips, exclusions | create, calculate, submit, sign, reject, approve, exclude, readmit; edits of the chain | what is approved was signed, and stays | `PayrollRun` |
| Attendance deductions | `AttendanceDeduction` and the run that settled it | calculate, decide, recompute, settle | deducted once, settled where deducted, none lost | `PayrollDeductions` |
| Payroll adjustments, advances, `adjustments.py`, `advances.py` | adjustments of closed months, recurring items, activities, deferrals, advances | record, select, refuse, revoke, switch, review, grant, defer, cancel; their part in a calculation and an approval | paid once, counted as paid, repaid as deducted | `PayrollTerms` |
| End of service, `job_changes.py`, `settlement.py` | `Employment.status`, dismissals, delegations, settlement runs | register, approve and reject a dismissal, ask to leave, settle | a debt is taken once; no position is left empty | `EndOfService` |
| Billing, `apps/accounts` | `AccountSubscription`, `Invoice`, `Payment` | check out, pay, confirm, mark, activate, extend, evaluate | paid is final and takes effect once; access follows the dates | `Billing` |
| Request creation and effects, leave days, payroll formulas, hiring, penalties, delegation, access, tenancy, notifications, ingestion, presence, organisation, reports | | | | not modelled, see section 5 |

The components meet in four places. The engine's final approval calls the
ledger (`apply_approved_leave`) in a savepoint of the same transaction. The
ledger marks attendance days and its status change queues their recomputation.
Payroll reads the days and the deductions that follow from them. A dismissal
moves its employee out of the regular runs and into a settlement run, and both
take from the same advance.

### What is hard

Decisions race on unlocked rows; chains and seats are edited while requests
travel them; escalation passes by on its own clock; jobs are queued before the
data they need is committed; a row is computed from sources that change while
it is computed; a screen that shows a balance writes it; an effect fails after
the approval stands; entitlement is judged on one day and charged on another;
items of a payslip change after the run that holds them was calculated, and a
run may be calculated again after a later one was approved; a customer returns
twice from the payment page. `PROJECT.json` lists these as "hazards", each at
its line.

## 2. Modules

| Module | Content |
|---|---|
| `RequestLifecycle` | Abstract specification: a request moves by five moves, and its effect happens in the step that approves it |
| `ApprovalEngine`, `ApprovalEngine_proofs` | The engine, one action per handler, with edits of chains and of seats; nine theorems |
| `ConcurrentDecisions`, `ConcurrentDecisions_proofs` | One pending request, and the handlers as READ COMMITTED transactions; two theorems |
| `LeaveLedger`, `LeaveLedger_proofs` | The leave requests of one employee on one balance row; six theorems |
| `BalanceTransactions`, `BalanceTransactions_proofs` | The statements behind the ledger's handlers, over the rows of several employees; three theorems |
| `AttendanceDays`, `AttendanceDays_proofs` | The rows of one employee; three theorems |
| `PayrollRun` | Monthly runs and the chain that signs them, whatever their payslips contain |
| `PayrollDeductions` | `PayrollRun` with the deductions for absences |
| `PayrollTerms` | `PayrollRun` with the items of payslips that outlive a run |
| `EndOfService` | `PayrollRun` with dismissals, successors and settlement runs |
| `Payroll_proofs` | The proofs of the four payroll modules, one section each: three theorems on the runs, seven on deductions, eight on items, four on leaving |
| `Billing`, `Billing_proofs` | The subscription of one account, its invoices and payments; three theorems |
| `SetSums` | Facts about sums over finite sets, which the proofs of the ledger and of payroll cite, and the induction they need |
| `MC...` | The instances TLC checks |

`PayrollDeductions`, `PayrollTerms` and `EndOfService` each EXTEND `PayrollRun` by
variables of their own. An action of theirs is an action of `PayrollRun`
conjoined with what the handler does to their rows, or leaves the variables of
`PayrollRun` alone, so that each implements it by the same variables.

Definitions marked "Fault" in a module are variants of an action with a plausible
bug. `Next` does not use them: they stand beside the real one so that each
property can be seen to fail when the code is broken there.

### ApprovalEngine

`status`, `step` and `effect` are `Request.status`, `current_step` and what
`apply_effect` or `apply_approved_leave` left; `mark` maps each
`(step_order, approver)` to the decision of its `RequestApproval` row, with
"escalated" for an undecided row that `escalate_overdue` has passed; `chain` and
`occupants` are the chains and the employees `_resolve_step` would find.

| Action | Code |
|---|---|
| `Submit`, `SubmitAutoApproved` | `submit_request`: rows for every step of the chosen chain; approval at once without a chain or without approvers |
| `Reject`, `Acknowledge`, `ApproveStep`, `ApproveFinally` | `decide`, by decision and step; the last through `decide_request`, which tries the effect |
| `Cancel`, `Escalate`, `Revoke` | `cancel_request`, `escalate_overdue` for one request, `revoke_any_request` and `revoke_approved_leave` |
| `AddStep`, `DropStep`, `MoveStepUp`, `EditStep`, `EditChain`, and the change of a seat | `chain_steps`, `approval_chain_detail`; `occupants` changes stand for hiring, leaving and job changes |

Requests are of four kinds, by what the code does at approval: "leave" (its
effect is in `decide_request` only), "reversible" (an entry in `EFFECTS` and one
in `_reversals`), "irreversible" (the first only), "plain" (neither).
`order_by("-priority")` leaves ties open, so does the model; so does escalation,
which reads the step of any chain of the type. `started` remembers the chain at
submission and is read by properties only.

### ConcurrentDecisions

A transaction reads the request (`Begin`), checks its copy (`Check`), writes its
own row by primary key (`WriteOwnRow`), looks for other undecided rows
(`AwaitOthers`), closes the siblings one row at a time (`CloseRow`, which waits
for the row's writer and then reads `decision = ''` again), finds the next step,
saves the request and commits. The hourly escalation is such a transaction, too, for
the requests of one account (`leaves/tasks.py:22`): it takes the rows of the step it
passes (`Closable`, `CloseRow`), then the request, and holds both until the account's
sweep ends, which is when `Commit` happens. It reads its copy of the request when it
starts and looks at the rows later, and may thus write a step of long ago. A worker may
die anywhere (`Crash`), which undoes rows and request together, and PostgreSQL aborts
one of those who wait in a circle (`WaitsForItself`): two approvers of one step with
each other's rows, or a withdrawal, which takes the request before the rows, with a
decision or the sweep, which take the rows first. The sweep's other requests have rows
of their own and meet this one by the time they take, and by the circles that pass
through two requests: whoever is aborted for one of those is a `Crash` here. Which columns each save writes is `SavedColumns`: all of
them in `decide`, the listed ones in `cancel_request` and the sweep.

### LeaveLedger

`balance` is the `LeaveBalance` row, `effect = "applied"` is `payload["applied"]`,
`earned` is what `accrue` would compute today. It grows by itself and falls when a
tier or a policy is changed (`LowerEntitlement`). Days are whole numbers: whether a
day is charged is data here, fixed for each request. Handlers are atomic.

### BalanceTransactions

The same handlers as transactions on several rows: `row` is what is committed,
`txn[w].copy` what a worker has read, `wrote` what it will commit, `held` the rows
it has written and others wait for. A screen (`balance_summary`, and the payslip
that shows a balance) calls `accrue` for each employee it lists and so saves every
column of the rows it shows; approval accrues, checks and charges; revocation and
cash-out save `consumed` from the copy they read; the import locks what it
updates. `late` notes the employees whose row was saved from an outdated copy,
`spent` and `paid` what was charged and paid out as committed.

### AttendanceDays

`row` is the status of each day's `AttendanceDay`, `manual` its flag. A computation
takes two steps of a worker, a read (`Start`) and a write (`Write`), between which
everything else may happen; `run[w].seen` is what it read. The code issues its
reads one after another, the flags before the leaves; the model takes them at once.
The properties compare what was read with what holds at the write, and so do not
depend on when during the computation each source was read. A change of the past is begun (its
job is in `queue` from then on) and later committed or aborted, one at a time.
`human`, `early` and `missed` are history: days whose row is a person's last
word, days whose job was taken before its change was committed, days whose last
computation does not stand for their present sources.

### PayrollRun

`run` is `PayrollRun.status` of the regular run of each month, `approval` its
`PayrollApproval` rows, `slips` the employees with a payslip, `excluded` the
exclusions in force, `signed` (history) the steps signed since the last
calculation.

| Action | Code |
|---|---|
| `CreateRun` | `run_create` |
| `Calculate`, `Exclude`, `Readmit` (together `Rebuild`) | `calculate_run`: refused once approved; new payslips for those eligible, a run without any fails; from the run's screen, or by adding or revoking an exclusion, which recalculates the run it names if it is editable |
| `Submit`, `SignStep`, `RejectStep` | `submit_run` with `run_approval.build`, `decide`: rows for the active steps, the lowest waiting one is signed, a rejection returns the run to calculated |
| `Approve` | `approve_run`: refused while a row waits |
| `AddStep`, `DropStep` | the settings' screen of the chain; rows of a run that was submitted stay |

"calculating" is set and replaced inside one transaction; "paid" and "cancelled"
are in the enumeration and nothing sets them.

### PayrollDeductions

`ded` and `settled` are `AttendanceDeduction.status` and `settled_in_run`; `charged`
are the days deducted in the payslips of a run. A calculation charges the absences
of its own period and the backlog of applied rows of earlier ones (`Charge`); an
approval settles the rows up to its end (`Settle`). `Decide`, `Miss`, `Punch` and
`Recompute` (`sync_attendance_deductions`) happen at any moment. `since` notes the
days that changed after a run was calculated.

### PayrollTerms

`line` are the amounts of the items' lines in the payslips of a run, `carried` the
deferrals it takes up, `counted` the recurring items in its traces. `Charge` is
what a calculation does: an adjustment selected for the month is merged, a
recurring item applies while it has occurrences left, an active advance pays its
due instalment at once (`advances.py:200`, the one table a calculation changes in
earnest), a reviewed activity of the month is paid, and a pending deferral moves
its line. `Consume` is what `approve_run` does afterwards: counters, activities,
deferrals, adjustments. The rest are the screens: record, select, refuse and
revoke an adjustment, switch a recurring item, grant an advance, switch its
deduction, review an activity, defer a line, cancel a deferral. `since` and `late`
are history: items changed after an open run was calculated, and runs calculated
after a later one was approved.

### EndOfService

`end` is `Employment.termination_date`, `change` the dismissal, `asked` the request
to end a contract with the successor it names, `successor` the permanent
`Delegation`, `settlement` the settlement run of an employee and month. A
holder of an administrative position may leave only if somebody takes it over
(`MayLeave`), checked when the dismissal is registered and not when it is
approved. A settlement takes the whole debt that is left when it is calculated and
repays nothing in the advance; a regular run takes instalments. `crossed` notes
the debts that two open runs have read.

### Billing

`sub`, `invoice` and `charge` are the subscription row, the invoices and the payments at
the gateway; `rows` is how many `Payment` rows a payment has.

| Action | Code |
|---|---|
| `Checkout`, `PayOverage`, `OpenCharge`, `SettleCharge` | `start_checkout`, `pay_overage`, the hosted form, the gateway |
| `BeginConfirm` | `confirm_payment` looks for the `Payment` row: it finds one of those there are, or none. There may be several, and row level security hides them all from a visitor without a session (`service.py:166`) |
| `AskGateway` | the gateway answers, and only then the invoice is read; where a row was found, it is saved first and held (`_apply_response`), so that confirmations which found the same row take turns |
| `ConfirmWithoutEffect`, `PayInvoice` | `_on_paid`; where no row was found one is created (`FilePayment`), which nobody else waits for |
| `BeginMark`, `SaveInvoice`, `PayInvoice` | `mark_paid`: the invoice, then the subscription |
| `BeginActivate`, `SaveActivation`, `Activate` | `activate_manually`: the subscription, then the latest draft. It is issued in a savepoint inside `try` (`billing_v2.py:405`), so that `IssueDraft` may fail and the activation commits |
| `DeadlockAbort`, `Crash` | a payment that holds the draft and wants the subscription, against the activation that holds the subscription and wants the draft: the payment is aborted here, or the issuing fails in `Activate` |
| `Extend`, `BeginEvaluate`, `Evaluate` | `extend_grace`; the nightly task, one transaction for each account, which reads the row and writes the state once |

`raised` counts how often an invoice raised the subscribed headcount, `raced` are the
invoices that confirmations found unpaid at once, each without waiting for the other
(`Rivals`).

## 3. What is checked

All passing runs are exhaustive within their bounds. CHECK_DEADLOCK is off where a
system may rest: every request closed and no edit left, every transaction done,
every run approved.

| Run | Instance | States | Shows |
|---|---|---|---|
| `engine_edits` | one request, two matching chains of equal priority, three seats, four employees, two edits anywhere | 944 000 | `TypeOK`, `PassedStepsClosed`, `LastStepDecided`, `RejectionEndsRequest`, `DecidedRowsKept`, `RefinesLifecycle` |
| `engine_frozen` | two requests of different kinds, one chain of three steps, no edits, with fairness | 837 | `AckHeardByAll`, `NoSkipSeatKept`, `PendingIsActionable`, `EventuallyClosed` |
| `races_all` | three transactions, two people on both of two steps, the second an acknowledgement, every operation, with fairness | 107 700 | `StatusHasItsRow`, `DecisionsSurviveTheMachine`, `EveryTransactionEnds` |
| `ledger` | three leaves, two of them sharing a day, amounts -1 and 2 | 425 000 | `TypeOK`, `ConsumedIsExplained`, `NoOverlap`, `OverdraftExplained`, `RefinesLifecycle` |
| `balances` | two workers, two employees, one leave, screens, files and payouts, with fairness | 225 000 | `ChargesSurvive`, `ChargedWithinAvailable`, `EveryRequestEnds` |
| `attendance` | one day, two workers, three changes | 447 000 | `TypeOK`, `StaleDaysExplained`, `LeaveDaysKept` |
| `payroll_deductions` | two months, two employees, one step, an absence in the first month | 693 000 | `TypeOK`, `ApprovedAsSigned`, `ApprovedIsFinal`, `ChargedOnce`, `SettledWasCharged`, `NothingOpenBehind` |
| `payroll_terms` | three months, two open at a time, one item of one kind in use, one deferral | 428 000 | `RetroPaidOnce`, `CountMatchesPayslips`, `RepaidCoversDeducted`, `PaidActivityWasPaid`, `DeferredLineLeaves` |
| `leaving` | two holders who may name each other, two months | 94 000 | `DebtTakenOnce`, `PositionsAreFilled` |
| `billing` | two workers, two invoices, two payments of up to two `Payment` rows, three days | 514 700 | `RaisedOnce`, `PaidIsFinal`, `AccessFollowsDates` |
| `races_final` | two transactions deciding and cancelling | violation | `ClosedIsFinal` |
| `payroll_again` | as `payroll_terms` | violation | `LedgerMatchesPayslips` |

### Bounds

* `MaxSteps`: the engine compares a step with the next only, so three steps are a
  first, a middle and a last one. `MaxEdits = 2`: one edit to reach an organisation
  the chain was not built for, one to leave it.
* Three transactions are a writer, one that overwrites and one that waits for both.
  `InOrder` of `MCConcurrentDecisions` numbers them by their operation: they are
  otherwise interchangeable.
* Three leaves make overlap and adjacency; `MaxDays = 2` makes charging, refusing and
  refunding all occur.
* Two rows and two workers make every order of waiting, and a deadlock, of the
  balance transactions. `RowsAreRight` ends a history with the first save of an
  outdated copy: `ChargesSurvive` is checked in that state too, and what follows it
  starts from a wrong row.
* Days do not interact except through ranges, so one day shows every order of
  reads, writes and changes of attendance; a holiday may move to a day outside the
  model. Three changes are an establishment, an end and one in between.
* Payroll: an absence of the first of two months is in its own period or in a
  backlog; the second employee keeps a run from failing when the first is excluded
  (`OneExclusion`: one exclusion in force at a time). Items meet through a deferral
  of one of them only, so `Bounded` lets one be in use; three months are the source of a
  deferral, its target and one beyond; two open runs are what a recalculation after a
  later approval needs. `Amount = 3` with two planned instalments gives a last
  instalment that differs.
* Leaving: `FewPayslips` pays one of the two once payroll has begun; the other may have
  left before, so that the settlement of that month would take both.
* Billing: `InTurn` lets two requests, invoices and payments interleave on the first
  day, and one of each with the dates of the later days. `MaxRows = 2`: a found row, a
  hidden one and one that is created; more than one row only of one payment of one
  invoice on the first day, which is where confirmations meet.

`SYMMETRY` is used in `attendance` only, on workers, which no liveness property
needs.

### Fairness

`FairSpec` of the engine assumes that the hourly beat escalates what can
be escalated, and that where it cannot, an approver answers: the first is the
schedule, the second is an assumption about people, without which no request of
this system ends. `FairSpec` of the transactions, of decisions and of balances,
assumes that the database goes on with a statement it can execute and breaks
deadlocks; a statement that waits for a row is strongly fair in the latter, for the
database grants a lock that keeps being released. Of billing it assumes the same
of requests, and that the nightly task is begun and ends; that days pass is not
assumed. Crashes have none.

### Where code and text disagree

Two runs expect a violation; each checks one statement of the repository.

| Run | Statement | What happens |
|---|---|---|
| `races_final` | a rejection at any step ends the request (`approvals.py:295`) | a decision that read "pending" saves the whole row over a rejection or a withdrawal (`approvals.py:390`) |
| `payroll_again` | the advance's record is corrected by what is calculated (`advances.py:204`) | a run calculated again repays the advance again (`advances.py:200`) |

These statements are kept in the modules as definitions that no run checks,
because the code does not have them. A reader who adds one to a `.cfg` gets the
history described.

| Definition | What happens |
|---|---|
| `CompletedStepMovesOn` | the last two confirmations of an acknowledgement each see the other missing; all have confirmed and the request stays (`models.py:513`) |
| `EffectIsOnce` | two visits of the result page ask the gateway about one paid overage, the second without a session or both before there is a `Payment` row; each reads the invoice as unpaid, and both raise the headcount (`service.py:211`). A second visit that shares the row waits, and one that begins later finds the invoice paid: `RaisedOnce` says that this is all |
| `OverageKeepsPeriod` | an overage is invoiced, the account is activated for another period, the overage is paid, and the period is set back to the old one (`models_billing_v2.py:211`) |
| `AccrualIsRepeatable` | a screen that only shows balances saves whole rows over a leave charged meanwhile (`balances.py:240`, `:307`) |

Others were met while modelling and are documented here only:

* `EFFECTS` has no entry for leave: a leave that no chain matches is approved at once
  and never charged, though `approvals.py:242` says the effect happens there too.
* An opening balance that is imported during the year is added to the days `accrue`
  counts from the start of it: the date of the import (`import_balances.py:218`) is never read.
* The reversal or replacement of an exemption and the move of a holiday queue nothing
  for the days they leave (`recompute.py:16`).
* `escalate_overdue` adds one to `current_step`: if the seats of the step behind are
  vacant, nobody can decide, escalate or skip the request there (`requests.py:777`).
* A line deferred from month k to m and from m to n is paid in both; `_retro_leave`
  refunds every row of a leave; the net is capped at zero while the advance is recorded
  as repaid in full.
* `calculate_run` on a settlement run replaces its payslip by those of everybody who
  left in the month; approval of a settlement settles neither advances nor assets
  (`deduct_unreturned` has no caller); its date is free input, so that a second
  settlement in another month takes the debt again; with the default settings the last
  month may be paid in the regular run and in the settlement.
* `sync_attendance_deductions` returns early when the month has no day to charge,
  before it looks at the backlog. An exclusion until revoked recalculates one run and
  leaves the payslips of other calculated ones.
* `saved_card` is never assigned, so renewals and their retries never charge anything;
  each call of `pay_overage` makes another payable invoice; an overage that an
  administrator marks as paid raises nothing; marking saves the whole row over a
  headcount raised meanwhile.

Several properties are weaker than one would want, because the code does not give
more, and say so in their definition. `NoSkipSeatKept` and `AckHeardByAll` hold for
chains that are not edited and have no rival of the same type. `StatusHasItsRow`
excepts a person who answered twice before either answer was committed.
`StaleDaysExplained` excepts days whose manual flag outlived the leave that set it.
`ChargesSurvive` and `ChargedWithinAvailable` except rows saved from an outdated
copy. `ChargedOnce`, `SettledWasCharged`, `NothingOpenBehind` and the properties of `PayrollTerms`
except days and items changed since the run was calculated, runs overtaken by a
later one, and second deferrals. `DebtTakenOnce` excepts debts that two runs have
read, `RaisedOnce` invoices that two confirmations which share no `Payment` row found
unpaid, `PositionsAreFilled` successors who had left themselves. Where a hazard is itself
among the exceptions, its note in `PROJECT.json` says so, and what is checked beside it.

## 4. What is proved

TLAPS proves these for every value of the constants: any set of requests,
employees, chains and edits; any transactions and rows; any leaves and amounts; any
days, ranges, workers and number of changes; any months, steps, items and leavers;
any screens and files of balances; any payments and invoices. Every invariant and every
action property that a passing run checks is stated by a theorem.

The assumptions are the `ASSUME`s of the modules, which TLC evaluates in each run. They
type the constants and, beyond that, say: items of different sorts are different
(they are rows of different tables); the months and employees that sums range over,
and the leaves of one employee, are finitely many; the days of the balance rows begin
with one (`Horizon` is not 0). Three theorems of the engine name a
hypothesis of their own, below.

**Approval engine** (`ApprovalEngine_proofs`). `EngineInv` is inductive: types; a
draft has no rows; and the three promises `PassedStepsClosed`,
`LastStepDecided`, `RejectionEndsRequest` together. They need each other: a
final approval looks only for undecided rows of later steps, and that these are
absent, not decided, follows from the rows ahead being untouched, which is the
last conjunct of `PassedStepsClosed`. From it follow `TypeCorrect`, `InboxesAreClosed`,
`SilenceIsNotApproval`, `RejectionEnds`, the action property `AuditTrailKept`,
and `EngineImplementsLifecycle`: each handler is a move of `RequestLifecycle` or
leaves `status` and `effect` alone.

A request keeps no copy of the chain it was submitted to, so the three promises of
`engine_frozen` hold only while nothing is edited, and the theorems say so: they
prove `edits = 0 => ...` of the specification with edits. `FrozenInv` adds that
the chains and seats are the initial ones and that the rows of a request
are those of a chain `select_chain` would still select (`TravelsItsChain`).

* `AcknowledgementsAreHeard`, if no two active chains that a request matches have
  one priority (`DistinctPriorities`): a row of an acknowledgement step is closed with
  its request or not at all (`AckRowsStay`).
* `NoSkipSeatsAreKept`, if the type has one chain (`OneChain`): escalation reads the
  step of any chain of the type.
* `PendingCanBeDecided`, with one chain whose seats are staffed by people in scope
  other than the requester (`SeatsAreStaffed`): the current step of a pending request has
  somebody who has not answered (`SomeoneIsAsked`). With a vacant seat
  it is false, see section 3.

**Concurrent decisions** (`ConcurrentDecisions_proofs`). `Inv` says that a row has one
uncommitted writer (`OneWriter`); that the machine's "delegated" and "escalated" are
written over an undecided row, and stays so because nobody else can write the row before the commit
(`WritesFit`); that a decision has its row in hand before the status that follows from
it, and that an approval commits no status only at an acknowledgement (`SaveFits`);
and that a stored rejection was somebody's (`RejectedByOne`). The last gives the
exception of `StatusHasItsRow`: only the same person's confirmation can replace it.
`StatusFollowsFromARow`, `MachineNeverDecides`.

**Leave ledger** (`LeaveLedger_proofs`). `Inv` adds two facts to the properties:
`EffectFollowsStatus` (what an effect can be in each status) and `RowCovered`
(as long as nothing was taken away, the row shows no more than was earned
and is not overdrawn). `LeavesNeverOverlap`, `NoOverdraft`, `OnlyApprovedIsCharged`,
`LedgerTyped`, `LedgerImplementsLifecycle`. `ConsumptionExplained` is inductive beside
`Inv`: the sum over the applied leaves changes only where one becomes applied or stops
being so, and by that leave's days.

**Balance transactions** (`BalanceTransactions_proofs`). `BalanceInv` says of each
transaction what it has in hand (`Shaped`), that no row is written by two (`Apart`),
and that what it read of a row is still so, unless somebody committed the row since,
which `missed` remembers; what it will write then differs from the row by what its
operation is about (`Sound`). A payout is judged at its first reading and saved from
a third: between them the row is the same or `missed`. `ChargesAreNotLost`,
`ChargesWithinAvailable`, `BalancesTyped`.

**Attendance days** (`AttendanceDays_proofs`). `StaleDaysExplained` speaks of
settled days and is not inductive. `DayOK` says the same of a day at any moment: its
row is right, or a computation that will overwrite it waits in the queue or runs
with `force` (`Covered`). It needs `JobSent`: each day an open change names has its
job in the queue or had it taken too early; `RunSound`: a forced computation skips
nothing; and `ChangeSound`: what an open change ends is still what it found.
`LeaveIsKept` is an action property and uses `RunSound`: a computation that read a revoked
leave runs after the revocation. `DaysTyped`, `StaleDaysAreExplained`, `LeaveIsKept`.

**Payroll runs** (`Payroll_proofs`, as the three that follow). `RunInv`: every step of a
submitted or approved run is signed since the last calculation or waits
(`SignedOrWaiting`), and in an approved one nothing waits. A calculation takes the run
out of "submitted", which is why an earlier signature cannot count for new payslips. The
facts are stated of a single step, so that the modules which extend the runs cite them
once they have shown that each of their steps is a step of the runs or leaves them
alone. `RunsTyped`, `ApprovedRunsAreSigned`, `ApprovedRunsAreFinal`.

**Deductions.** `DeductionsImplementRuns`, and by it
`SignedWithDeductions` and `FinalWithDeductions`. `DeductionsInv` says where the days of
a payslip come from (`ChargedIsOwn`, `ChargedIsApplied`, `BacklogWasOpen`), that a day
that is open when a run is calculated is in it (`OpenIsCharged`), and that the
approval settles every applied row up to its end and no other code does
(`ApprovedSettles`, `SettledByApproved`). `AbsenceChargedOnce` then is: of two approved
runs with the same day, the later one took it as backlog, which was open, so the
earlier one had not settled it, unless it was approved after.
`SettledDaysWereCharged`, `NoDeductionIsLost`, `DeductionsTyped`.

**Adjustments and advances.** `TermsImplementRuns`, `SignedWithTerms`, `TermsTyped`.
`TermsInv`: a reviewed activity of a calculated month is in its payslip
(`ActivityInLine`), what a payslip carries is its own employee's and due
(`CarriedIsOwn`), and the line of a pending or carried deferral has left the month it
was deferred from (`PendingHasLeft`, `CarriedHasLeft`), unless its item changed since.
`PaidActivitiesWerePaid`, `DeferredLinesLeave`.
`CountInv` compares the counter of a recurring item with the number of approved runs
that carry it, and says that an open run which carries it was calculated while
occurrences were left, or is noted in `since`: `CountsMatchPayslips`.
`PaidInv` follows the lines of one item over all months. An adjustment has a line only
in the run it is merged into, or in the one its deferral moved it to (`RetroLines`):
`AdjustmentsPaidOnce`. What the months take of an advance is never more than its
record (`Covered`), neither as the lines stand nor with a deferred line put back where it
left (`With`); the second is what a recalculation of the first month would restore, and
without it the first is not inductive (`LoanLines`): `AdvancesCoverDeductions`.

**End of service.** `LeavingImplementsRuns`, `SignedWhileLeaving`,
and `PositionsStayFilled`, which needs that a registered dismissal of a holder has a
successor named or appointed (`DismissalIsSound`), since approval does not look again.
`DebtsAreTakenOnce` rests on `DebtInv`: an instalment is 1, because no more months have
one than is repaid (`InstalmentsAreSmall`), so what is due never exceeds what is left,
and what the payslips deduct is on record (`RegularIsOnRecord`). A settlement records
nothing; until another run has read the same debt (`crossed`), it takes what is left
(`BothAreCovered`).

**Billing** (`Billing_proofs`). `BillingInv`: ids of invoices are given out in turn, so
that a new one overwrites none, and only a paid invoice has raised the headcount
(`RowsSound`); the subscription and each `Payment` row have one writer (`Apart`);
a draft that the holder of the subscription found has not been paid since
(`Standing`); a confirmation that still takes a confirmed overage for unpaid has a rival
(`Counted`), because one that found the same `Payment` row waits for it before it
reads the invoice, and any other is a rival. An activation that gives up the issuing
leaves the invoices alone, and a payment that is aborted leaves everything. `PaymentsAreFinal`, `OverageRaisesOnce`, `BillingTyped`.

**Sums** (`SetSums`). The induction theorems of the library take a predicate, which the
provers cannot instantiate. `SetSums` states induction over a *set* of numbers or of
sets instead, and proves with it what a `SumFunctionOnSet` becomes when an element or a
value changes.

**Model-checked only.** Liveness under fairness: `EventuallyClosed`,
`EveryTransactionEnds`, `EveryRequestEnds`, `AccessFollowsDates`. The bound of
`effects` in `TypeOK` of `ConcurrentDecisions` counts transactions; its proofs use
`Typed`, which leaves the bound out.

## 5. Not modelled

Of the components modelled, the following is left out.

* Everywhere: amounts of money beyond small numbers, minutes, fractions of days,
  wording; who may open a screen (`Gate`).
* Approval engine: delegation to deputies, whose answer counts as the holder's.
* Leave ledger: the charged days of a calendar, eligibility. `adjust_balance` and
  `carry_forward` have no caller.
* Attendance: branches of a company (`_holidays_in` marks a branch's holiday for all
  branches, while the job is limited to the branch); employees without a shift;
  overtime, the import of days, monthly summaries.
* Payroll: the structure of a payslip and its totals, supplementary runs, the
  monthly fallback of companies without daily attendance, the age limit of an adjustment,
  end dates of recurring items, allowances and expense claims; eligibility, lump sums
  and start months of advances.
* End of service: the award and the other amounts of a settlement, its payout of
  leave, its signing steps, company-wide settlement runs, assets and roles; promotions and
  transfers, which end no service. Two dismissals that name each other leave the second
  position empty: the error of the successor's appointment is swallowed.
* Billing: prices, discounts and VAT, cancellation, tax invoices; refunds,
  `start_payment`, and the renewals that find no saved card are code that nothing
  reaches.

These components are not modelled at all: the creation of requests and their
effects other than those above (one handler per type); the computation of leave days
and of wages (pure functions with unit tests, which a model would restate); hiring and
records of employees, penalties, organisation (one atomic handler per change);
delegation; accounts, access and invitations; tenancy (PostgreSQL policies); notifications
(nothing depends on their delivery); ingestion and presence (deduplication in front
of a punch; one writer); reports, letters, policies and tickets (read-only views and
plain records). `PROJECT.json` has the reason for each. The map therefore covers a
small share of the repository: the larger part of its lines are serializers, screens,
permissions and formulas.

## 6. What is left

1. Proofs: what the exceptions of `ChargedOnce`, `StaleDaysExplained` and
   `DebtTakenOnce` leave to be said of a history without them; `BalanceTransactions`
   against `LeaveLedger`, for histories in which no outdated copy is saved.
2. `LeaveDays`: the two computations of charged days as folds over a calendar,
   compared.
3. `RequestCreation`: drafts, numbers, overlapping creation, effects by type.
4. `Deliveries`: notifications and task retries.
