# TLA+ models of the hostel manager

The repository holds an Express/Prisma API (`src/apps/api`), an Expo app for
owners and residents (`src/apps/mobile`), a money package
(`src/packages/money`) and an earlier website. This directory holds TLA+
modules for the part of it where several writers meet on the same rows, the TLC
runs that check them on small instances, and TLAPS proofs for every value of
the parameters. `PROJECT.json` maps each definition to the lines it models.

    tlc -workers 2 -config MCBilling_locks.cfg MCBilling
    tlapm LedgerProofs.tla

## 1. The system

All shared state is rows of one PostgreSQL database, reached through Prisma
transactions at the default isolation, READ COMMITTED. Nothing is kept in the
API process but a rate limiter and the cron timers. So every concurrency
question in this code reads: *which rows did this transaction read, which did it
lock, and what could commit in between?*

| Component (`src/apps/api/src/modules/...`) | State | Operations | What makes it hard | What makes it correct |
|---|---|---|---|---|
| bills and late fees (`billing/`) | `Invoice`, `InvoiceItem` | raise, recompute, add a line, waive the fee, refresh statuses | recompute reads the bill without a lock and writes it later; a day missed must not matter | the fee is a function of dates and money, applied any number of times; status follows the numbers |
| payments and receipts (`payments/`) | `Payment`, `PaymentAllocation`, `Receipt` | record a payment over several bills, one receipt each | concurrent payments, retries, sequential numbers | a bill is never collected beyond what it asks; a key pays once; no number skipped |
| settling up (`settlements/`) | `Settlement`, lines, `Tenancy.depositHeldPaise` | forgive principal and fee, bring the deposit held down | races with payments, with itself, with an owner who writes the deposit held over | a forgiven rupee stays forgiven; no settlement is lost |
| scheduled jobs (`jobs/index.ts`) | `JobRun` | nightly late fees, reminders, receipt sweep, month-end billing, matured notices, monthly rollover | crash between two steps; two processes; a stale snapshot; bill numbers by counting | each period's work happens once; nobody is left without a bill |
| residents, tenancies, beds (`residents/`) | `User`, `Resident`, `Tenancy`, `Allocation`, `Bed` | register, edit, move, give notice, exit, delete data | bed checked, then taken; snapshot of notices | one open allocation per bed and per stay |
| rooms and room types (`property/`) | `Room`, `Bed`, `RoomType` | add, edit, delete, mark a bed for maintenance | checks outside the transaction | no bed vanishes under a resident |
| electricity (`electricity/`) | `MeterReading`, `ElectricityBill`, shares | record or correct a reading, attach its shares, enter a bill by hand, edit a line | shares are lines of bills the monthly run also raises; corrections overlap | shares sum to the reading; readings form one chain; bills follow the active readings |
| sessions and passwords (`auth/`) | `RefreshSession`, `User` | sign up, log in, refresh, log out, change password | rotation is several statements; grace window; families | nobody is stranded without a token; a lost answer is not taken for theft |
| notifications (`notifications/`) | `NotificationDelivery`, `DeviceToken` | reserve, send, settle, sweep receipts | crash between reserve and send; sweeps that overlap | at most one push per message; the row never claims more than happened |
| complaints (`complaints/`) | `Complaint` and its timeline | raise, update | status and reopenings read outside the transaction; a limit counted without a lock | - |
| registration details (`account/`), mess, operations, settings, app releases | a row each | CRUD with a few guards | little concurrency | - |
| dashboard, public site, uploads, HTTP routes | none of their own | reads, validation, forwarding | - | - |
| money (`src/packages/money`) | none | allocate and prorate paise | rounding | parts sum to the whole |
| mobile app (`src/apps/mobile`) | tokens, forms | one refresh at a time, idempotency keys per form | retries after a lost answer | one renewal at a time; a launch finds its session again |
| legacy website | its own | - | not part of the running system | - |

How they interact. A payment, a settlement, an added charge and the nightly job all end in
`recomputeInvoice`, inside their own transaction. Payments and settlements first lock the
bills (`SELECT ... FOR UPDATE`, in id order) and only then read what is owed; charges,
waivers and the job do not lock. A settlement also locks the stay's row, because it writes
back the deposit held that it has read. The monthly job raises the bills that the others pay, and so do the
owner's button and a move-in; an exit ends an allocation and looks at what the bills say is
owed; electricity adds lines to them; every operation that a resident should hear about
calls `notify` after its commit.

## 2. The modules

| Module | What it is |
|---|---|
| `BillingRules` | the late-fee, forgiveness, total and status rules, as operators on a bill |
| `Billing` | the transactions on a resident's bills, interleaved statement by statement |
| `Ledger` | abstract: what those transactions promise, with no transaction in it |
| `BillingProperties` | invariants, action properties, liveness, the refinement mapping |
| `MCBilling` + `MCBilling_*.cfg` | the instances TLC checks |
| `BillingProofs`, `LedgerProofs` | the proofs: types and locks, then numbers, keys, deposit and the refinement |
| `Occupancy` | who lives in which bed: users, stays, allocations, beds, rooms, and the monthly job's matured notices |
| `BedRegister` | abstract: a register of beds, with no rows and no transaction in it |
| `OccupancyProperties`, `MCOccupancy` + `MCOccupancy_*.cfg` | its properties, refinement mapping and instances |
| `OccupancyProofs`, `RegisterProofs` | the proofs about `Occupancy`: its rows and beds, then the refinement of `BedRegister` |
| `Monthly` | which stay is billed for which month, by whom, under which number: the two monthly jobs, the button, move-ins |
| `MonthlyProperties`, `MCMonthly` + `MCMonthly_*.cfg`, `MonthlyProofs` | its properties, instances and proofs |
| `Electricity` | readings, corrections, shares, and the lines they put on electricity bills |
| `ElectricityProperties`, `MCElectricity` + `MCElectricity_shares.cfg`, `ElectricityProofs` | its properties, instance and proof |
| `Sessions` | sign-in, refresh rotation, families and passwords of one account, as the API serves them to any client |
| `Phone` | the app's side, on top of `Sessions`: keystore, launch with retries, renewal, what the user does, lost answers |
| `PhoneProperties`, `MCPhone` + `MCPhone_*.cfg`, `PhoneProofs` | the properties of the two together, instances and proofs |
| `Notifications` | one row per message, the send, its failures, and the receipt sweep |
| `NotificationsProperties`, `MCNotifications` + `MCNotifications_push.cfg`, `NotificationsProofs` | its properties, instance and proofs |

`Phone` EXTENDS `Sessions`: client and server are one composed system. The others meet
in rows that each looks at from one side. An invoice is a number in `Monthly` (who is billed, once,
and under which number), its lines in `Electricity`, and money in `Billing` (what it
asks and how it is paid). A matured notice ends an allocation in `Occupancy` and keeps a stay from
being billed in `Monthly`. Whoever calls `notify` is, for `Notifications`, anyone who may
ask for a message at any time, again and again.

`Billing` and `Occupancy` meet in one bit: whether a stay owes. `Occupancy` keeps it
as `stay[s].owes` and lets `BillChanges` set it either way at any time, which is
all that `exitResident` and the job look at. An operator `X_Something` in front of
`X`, commented "Mutant", is a plausible bug in `X`; no specification uses it, and
each property is known to fail when one such operator takes the place of the original.

### Billing, and how it corresponds to the code

State. `inv[i]` is the `Invoice` row with its lines folded in: `charges` is the sum of the
lines that are no late fee, `fee` the LATE_FEE line (0 when there is none), `settled` and
`forgiven` the sums of its settlement lines, `settledOn` the day of the last of them,
`paid` the sum of its allocations, `total`, `status` and `waived` the columns of these
names. `payments`, `receipts`, `settlements` are the rows inserted,
`receiptSeq`/`settlementSeq` the highest number of each financial year.
`depositHeld` is `Tenancy.securityDepositPaise`. The rest is per transaction: `pc[p]`
the statement reached, `req[p]` the request, `seen[p]` the copy of the bill that
`recomputeInvoice` read, `feeLine[p]` what it does to the LATE_FEE line (a line whose fee
stays the same may still be rewritten, its text having the days in it), `number[p]`
the last number it read, `held[p]` the deposit held as a settlement read it, and whether the
owner has written it over since. `night` is what the nightly job has left to visit.

One action per statement that touches shared rows, because under READ COMMITTED
each statement sees what committed before it:

| Code | Actions |
|---|---|
| `settlePayment` | `StartPayment` (key lookup), `LockBills`, `CheckPayment`/`RefusePayment`, `ApplyPayment` (recompute, number, insert) or `PaymentKeyTaken`, `CommitPayment` |
| `settleBalance` | `StartSettlement`, `LockBills`, `CheckSettlement`/`RefuseSettlement`, `ApplySettlement` or `SettlementKeyTaken`, `CommitSettlement` |
| `addInvoiceItem`, `setLateFeeWaiver` | `StartItem`, `InsertItem`, `StartWaiver`, `WriteWaiver`, then the recompute |
| `recomputeInvoice` without the lock | `ReadRow`, `ReadLines`, `WriteFee`, `WriteRow` |
| `recomputeLateFees`, `refreshOverdueStatuses` | `recomputeLateFees` (lists the bills), a recompute per bill in its own transaction, then the bulk status update |
| `updateResident`, as far as it writes the deposit held | `updateResident` |
| constraints, deadlocks, aborts | `ConstraintError`, `DeadlockVictim`, `Abort`, `Rollback` |
| `todayInZone` | `NextDay` |

A lock is not a variable: who holds a row is a function of where the transactions
are, and the operators that say so are named after the row. A payment takes the
remaining row locks in one step; it locks in id order, so two of them cannot
wait for each other, and what TLC needs to see is only that the rows are held
from then on. Amounts are small integers, a paisa being one unit. Writes of a
locking transaction are applied at its commit: nobody else can see them before,
and the rows they touch are locked. The deposit held is the exception: `ApplySettlement` reads
it without a lock, and `CommitSettlement` writes what follows from that reading.

### Occupancy, and how it corresponds to the code

State. `user[u]` is an account (a phone number, which is unique) with its own role
and its `PropertyMembership`; some people have signed up before anyone adds them,
which `Init` leaves open. `stay[s]` is a `Tenancy`, `alloc[a]` an `Allocation`,
`bed[b]` and `room[r]` the rows of those names. Ids are used once: a deleted stay or
bed does not come back. `NOTICE_PERIOD` is ACTIVE here, because every guard of the
code treats the two alike, and BLOCKED beds behave as beds under MAINTENANCE.
`pc`/`req` are the open transactions, `queue` the stays `exitMaturedNotices` has
listed with what it read of them, `period` the last month it ran for.

| Code | Actions |
|---|---|
| `createResident` | `StartCreate` (the account), `FindActiveStay`, `AssertBed`, `CommitCreate` |
| `moveResident` | `StartMove` (stay and open allocation), `AssertBed`, `CommitMove` |
| `exitResident` | `StartExit` (stay, allocations, bills), `FindOtherStay`, `CommitExit` |
| `exitMaturedNotices` | `exitMaturedNotices` (the list), `NextMatured`, `FindOtherStay`, `CommitExit` |
| `updateResident`, `createRoom` | one action each: one writing statement, nothing read that matters |
| `deleteResidentData` | `StartDelete` (outside the transaction), `CommitDelete` |
| `updateRoom`, `deleteRoom`, `updateBedStatus` | `StartUpdateRoom`, `StartDeleteRoom`, `StartBedStatus` (checks outside the transaction), then `CommitUpdateRoom`, `CommitDeleteRoom`, `WriteBedStatus` |
| a refused check or constraint, a timeout, a crash | `GiveUp` |

Reads are actions of their own, one per statement; a transaction's writes are one
action at its commit. The constraints are guards of that action: the two partial
unique indexes and the foreign key on the bed (`MayOpen`), `endedAt >= startedAt` and
the row still being there (`MayClose`), no bed deleted under an allocation
(`RowsOnBed`), no account deleted under a stay. When a guard is false the
transaction can only `GiveUp`; when the job gives up, the rest of its list goes too,
as nothing in the loop catches the error.

### Monthly, and how it corresponds to the code

State. `bill[s][k]` is the number of the `INV` bill of stay `s` in series `k` (a month's rent,
or the deposit), `elec[s][k]` of its `INV-ELEC` bill, 0 when not raised; one `count()` over both
gives the next number of either. `share[p]` are the stays with a share of a meter reading of
month `p`, `reading` the request that records one. `jobRun` are the `JobRun` rows, `run[w]` what
a job of a process, or the owner's button, is doing; `up[p]` whether a process is running.
Dates are months: `joined`, `leaving` (the first month not stayed into, from
`expectedExitDate`) and `until` (of `actualExitDate`). `since`, the day on which the owner
last entered, reopened or ended a stay or put off its end, is not stored in the code: the
properties need it to say who was known in time. A month is two days, its last one and all
before it, which is all that the cron lines and the catch-ups tell apart. Amounts are left out,
but for who is asked for none.

| Code | Actions |
|---|---|
| `runOnce` | `Claim` (the insert that only one can make), `Finish`, `Fail` (its catch) |
| `startScheduledJobs` | `Restart` and its catch-ups; `NewDay` is the clock and the cron lines |
| `exitMaturedNotices` inside the rollover | `ListNotices`, `ExitNext` |
| `billTenancies`, `generateInvoicesForPeriod` | `ListStays` (the snapshot), then one stay at a time |
| `generateInvoiceForTenancy` | `NumberBill` (already billed? count), `InsertBill` (both unique keys), then `NumberShare` and `InsertShare` for the electricity bill of the same transaction |
| `createResident` | `MoveIn`, from a day of any month, billed for that month alone |
| `updateResident` | `UpdateResident`: any expected exit date; an ended stay may be ACTIVE again, and keeps its `actualExitDate` |
| `exitResident`, `deleteResidentData` | `LeaveNow`, `Erase` |
| `recordReading`, `attachSharesToInvoices`, as far as they raise bills | `RecordReading`, `CountShares`, `AttachShares` |
| the owner's "generate invoices" | `Generate` |
| the process dies | `Crash` |

### Electricity, and how it corresponds to the code

State, for one month of one property: `lives[r]` the allocations that touch the month,
with their days; `reading` the meter readings in the order of insertion, each with its
shares and the reading that corrected it; `bill[s]` the lines of a resident's
electricity bill. `Floors` and the largest remainders are `allocatePaise`.

| Code | Actions |
|---|---|
| `recordReading` | `StartReading` (who lived there), `FindReading` (the reading to correct), `CommitReading` |
| `updateElectricityShare` | `StartShare`, `UpdateShare` |
| `attachSharesToInvoices`, at the end of both | `ReadShares`, `ReadBills`, `CommitShares` |
| `recordElectricityBill` | `StartEntries`, `ReadBills`, `CommitEntries` |
| `updateElectricityInvoiceItem` | `StartEdit`, `CommitEdit` |
| the billing run, or the button | `ListStays`, `NumberBill`, `InsertBill`, `Finish` |
| an error, a collision, a crash | `Fail` |
| `createResident`, `moveResident`, `exitResident`, as far as they change who lived there | `Rehouse` |

### Sessions and the phone, and how they correspond to the code

State. `account` is the `User` row as far as signing in looks at it, `session[t]` the
`RefreshSession` row of token `t` with its family and the time since it was revoked, `call[c]` a
request from the moment it is sent until its answer is taken. `phone[d]` is the auth
store, the keystore and the access token of a phone. Nothing in `auth.service.ts` but the
owner's reset runs in a transaction, so every statement is an action.

| Code | Actions |
|---|---|
| `login` | `ReadAccount`, then `CountFailure`, or `ResetFailures` and `IssueSession` |
| `signup` | `LookUpPhone`, `CreateAccount`, `IssueSession` |
| `refresh` | `ReadSession` (grace window), `IssueSession`, `Rotate`, or `RevokeFamily` |
| `logout`, `changePassword` | `Logout`; `CheckPassword`, `StorePassword`, `RevokeAllSessions` |
| `resetResidentPassword` | `ResetResidentPassword`, from the phone's side `OwnerResets` |
| the rate limiter, a handler that dies | `RateLimit`, `Die` |
| `restore` in `authStore.ts` | `Launch`, `TryAgain` |
| `refreshSession` in `apiClient.ts` | `Renew` |
| `signIn`, `signUp`, `signOut`, the password screen | `SignIn`, `SignUp`, `SignOut`, `ChangePassword`, `LeaveAfterChange` |
| an answer, a lost call, a crash of the server | `Deliver`, `LoseAnswer`, `Crash` |
| time, the app stopped, another device | `Elapse`, `Idle`, `CloseApp`, `ChangeElsewhere` |

The system may stop the app in the middle of anything (`CloseApp`): its open calls go on at the
server, and nobody takes their answers. It may also put it to sleep over a launch, or over an
answer that has come but is not stored (`Idle`), for an hour or a month. `seen` notes the two
events after which less can be promised: `"late"`, that time passed while a phone did not know
its token had been replaced, and `"limit"`, that the limiter refused a refresh.

### Notifications, and how they correspond to the code

State. A message is its logical key (user, event, dedupe key), which is the unique key of its
`delivery` row. `pushes[m]` and `receipt[m]` are Expo's side: how often it was asked to show `m` and
what became of it on each device. Because a message goes to Expo once, the ticket of a device is
the device.

| Code | Actions |
|---|---|
| device and preference routes | `Register`, `Unregister`, `SetListening` |
| `notify`, `deliver` | `Notify`, `Reserve` (the insert that only one can make), `FindDevices`, `Send`, `DisableDead`, `Settle` |
| `reconcilePushReceipts` | `StartSweep`, `FetchReceipts`, `DisableSwept`, `WriteOutcome` |
| Expo | `Send`, `Report` (external) |
| a failed statement or call, a crash | `FailCall`, `FailSweep`, `Crash` |

### Bounds

`MaxDay` caps the clock, `MaxPayments`, `MaxSettlements` and `MaxCharges` the
rows, `MaxInFlight` the requests open at once, `LastAbort` the last day on which
a transaction may be aborted; `Amounts`, `Forgives` and `Deltas` are what a request may
ask (money, late fee to forgive, charge or discount to add), and `Corrections` what the owner
may write as the deposit held.
Two workers and one job are enough for every race here: each conflict is between
two transactions on one bill, the third being the job. Two bills are needed for a
payment of several bills and for the number series; one bill suffices for the fee.
The last day of a bounded clock stands for all later ones: the job may run again
on it, so *eventually* properties are not satisfied by the clock running out.
`CHECK_DEADLOCK FALSE`: when the clock and the requests are used up the system
may stop, as the program may have nothing to do.

In `Occupancy`, `MaxInFlight` is again the number of transactions open at once; with
1, a job run counts as one transaction from its list to its last stay, so those runs
say what the operations do in any order but without overlap. `Users`, `Stays`, `Beds`,
`Rooms` and `AllocationIds` bound the rows, `Capacities`, `Days` and `Periods` the
inputs. Two stays, two beds and one room are what every conflict here needs: two
stays for one bed, one stay with two beds, one person with two stays. A run that leaves
out bills, the job or maintenance also leaves out the inputs only they look at (`Owing`,
`Leaving`, `Service`). `occupancy_alone` leaves out deleting a room, which `occupancy_races` has.

In `Monthly` the clock runs from a month's ordinary days over its last day into the next
month (`FirstDay` 2 to `MaxDay` 4): a month-end run, the rollover that follows it, and
whatever a restart catches up with. Two processes and two stays are what a race for a period
or a number needs; `monthly_erased` needs a third stay, one to erase, one to hold the
highest number and one to be billed, and no second process. `MaxMishaps` (crashes and failed
statements) is one, the case `EveryoneBilled` is about; `MaxCalls`, one, counts what the owner
asks (an edit, an exit, a reading, the button), move-ins and erasures being free. One reading is
recorded at a time. The day changes only when no run is under way, a run taking seconds. `MoveIn` is one
step: its own races are in `Occupancy`. A constraint that fails every time is a `Fail` of
that run.

In `Electricity`, two rooms, two stays, one amount of 4 paise, two requests of the owner
beside the billing run, three requests in all, and one failure. The days (2 and 1, or one of
them gone) make shares that do not divide evenly, and the second room gives one resident two
readings in a month.

In `Phone`, one phone, two calls open at once (a retry of the launch beside a renewal or a
sign-in), four or five tokens, as many of them spare as losses may cost. `Grace` and `Timeout`
have the code's values, 120 seconds, because their being equal matters. Seconds pass only
while a launch waits for its next attempt, while a lost call runs into the client's timeout
(`Silent`, in both runs), and while the app sleeps or is closed; a timer that is due fires
before more of them do. The failure count of an account is not capped: `MaxFailures` bounds the
wrong passwords that users type, and is 0: the wrong ones here are those that were right when they were
sent, and changed before they arrived. `phone_accounts` has everything but
refreshes refused by the limiter (`Limited`): sign-up, password changes here and `Elsewhere`,
an account locked by one failure (`Threshold`), one loss. One new password is all it has
(`MaxPassword`), so two overlapping changes do not meet in it; what is proved has no such bound.
`phone_launch` has two losses and refreshes refused by the limiter, and no sign-out and no
change of password, after which a token is refused for good reason.

In `Notifications`, two users (a phone changes hands), two devices, one message each, two
processes, each with one `notify` and one sweep at a time, two registrations, two mishaps. The
age of 15 minutes and the limit of 300 rows of a sweep are any non-empty set of SENT rows.

### Runs

| Run | Question | Properties |
|---|---|---|
| `billing_latefee` | transactions one at a time over four days, with roll-backs: does the bill always say what its history implies? | `StatusIsDerived`, `ForgivenStaysForgiven`, `ClearedFeeStopsGrowing`, `MissedNightSelfHeals` |
| `billing_locks` | two requests and the job, statement by statement: is an allocation ever lost, does a check made under the lock still hold at the commit? | `TypeOK`, `CheckedUnderLock`, `PaidIsAllocated`, `ImplementsLedger`, `SettlementLeavesPaidPart` |
| `billing_numbers` | two bills, one key, across a financial year, the owner writing the deposit held over: is a key, a number or a settlement lost? | `KeySpentOnce`, `ReceiptsGapless`, `SettlementsGapless`, `DepositReadHolds` |
| `billing_nights` | does a stale total on an unpaid bill get put right? | `UnpaidBillsHeal` |
| `occupancy_alone` | stays created, moved, ended, reopened, erased, rooms that grow, shrink and close, bills changing in between, without overlap | `VacatedHoldsNoBed`, `BedFollowsAllocation`, `CapacityIsBeds`, `StandingOutlivesStay` |
| `occupancy_races` | two requests statement by statement: what do the indexes and foreign keys still guarantee? | `TypeOK`, `OccupiedBedsAreHeld`, `AllocatedBedsExist`, `ImplementsRegister` |
| `monthly_runs` | two processes, a crash, catch-ups, the button, move-ins and a meter reading: who is billed, and is the next number free? | `TypeOK`, `NextNumberIsFree`, `JobRunsOnce`, `RolloverCoversEveryone`, `EveryoneBilled` |
| `monthly_erased` | a violation: someone's data has been erased | `MonthStartCatchesAll`, see section 4 |
| `electricity_shares` | corrections, edits, entries and the billing run overlap and fail: what is charged? | `TypeOK`, `ReadingsFormChains`, `SharesAreExact`, `BillsFollowReadings` |
| `phone_accounts` | renewals, sign-outs, password changes, losses and stops of the app in any order: is anyone left without a token, or taken for a thief? | `TypeOK`, `RotationStrandsNobody`, `OneRenewalPerToken`, `LostAnswerForgiven` |
| `phone_launch` | answers are lost or refused and handlers die during a launch: does the phone find its session again? | `SignedInHoldsToken`, `LaunchRecovers` |
| `notifications_push` | repeated calls, failures, crashes and overlapping sweeps: is a message shown twice, does its row say what happened? | `PushedAtMostOnce`, `StatusIsEarned` |

`BedFollowsAllocation` and `VacatedHoldsNoBed` are checked without overlap because they
fail with it: the code reads without locks there, and what is left is what
`occupancy_races` checks. `OccupiedBedsAreHeld` in turn needs that nobody's data is
erased while a move is under way, so that run leaves `deleteResidentData` out.

### Fairness

Two runs need any. In `billing_nights` the clock and the nightly
job are weakly fair: cron fires every night. The job's own steps are strongly fair,
because a payment may hold the row it waits for again and again, and the database
queues lock waiters. A worker's next statement is fair because an open transaction
either continues or is rolled back by its timeout. No request is assumed to arrive.

In `phone_launch` a handler's next statement and the delivery of an answer are weakly fair:
a server that is up goes on, and what is lost or dies is an action of its own, bounded by
`MaxLosses`. The timers (`TryAgain`, `Elapse`) are strongly fair, because a busy moment of
another flow may disable them again and again. The user does not have to do anything.

`EveryoneBilled` says *eventually* without fairness: it is an invariant about the moments at
which a process is up and everything that was to run has run.

## 3. What is proved

**Billing.** For every set of bills, workers and keys, every category, due day,
opening amount and late-fee setting allowed by the named assumptions of `Billing` and
`BillingRules`, with any number of transactions in flight:

| Theorem | Says |
|---|---|
| `TypeCorrect` | `Spec => []TypeOK`; the one step that needs thought is that the recomputed bill is again a bill: `RecomputedBill`, from the lemmas on the latest payment day |
| `ChecksHoldAtCommit` | what a payment or settlement checked under the lock is still true when it commits |
| `KeysSpentOnce` | no idempotency key has two payments or two settlements |
| `ReceiptNumbersGapless` | each financial year's receipt numbers are exactly 1..n |
| `SettlementNumbersGapless` | and so are its settlement numbers |
| `LedgerImplemented` | `Billing` implements `Ledger` |
| `SettlementsLeavePaid` | no settlement leaves a bill asking for less than was paid on it |
| `DepositReadsHold` | two settlements never take their part of the deposit from one reading of it; only the owner may write it over in between |
| `PaidAllocated` | what a bill counts as paid is the sum of the payments allocated to it |
| `TotalsAgree` | total and status of a bill follow from its lines and payments, if `MaxInFlight = 1` |
| `ForgivenStays` | fee and forgiven fee together stay under the cap, if `MaxInFlight = 1` |
| `ClearedFeeStops` | the fee of a cleared bill does not grow, if `MaxInFlight = 1` |
| `MissedNightHeals` | the night leaves the fee of its day, whatever nights were missed, if `MaxInFlight = 1` |

The argument. `TypeOK` is inductive alone. `CheckedUnderLock` is not: it needs
`LocksExclusive` (two transactions past `LockBills` have no bill in common), and that a job
or a charge never writes a row that is locked. `StepKinds` sorts the steps by what they can
change (quiet, starting, ending, moving, committing) so that each invariant is argued once
per kind rather than once per action. The number series need `Held`: the number a
transaction holds is the current end of its year's series and the key it carries is unused,
which the locks taken by `ApplyPayment` and `ApplySettlement` keep true up to the commit.
The refinement then puts the four together: at `CommitPayment` the check gives "never more
than is asked", `Held` gives one receipt per bill, and a recompute by anyone else is a
`Reprice`. `SettlementsLeavePaid` is `CheckedUnderLock` used at `CommitSettlement`.
`DepositReadsHold` is inductive with `LocksExclusive`: there is at most one deposit bill, and
a settlement of it keeps that bill locked from before it reads the deposit held until it has
written it. `PaidAllocated`
needs that the sum over a sequence of payments is a running sum: adding a payment adds its
part to the total before it, which is shown by taking the least position at which it would
fail (`AllocatedLonger`).

The last four hold only without overlap, and section 4 says what overlap does to them.
`MaxInFlight = 1` enters the invariant `Fees` as `Alone`: nobody else is at work, so what a
recompute has read of the row and its lines is still so when it writes (`ReadsHold`), and
every bill is as a recompute left it (`Priced`: total, status, cap, and for a cleared bill the
fee that depends on no day). Fee and status are then lemmas on `recomputeInvoice`
(`RecomputedAgrees`, `FeeUnderCap`, `RecomputedFixed`). The proof found that a bill must be
recomputed in the transaction that issues it, as `raiseCategoryInvoice` does; the model had issued
bills that no recompute had seen.

**Occupancy.** For every set of people, stays, rooms, beds, allocation ids and
workers, dates and sizes, with any number of transactions in flight, under
`OccupancyAssumption`: dates and sizes are natural numbers, the set of beds is finite
(beds are counted), and `None`, `Gone` and `Nightly` are not ids, rows or workers:

| Theorem | Says |
|---|---|
| `RowsStayWellFormed` | `Spec => []TypeOK`; `TypeOK` includes what a transaction that has reached a statement must have been asked and have read (`Asked`), without which its writes cannot be typed |
| `AllocatedBedsStay` | no bed an allocation points to is ever deleted |
| `OccupiedBedsHeld` | a bed shown as OCCUPIED has an open allocation, if `"delete" \notin Ops` |
| `RegisterImplemented` | `Occupancy` implements `BedRegister` |
| `EndedStaysHoldNoBed` | a stay that has ended holds no bed, if `MaxInFlight = 1` |
| `BedStatusFollowsAllocations` | a bed is OCCUPIED exactly while an allocation of it is open, if `MaxInFlight = 1` |
| `RoomsHaveTheirBeds` | a room has as many beds as its capacity says, if `MaxInFlight = 1` |
| `StandingEndsWithLastStay` | standing as a resident is lost with the last stay only, if `MaxInFlight = 1` |

The argument. `StepKinds` splits the steps into those that only ask or read (`Asks`),
which change no row, and the commits (`Writes`). What a commit does to the table of
allocations is said once, by lemmas on tables: `Opened` (one fresh row is added to the
open ones), `Ended` (the rows that were read are taken out of them), `Deleted`; and
`Kept`, that a row keeps its stay and bed for good. `AllocatedBedsExist` is inductive
with `TypeOK`: the foreign key keeps beds with a history, and a row is opened on a live
bed. `OccupiedBedsAreHeld` is inductive once no transaction is erasing anyone
(`NoErasure`), because only an erasure takes away an open row without freeing its bed;
`"delete" \notin Ops` is that restriction, and TLC finds the state it excludes. The refinement
needs two more invariants: `Indexed`, what the two partial unique indexes make of the
table, and `MovesAway`, that the rows a move has read, if they still exist, are of its
own stay and not on the bed it wants. A move whose row has ended meanwhile is then a
`Take`, any other a `Move`, and an exit or an erasure a `Leave`.

The four theorems with `MaxInFlight = 1` share one invariant, `Serial`: nobody else is at
work (`Alone`); what the one transaction has read, of the stay, its open allocations, the
bed it wants, the other stays of the person and the beds of a room, is still so (`ReadsHold`);
the job's list holds active stays that owe nothing, each once (`JobLists`); the labels of a
room's beds are 1 to its capacity (`RoomsFit`, of which `CapacityIsBeds` is a consequence by
counting). The properties on beds and ended stays are part of it, the one on standing follows at
the step that ends a stay.

**Monthly.** For any number of stays, processes, days, failures and requests, under
`MonthlyAssumption` (the stays are finitely many, and can be counted):

| Theorem | Says |
|---|---|
| `MonthsWellFormed` | `Spec => []TypeOK` |
| `JobsRunOnce` | a job works at most once per month |
| `NextNumbersAreFree` | as long as nobody is erased, `count() + 1` is a free number under both prefixes |
| `RolloverCovers` | a rollover that succeeded has left a bill with everyone who lives in the month and was on the books before it |
| `EveryoneIsBilled` | after one mishap, some run has billed whoever was on the books before the eve of the month, or both have collided with the button, a move-in or a meter reading |

`JobRunsOnce` is inductive with `TypeOK`. The numbers need `NewcomersInv` (whom a move-in is
about has no bill yet), `HeldInv` (a rent bill that is inserted and not committed is the only
one of its stay and month), and `NumbersInv`: until someone is erased, no number is past the
count of its month plus one, be it on a bill (`BillsLow`), with a run that is about to insert it
or has not committed it (`Room`), or with a meter reading (`ReadingLow`, for several bills at
once). Bills are only added until someone is erased, so what was low when it was counted stays
low, and what is no longer free is refused by the unique key. `RolloverCovers` rests
on `CoverInv`, which is about both runs: whoever lives in the month and was entered, reopened
or put off before the run's first day (`since`), and for the month-end run stays on, is billed or
still known to the run at work (`RunsKnow`), and has a bill once it succeeded (`RunsCover`).
Nobody is added to those while the run works, because whatever the owner enters then has today
as its `since`.
`EveryoneIsBilled` adds `RolloverTried`: a process is down, or catches up, only after a mishap;
so with at most one of them, as long as nobody has claimed a month's rollover every process
that is up is about to. Once nothing runs the rollover has therefore been tried, and if it or
the month-end run succeeded `RunsCover` applies.

**Electricity.** For any rooms, stays, histories, amounts, requests and failures, under
`ElectricityAssumption` (stays and rooms are finite sets; `None` is not a stay, a room or a
number):

| Theorem | Says |
|---|---|
| `ElectricityWellFormed` | `Spec => []TypeOK` |
| `ReadingsChained` | the readings of a room form one chain that ends in its active one |
| `NoPaisaLost` | when a reading is recorded its shares add up to its charge, each less than a paisa off its days' worth |
| `BillsFollow` | a request of the owner without company leaves the bills as the active readings say |

Shares are sums over sets, and `SumFunctionOnSet` is a recursive function on the subsets of
a set. That it exists and is unique, that a sum splits over two sets and that it is bounded
by its terms are shown by induction on subsets (`SubsetInduction`, from a smallest
counterexample: nothing is assumed of an operator). Largest remainders lose nothing
(`AllocatedPaise`) because the fractions, over the common weight, add up to the number of
paise left over; so there are at least that many rows with a fraction, and each gets at most
one. The chain needs that the reading a correction has found is of its own room: the unique
index on the ACTIVE reading of a room and month does the rest, the second of two corrections
failing at the commit. `BillsFollow` needs that nobody else of the owner's is in flight
(`AloneOK`), so that the shares a request has read are those of the active readings until it
has attached them (`InStep`), while the billing run inserts only bills that did not exist.
The proof found that two guards of the model's `LinesAfter` overlapped, so that TLA+ left
open which of them applied; they are now tried in the order of the code.

**Sessions and the phone.** For any number of phones, calls, tokens and losses:

| Theorem | Says |
|---|---|
| `SessionsWellFormed` | `Spec => []TypeOK`; `TypeOK` includes that an answer which signs in carries a token whose row is stored |
| `NobodyStranded` | a family that is not over has a token that still works |
| `RenewsOneAtATime` | a phone presents a token in one open call at a time |
| `SignedInWithToken` | who is signed in has a stored token, until the limiter refuses a refresh |
| `LostAnswersForgiven` | no answer that got lost, and no stop of the app, is taken for theft until an answer gets lost late or the limiter refuses a refresh, if `112 <= Grace` and `MaxLosses <= 5` |

`NobodyStranded`: the invariant is `Chains` (a replaced token has a later successor of its own
family) with `Renewing` (a call about to rotate has stored the successor it names). A family
that is not over then ends in a live token: take its largest one (`LargestToken`, a set of
bounded numbers being well founded); it has no later successor, so it is live.

The other three relate the flows of a phone to their open calls (`FlowsOK`): a flow waits for
one call at most, a launch and a renewal of one phone never for the same token, and what a
successful answer carries is a token whose row is stored. `LostAnswersForgiven` adds `Timely`,
kept as long as nothing is `seen`: a token is held by one phone and refreshed by one call
(`OneHolder`), an answer carries a token that nobody holds yet (`NewUnused`), and what a phone
keeps is unused, or is what its launch retries, or was replaced no longer ago than the losses
have cost, while its renewal waits or the app is closed (`StoredSound`). The n-th retry of a
launch is due 2, 7, 22, 52 or 112 seconds after it began, and each retry has cost a loss
(`BootInTime`); so a token that was replaced is presented within `Due(losses)` seconds
(`RunsInTime`), and only the handler that looks it up can find it reused (`FoundReused`). `Grace` is the
code's 120 seconds, and six losses outlast it. The proof found that the model let time
pass a timer that was due.

**Notifications.** For any users, devices, topics, processes, registrations and mishaps:

| Theorem | Says |
|---|---|
| `OnePush` | a message is handed to Expo at most once |
| `StatusEarned` | SENT and DELIVERED are said only of what was sent, and reached a device |

The invariant says that a call which has reserved its row holds it alone, that it is PENDING
and that nothing was sent before its `Send` (`HeldAlone`), and that what a sweep is about
was pushed and is no longer anybody's to settle.

Every safety invariant and action property that a passing run checks is stated by a
theorem. Only model-checked, because the prover cannot do it: liveness under fairness
(`LaunchRecovers`, `UnpaidBillsHeal`). A hypothesis on the constants stands for something
that really breaks the property, see section 4: the same instances with `MaxInFlight = 2`,
for one, violate what is proved for `MaxInFlight = 1`.

## 4. Where the code and its documents differ

One run TLC must find violated; `PROJECT.json` quotes the sentence.

| Run | Code | Sentence |
|---|---|---|
| `monthly_erased` | bill numbers are `count() + 1`; after `deleteResidentData` took a bill away, that number is in use, the insert fails, and so does the rest of the run, the rollover included | "The month-start run still checks that everyone has a bill" (`docs/0005-billing-rules.md:93`) |

Seen with TLC on the same modules while they were written, and not kept as runs.

Billing:

- the job lists only unpaid bills, so a stale total on a PAID one stays
  (`invoice.service.ts:73`: "a missed night self-heals");
- a key is looked up before the transaction, and a racing repeat is refused
  (`payments.service.ts:270`: "returns the ORIGINAL payment");
- forgiving only the fee of a bill whose rent is paid moves `settledOn` to today, and the fee grows
  again (`settlements.service.ts:341`);
- a recompute that waited behind a payment writes back the status it computed before
  it, so `StatusIsDerived` fails as soon as the job and a payment overlap
  (`billing.calculations.ts:282` says status is derived, never set);
- the loser of two racing settlements is refused by the plan before it can reach the
  unique key whose handler would give it the winner's receipt (`settlements.service.ts:384`);
- adding a charge or undoing a waiver re-runs the late fee of a PAID bill
  (`docs/0005-billing-rules.md:149` says a PAID bill is frozen);
- the owner's correction of the deposit held, made between a settlement's reading of it and its
  write, is lost (`settlements.service.ts:347-353`, `residents.service.ts:942`); it also leaves
  the deposit bill as it was, so what is held and what that bill says need not agree;
- a payment dated earlier is checked against a fee that its own recompute removes, so
  more can be paid than the bill asks (`docs/0007-payments.md:6`: "never more").

Occupancy:

- a move that read the stay before an exit committed gives the ended stay a bed;
- the job demotes the membership but not the account's own role, unlike `exitResident`;
- two requests that add the same signed-up person at once give them two active stays
  (`residents.service.ts:693`: "One active stay per person per property");
- two edits of one room at once leave its capacity and its beds apart;
- a bill raised between the read and the commit of an exit does not stop it, and
  erasing an ended stay while a move of it commits leaves a bed OCCUPIED by nobody.

Monthly:

- month-end billing or the rollover, overlapping the button, a move-in or a meter reading, may
  collide on a number and fail; nothing runs a FAILED period again, which is why `EveryoneBilled`
  excepts it;
- who is entered after the rollover with a joining date before the month is billed for the month
  of that date alone (`invoice.service.ts:437`), and no job bills the month it happens in;
- a stay that ended and is made ACTIVE again keeps its `actualExitDate`
  (`residents.service.ts:951`): its rent after that day is 0 and it is never billed; both are
  why `RolloverCoversEveryone` and `EveryoneBilled` speak of who was on the books, and `Occupied`;
- one count serves both prefixes, so rent bills skip the numbers that electricity bills took, and
  the other way round;
- a crash between the commit of a bill and its `notify` leaves the resident untold: the next
  run finds the bill and has nothing to say.

Electricity:

- a resident of two rooms in one month has one line: the second room's reading replaces the
  first one's (`electricity.service.ts:251`: "not silently lost"), and with no bill raised
  yet the two shares collide, and every attempt to attach them fails;
- two attempts to attach that overlap may leave the line of the older reading;
- attaching overwrites a line that was entered by hand (`electricity.service.ts:407`: "it
  never erases what was already billed");
- a correction, after someone turned out to have left before the month, leaves their old
  line.

`BillsFollowReadings` states what is left: one request at a time, one share per resident.

Sessions and the phone:

- the grace window is as long as the client's own timeout, so a refresh that takes all of it to
  get lost is retried when the window has just closed; an app that is stopped or put to sleep
  after the server has rotated, and opened again after two minutes, is late as well. The family is
  revoked as if its token had been stolen (`auth.service.ts:311`), which is why
  `LostAnswerForgiven` and `LaunchRecovers` except what got lost late;
- a refresh refused by the rate limiter (`auth.routes.ts:146`) makes a launch drop its token, and
  a late retry of a launch that meets it clears the keystore of a phone that has signed in
  meanwhile (`authStore.ts:64`: "True only when the server itself refused the token");
- six losses in a row outlast the grace window; a renewal that meets a dead network drops
  the session;
- the late answer of an old retry or renewal overwrites the session of a newer sign-in;
- a refresh in flight survives a password change (`auth.service.ts:402`: "Every other device
  is signed out");
- rotation is several statements, where `docs/0003` (line 100) has it in one transaction,
  which is what `RotationStrandsNobody` is about;
- concurrent failed sign-ins read one count and write one, so more of them than the threshold
  pass before the account is locked.

Notifications:

- a crash after the reservation leaves the row PENDING for ever: nothing retries it
  (`docs/0006` line 18 has "Attempt counter + terminal states");
- with the receipts of only some devices in, a message may be FAILED although another device
  received it (`notification.service.ts:252`: "ANY of the user's devices received it"), and
  overlapping sweeps can turn DELIVERED into FAILED;
- a send may go to a phone that another account has registered since, and a stale receipt
  may disable a device registered again.

Read, and not run: a resident who moves within one room in a month breaks the unique key on
a reading's shares; whoever moved in on the 29th to 31st is left out of a reading's month
(`electricity.service.ts:153`); `recordElectricityBill` has no idempotency key; a complaint
set to the same status twice without a reopening is told once, its limit of three open ones
can be passed by two requests at once or by reopening, and its reopenings are counted from a
read outside the transaction.

## 5. Not modelled, and why

- `proratePaise` and the amounts of rent and added services: `Monthly` says who is billed,
  `Billing` starts from an amount. They are arithmetic of one call, and worth a module of
  operators checked against a reference definition.
- `createRentReminders`, which reads bills and calls `notify`; the texts of messages.
- Complaints: the races above are on one row that nobody else reads. Mess, daily operations,
  registration details: single-row calls.
- Settings and app releases (one row, overwritten whole), room types (templates that are
  copied), the dashboard and the public site (read-only), uploads (pure I/O), routes
  (validation and forwarding), the legacy website.
- Screens of the app, with one thing worth a model: the idempotency key that `collect.tsx`
  keeps while its amounts are edited.
- Erasing a stay's electricity lines; accounts that were deactivated (`ACCOUNT_INACTIVE`);
  more than one account in `Sessions`.

Most of the repository's lines are in this list (screens, routes, contracts, seeds, the old
site), which is why the map covers a small part of them.

Next would be: an abstract session family as a single live token, implemented by `Sessions`;
what the late fee and the number series keep of their meaning under overlap, as weaker
theorems without `MaxInFlight = 1`; and a composition of `Monthly` with `Notifications` for who
is told of a bill.
