# Verification of Zyn

Zyn is a desktop application that runs checkout tasks against retail sites. This directory
holds TLA+ models of its concurrent core, the TLC runs that check them on small instances,
and TLAPS proofs of their main properties for every value of the constants.

Seven subsystems are modelled: the life of a task inside the Go engine (`TaskLifecycle`, whose
use of the site slots implements `SiteSlots`), what a Target task does between its start and
its stop (`TargetCheckout`), the scheduler of task groups in the Electron launcher
(`TaskGroupScheduler`), the licence session of a desktop with the part of the licence service
that decides about it (`LicenseSession`), the outcome events on their way from desktop to
service (`AnalyticsOutbox`, an implementation of `ExactlyOnce`; `LicensedOutbox` puts it under
the licence session), the Stripe webhook with its receipts (`StripeBilling`), and the service's
encrypted backups (`BackupStorage`). The rest of the system is inventoried below.

    tlc -workers 2 -config MCTaskRestarts.cfg MCTaskLifecycle     # one run
    tlapm TaskLifecycleProofs.tla                                 # one module's proofs

`PROJECT.json` is the index: components, runs, the lines of code each definition models,
hazards, findings, theorems, and for each checked property a mutant of the code that
breaks it.

## 1. The system

Zyn is four kinds of process.

- The **launcher** is the Electron main process (`launcher/`, `runtime-app/public/`). It
  is single-threaded JavaScript: a handler runs to its next `await` without interruption.
- The **renderer** (`frontend/`) shows the launcher's state and sends it requests.
- The **engine** (`engine/`) is a Go process the launcher starts and talks to over one
  local WebSocket. Each message and each timer callback gets a goroutine.
- The **services** are Cloudflare Workers (`cloudflare/`) for licences, billing, backups,
  analytics and updates, over a SQL database and an object store.

### Inventory

| component | state it keeps | operations | interacts with | what makes it correct |
|---|---|---|---|---|
| Engine task lifecycle (`engine/frontend/functions.go`, `bot-base/task`) | `UserTasks`, a context, `stopOnce` and slot flag per run, `siteRunning`, `pendingSchedules`, the proxy pool | start-tasks, stop-tasks, start and stop timers, `InitTask`, `HandleTask`, `StopTask` | socket, proxy pool, site adapters | one terminal status per run; a stop stops; slots are returned; timers stay disarmable |
| Task-group scheduler (`launcher/task-group-scheduler.js`) | stored schedules, armed timers, groups whose readiness is being asked | `sync`, `fireStart`, `fireStop`, `pause`, `resume` | licence, restore, target-engine bridge, group store | no stored start or stop is forgotten; nothing runs while paused or signed out; starts are due |
| Target-engine bridge (`helpers/target-engine.js`) | `runningTaskIds`, monitor wish, owner and generation, pending starts, the engine process | start, stop, monitor start and stop, engine exit, status and done messages | engine, scheduler, renderer | the launcher's view and the engine's agree once messages have arrived; no run is reported twice |
| Licence session (`launcher/license-authority.js`) | token, account, kind, entitlements, time of the last good check; a file on disk | login, reset, `validate`, logout, lock, change of kind, requests of others | licence service; `onStatus` and `onLock` drive the scheduler | a token and the account it belongs to are never mixed; a late answer for an old session does not touch the new one |
| Analytics outbox and ingest (`launcher/analytics-recorder.js`, Worker) | outbox entries per owner, sealed telemetry batches; rows per event | record, flush, retry, deleteAll, ingest | licence session | every event counted once, for the account it happened under |
| Cloud backup, desktop (`launcher/cloud-backup.js`) | state file per account, busy flag, timer | upload, restore, claim of legacy state, retry | licence session, scheduler | single flight; never data of one account under another |
| Cloud backup, service (Worker) | rows and objects | upload, list, get, delete, reconcile, deletion of the user | object store, database | an acknowledged backup is kept, a deleted one stays deleted, both stores agree |
| Licence service (Worker) | licences, devices | login, validate, set kind, admin changes | launcher | the device limit holds |
| Billing (Worker) | users' access, seen events, claims | Stripe events, claims | Stripe | a payment has its effect once, in any order of delivery |
| Target checkout (`engine/sites/target`) | the task's step, selection, cart and order numbers, the watch list | one step per turn of the loop, edits of the list, restock pings | monitor hub, retailer, renderer | an order is reported once, under its own number, as what it is; nothing unwanted is bought |
| Proxy pool (`bot-base/proxy`) | assignments, owners by line, cooldowns, scores | get, release, result, replace lists | tasks | a line with a user is not handed out as free while others are |
| Monitor hub (`engine/monitor-hub`) | last ping per product, subscribers | publish, subscribe, match, mark out of stock | monitor and checkout tasks | no stock signal is lost to a waiting task, none consumed twice |
| Engine socket (`engine/frontend/ws.go`, `launcher/native-hyper-broker.js`) | connection, waiting requests by id | send, request, deliver, fail, reconnect | launcher, tasks | a request ends once, with its own answer |
| Renderer status feed (`status-coalesce.js`) | last payload per id | enqueue, flush, drop | renderer | the last status wins; a terminal one is not lost |
| Stores, provider clients, runtime manager, renderer, site modules, harvest room, generators | files, windows, requests | | | see section 13 |

### What is hard in it

- **Interleaving in the engine.** Start and stop of one id run on different goroutines.
  `StartTask` checks the registry, lets the lock go, may wait for a timer, and registers
  later; `StopTask` may find a run in any state in between.
- **State read before an await and used after it** in the launcher: a start that waits for
  the runtime download, a restore, a licence check.
- **Timers**: deferred starts, retries each minute, delays beyond what `setTimeout` holds,
  a machine that sleeps, a scheduler that discards all its timers on each sync.
- **Statements and answers** at the services: each await of a Worker lets other requests in,
  no transaction spans a database and a bucket, and a statement or a call to the bucket may
  take effect although its answer is lost.
- **Delivery**: batches sent again, dropped statuses, events out of order, two stores that
  are written one after the other.

`PROJECT.json` lists each hazard at the line where it bites, with the properties that would
catch it or the reason none does yet.

## 2. TaskLifecycle

Code: `engine/frontend/functions.go`, `engine/bot-base/task/{task,init,site_limits}.go`,
`engine/sites/target/{init,checkout}.go`.

A **call** is one `StartTask` invocation together with the `BaseTask` it may create, so
the same element of `Calls` names the goroutine and the run. A **stopper** is one
invocation of `StopTasks` for one id; the stopper of a stop schedule is the call that armed
it. Steps are cut where a lock is taken or given back, or where another goroutine can see
the difference:

| model | code |
|---|---|
| `StartTask` | the duplicate-start guard; called again by the start timer |
| `ArmStart`, `ParkStart`, `FireStart`, `StartCallback` | `scheduleStart`: `AfterFunc`, then `setPendingSchedule`, then the callback |
| `ArmStop`, `ParkStop`, `FireStop`, `StopCallback` | `scheduleStop`, the same way |
| `RefuseSite`, `MissingProfile`, `Register` | the site adapter's `StartTask` up to `UserTasks.Set` |
| `ReserveSiteSlot`, `MarkSlotReserved`, `CreateContext`, `FinishInit` | `InitTask` |
| `LoopHead`, `LoopStep` | `HandleTask` |
| `StopTask`, `QueueTerminalStatus`, `ReleaseResources`, `Deregister` | the body of `stopOnce` |
| `SelfStop`, `SelfStopReturns` | the task's own goroutine stops it and waits for whoever runs the body |
| `ReceiveStop`, `StopClear`, `StopGet`, `StopCall` | `StopTasks` |

`stopOnce` is `stopPhase`: the first caller moves it from `none`, others do nothing or, for
the task's own goroutine, wait for `done`. `Deregister` deletes by id as the code does, so
it can forget a later run. A checkout step is one action that may swap the proxy; what it
does on the network is left out. The pool is one bit per id.

Checked properties, and what would break them:

- `OneTerminalStatus`: a run's stop queues one terminal status whoever calls it.
- `StoppedNotRegistered`: no lookup finds a run whose stop has returned.
- `SiteLimitHolds`: slots never exceed `siteLimits`.
- `ImplementsSlots`: what a site sees is `SiteSlots`, in which each run asks once, is turned
  away only by as many holders as the limit, and gives back once what it has. `SlotOf` reads
  the state of a run off its flag and its place in `InitTask`. A counter that runs ahead of
  the flags, so that a run is turned away while a slot is free, would break it and no
  bound on the number of holders.
- `CancelledRunsReturnSlot`: a stop that had a context to cancel gives the slot back.
- `UnreachableOnlyByDoubleStart`: a run the registry does not lead to had a twin that passed
  the guard too. This is the exact extent of the check-then-act in `StartTask`.
- `ArmedTimersReachable`: a schedule timer that can fire can be disarmed.
- `CancelledRunExits`, `StopCompletes`: liveness of the loop and of the stop.
- `StoppedRunsAreCancelled` is what the repository's test asserts, and fails; see Findings.

## 3. TaskGroupScheduler

Code: `launcher/task-group-scheduler.js`, `task-group-schedule.js`, `target-group-launch.js`
and the wiring in `launcher/bootstrap.js`; the part of `target-engine.js` that decides who
runs and who owns the monitor.

One thread means that a sync pass and the readiness results (microtasks) that follow it
cannot be interrupted: `queue` and `starting` hold what is left of them, and every other
action needs `Idle`. A restart may come at any point.

| model | code |
|---|---|
| `Sync`, `SyncStep`, `ProcessGroup` | `sync` and `processGroup` with `evaluateScheduleAction` |
| `FireTimer`, `Arm`, `ArmedAt` | `armTimer` and its callback, with the clipped delay |
| `FireStart`, `FinishStart`, `FireStop` | the functions of these names; `FinishStart` is also `failReadiness` |
| `StartTarget`, `AdoptMonitor`, `StopTasks`, `StopAll`, `StopMonitor`, `EngineFailure` | `target-engine.js` |
| `GuardedStart`, `LaunchReady` | `guardTaskHelpers` and `launchTargetAfterRuntime`: with `Remote` a start waits for the runtime and is void after any newer start or stop |
| `LicenseOk`, `Lock` | `onStatus` and `onLock` of the licence |
| `EndQuietly` | `onStatus` alone: the session ends and nobody is told to stop |
| `RestoreBegin`, `RestoreEnd` | `cloudBackupRestore` before and after its await |
| `RestoreRefused` | `cloudBackupRestore` while another restore or a backup is under way |
| `SaveGroups`, `ManualStart`, `ManualStop`, `TaskEnd`, `Restart`, `Tick` | the user, the engine, the process, time |

Data is cut down to what decisions depend on. A group is its schedule and one bit for
whether it has running tasks; a schedule is two times, 0 for none. Readiness and the
building of a launch are one choice: ready or not. `ManualStart` is not restricted by other
groups' activity, since the page that refuses trails the engine and the launcher does not
ask again. `LaunchReady` checks that there is a session and not its kind; `StopMonitor` calls
the unguarded `stopTarget`, which leaves a waiting launch alone: both as in the code. Two paths of
the authority end a session without `onLock`: a check that finds no token
(`license-authority.js:328`) and a sign-in that asks for a new password (402-411). They are
`EndQuietly`, and `lapsed` remembers that a session ended so and neither an engine session nor a
lock has come since.

- `StartStaysArmed`, `StopStaysArmed`: the scheduler throws all timers away on every sync
  and each path of `fireStart` must put one back; a stored time without one is a start or a
  stop that never happens.
- `PausedIsSilent`: no timer survives a pause.
- `SignedOutIdle`: after a lock, or a change to a harvester session, no group runs and no
  runtime download that comes late starts one, until there is an engine session again. It speaks
  of locked sessions only: after a quiet end tasks do run on, see sections 11 and 12.
- `LaunchesAreDue`: what is launched is due by the schedule stored at that moment, whatever
  edit or stop came between the timer and the launch.
- `StopBoundaryCloses`: a stored stop is carried out, replaced, or met by a pause.

## 4. LicenseSession

Code: `launcher/license-authority.js` with its HTTP client, and from
`cloudflare/license/src/index.js` what decides whether a token is accepted.

The authority is one thread, and every call of the service is an await. A call is a record
in `requests`, one per kind: it is sent with what the code reads before the await, served
with what the service decides then, and its answer, or the failure of the call at any time,
is handled with the state as it is by that time. `use` stands for the fifteen calls that only
read the session and validate again after a 401.

| model | code |
|---|---|
| `StartValidate`, `Validate` | the five-minute timer and forced status checks; `revalidateUnauthorized`; single flight |
| `StartLogin`, `StartReset`, `StartLogout`, `StartMode`, `StartUse` | the handlers up to their call |
| `Answer`, `Fail` | the handlers after their call |
| `AcceptLicense`, `SaveSession`, `Lock`, `Unavailable`, `AskForReset` | `acceptLicense`, `saveSession`, `lock` with `clearSession`, the offline branch, a required password reset |
| `Serve`, `Mint`, `Revoke`, `RequireReset` | the Worker: answers, minting with replacement of the device's tokens, other devices and administrators |
| `Invalidate`, `StartTasks`, `StopTasks`, `Restart`, `Tick` | the launcher, the process, time |

Time is kept as ages: what matters of a validation time is whether it is within the grace,
so an age stops at `Old`, one more than the grace, which is also the age of a time that was
never set. The model is finite without a last moment, which the liveness properties need.
A write of the session file may fail, when it is saved and when it is cleared. Sign-in is
offered only to a session that is not active, as the page does; tasks are one bit.
`lastAnswer` is not in the code: it is the age of the last answer `acceptLicense` took.

- `OfflineWithinGrace`: the grace is measured from a time in memory and one read before the
  call, which may come from disk. No order of failures, restarts, sign-outs and failed saves
  makes it start later than the last answer.
- `StoredMatchesFile`: when the page says that the session is kept, the file has this
  session's token, account and validation time. After a failed save an older file is there.
- `RevokedSessionEnds`: a session the service has ended does not stay active, whether the
  check hears of it or fails until the grace is over.
- `OutageEnds`: a session that was made inactive by an outage comes back without the user.

No run checks `BackupBound`, what a call for an account carries, and tasks that outlive their
session: the code keeps neither, and sections 11 and 12 say when.

## 5. AnalyticsOutbox

Code: `launcher/analytics-recorder.js`, `recordAnalytics` and `deleteAnalytics` of
`launcher/license-authority.js`, and `ingestAnalytics` and `deleteAnalytics` of
`cloudflare/license/src/index.js`.

A cart, checkout or decline the desktop observes is an **entry**: the account the app shows at
that moment and the event's id. It is in the outbox, in the outbox's file, in a call, or a
row of the service, and may be in several of them at once.

| model | code |
|---|---|
| `Record` | `record`, with the cap and `saveOutbox` |
| `FireTimer`, `SessionChanged`, `Flush` | the timers of `scheduleRetry`, `onStatus`, `flush` up to its await |
| `UploadOk`, `UploadFails` | `flush` after its await |
| `DeleteAll`, `DeletionOk`, `DeletionFails` | `deleteAll` before and after its await |
| `Restart` | the process |
| `Store`, `StoreLate`, `BreakOff` | `ingestAnalytics`, of a call that is awaited, and of one the desktop has given up |
| `Erase`, `EraseLate` | `deleteAnalytics`, of a deletion that is awaited, and of one the desktop has given up |

Whose an entry is and where it is counted are two things. The recorder goes by the e-mail of the
session, `user`; the service stores and deletes under the account of the bearer token of the call,
`token` when it is made and `carrier` from then on. `SessionChanged` takes both to any values,
also to those of two accounts, which the authority can hold.

A write of the file may fail, and the outbox in memory goes on. `observed` and `counted` are not in
the code: all that was recorded, and all that ever was a row. A call may fail on the
desktop while the service works on it: what it has still to store moves from `request` to
`late`, and the account it has still to erase from `erasing` to `lateErase`. The service stores a
batch in parts. Which events the cap drops is a choice; the code drops the oldest. One deletion is
awaited at a time. Sealed telemetry batches are left out.

`ExactlyOnce` is what the two sides promise together: observations wait, are counted at most
once by an account, may be lost, and an account may erase its own. What was observed under one
account may be sent under another (`Divert`): nothing in recorder or service forbids it.

- `ImplementsOnce`: the outbox and the rows implement `ExactlyOnce`, with `Waiting` as what
  may still become a row: everything in the outbox, the file or a call that is not a row. An
  insert that does not ignore what is there, a row for what nobody recorded, or a deletion that
  takes another account's rows would break it.
- `KeptUntilCounted` is the other half, since `ExactlyOnce` lets everything be given up: an event
  leaves the outbox only when the service has counted it for the account of the call, when newer
  ones fill the outbox, when its owner deletes everything, or with the older file after a restart.
- `EventsArrive`: an event of an account that stays signed in leaves the outbox, unless from
  some time on uploads only fail. An outbox that is taken over only once its file is written
  would send the same batch for ever while the disk is full.
- `StaysWithOwner`: an account counts only what was recorded while it was shown as signed in. It
  is what the service's README says of account switches. It is a property of the composition,
  and fails there; see Findings.

### LicensedOutbox

`LicensedOutbox` runs `LicenseSession` and `AnalyticsOutbox` side by side, on one thread. `User`
and `Bearer` are what the recorder sees: the e-mail of the status while the session is active,
and the account of the token. Two variables are added: `email`, which the authority shows, and
`savedEmail`, which a validation reads before its call and shows again when that fails within
the grace. Every step of the authority that pushes a status is also a `SessionChanged` of the
recorder (`Push`), in the same step, as `onStatus` calls it.

## 6. TargetCheckout

Code: `engine/sites/target/{checkout,functions,errors,monitor_sub,requests}.go` and what a
task sees of `engine/monitor-hub`.

`TaskLifecycle` has the loop and its end; this module has what the loop does. An action is
the case of the `switch` for one step, with the errors that step handles, and the head of
the next turn, where edits of the watch list are taken (`HeadOfLoop`). What a request did at
the retailer is not what its answer says: a product may be carted, and an order placed,
although the task is told nothing or something else.

| model | code |
|---|---|
| `SignIn` | the fourteen steps and errors from the session to the address book |
| `Preload`, `PrepareCheckout`, `ClearCart`, `CartFiller`, `CartProduct`, `GetCart` | the steps around the cart |
| `TakePing`, `WaitEdit`, `WaitRefresh` | `waitForStockPing` |
| `Bailed`, `bailToRestock`, `Abandoned` | `maybeBailRestock`, `bailToRestock`, `abandonSelectedProduct` |
| `SubmitPayment`, `SubmitOrder`, `CheckCart`, `RemovePayment`, `CheckOrder`, `CheckOrderFails`, `CheckOrderMissing` | payment, order and its verification |
| `GetOrders`, `CancelFiller`, `Checkout`, `Decline` | the end of a round, and the next one of an endless task |
| `Again`, `Stop` | a request to be made again; a stop |
| `World` | pings of the hub, products that sell out in the cart |

The time of a ping is what it is compared by; its content is the product. Credentials,
harvested headers, addresses and prices are left out, and quantities are one. A payment that
finds an instruction already there reads the cart again, which overwrites the list of carted items
(`SubmitPayment`). For a cart that was reached the alternate way, `submit-payment` also prepares
the checkout on a goroutine of its own (`checkout.go:539`), whose outcome nothing waits for: left
out.

- `ReportNamesOrder`: what is reported as a success is an order placed for the product it
  names, not declined and not reported before. With a filler item there is one exception,
  and the property states it: a round that orders only leftovers keeps the number of the
  order before, which is then asked for and reported again.
- `DeclineIsTrue`: without a filler item, nothing is reported as declined while an order of the
  product, which the task has been told of and the retailer has not refused, is open. With
  a filler item it is not so: an order taken for leftovers may hold a product that was carted
  in an earlier round, and when that product is selected again its order is declined.
- `OrdersAreReported`: an order whose number is known is reported, also when its status can
  never be had. Verification and cancellation of a filler have limits, and this is what
  they are for.
- `ClearedCartIsEmpty` is what a test of the repository is named for, and fails; see Findings.

## 7. StripeBilling

Code: the webhook, `rememberStripeEvent`, `handleStripeEvent`, `upsertPaidUser`,
`storeBillingClaim`, `applyStripeInvoice`, `applyStripeSubscription` and
`claimBillingSession` of `cloudflare/license/src/{index,billing}.js`.

Every await lets other requests in, so an action is one statement of the database. Stripe
delivers an event again until it is told of its receipt, in any order, and also while an
earlier delivery is being handled.

| model | code |
|---|---|
| `Deliver`, `Remember`, `RememberFails`, `MarkProcessed` | the webhook around the handlers |
| `SelectBuyer`, `CreateUser`, `CreateConflicts`, `UpdatePaidUser`, `StoreBillingClaim` | a paid checkout session |
| `SelectCustomer`, `Renew` | a paid invoice, a changed or deleted subscription |
| `BreakOff` | a statement fails, or the Worker ends |
| `ReadClaim`, `TakePassword`, `TakeFails` | the receipt page |
| `ResetPassword` | the user's own password |

A checkout session makes a customer of its own, so the session stands for it and for the
password made for it. An account whose `access_until` is NULL has no end (`billing.js:28`):
`Unlimited`, which no purchase and no renewal counts as a time. Signature, catalogue, billing status and task types are left out.

- `HandledOnce`: no two requests handle one event, and none handles one that was done. The
  key of the table is all there is for it.
- `ReceiptOpensAccount`: the password on a receipt is the account's, also when one buyer pays
  twice and both requests find no account.
- `ShownOnce`: who asks for a receipt after its password was shown gets none. Two pages that
  both read the claim before either marks it are both shown the password; the property
  speaks of those that come later.
- No run checks a property of `access_until`, since the code keeps none without conditions. A
  purchase sets it to what Stripe says of that purchase, whatever the account had
  (`billing.js:264`), also when its event comes late; of a renewal and another event of the
  account that run between each other's read and write, the later write wins. Section 11 has what
  is true outside of these two.
- `PurchaseIsServed`: every purchase has its receipt in the end, or its handling has failed.
  It cannot be said without that: an event is remembered before it is handled, so one that
  breaks off is taken for known when it is delivered again, and `rememberStripeEvent` takes
  any failure of its statement for a known event.

## 8. BackupStorage

Code: `putBackup`, `listBackups`, `getBackup`, `deleteBackup`, `deleteUser` and the
maintenance of `cloudflare/license/src/index.js`.

A backup is a row of the database and an object of the bucket, and no statement writes both.
A request is a sequence of steps at one store each, `at` being the next, and any of them
may fail.

| model | code |
|---|---|
| `PutBackup`, `StoreObject`, `StoreFails`, `InsertRow`, `InsertFails`, `Discard` | `putBackup` |
| `ListBackups` | `listBackups` |
| `Retain`, `RetainFails`, `DeleteExpired` | `enforceBackupRetention`, by `created_at` and then `rowid` (`Newer`, `Rank`, `Expired`) |
| `ReadRows`, `ListObjects`, `DeleteOrphans`, `DeleteMissing`, `ReconcileFails` | `reconcileBackupStorage` |
| `GetBackup`, `FetchObject`, `FetchFails`, `Purge` | `getBackup` and `purgeBackupPair` |
| `DeleteBackup`, `DeleteObject`, `DropRow` | `deleteBackup` |
| `DeleteUser`, `EraseObjects`, `Cascade` | `deleteUser` |
| `Tick`, `Damage` | time; the bucket |

The desktop makes a random id for every upload (`cloud-backup.js:214`), so each is uploaded once,
and the answer to a second upload of an id, a conflict, does not occur. `created` is the
millisecond in which an upload began, as far as they differ; two uploads may share one, and the
order of their rows, `earlier`, decides then. A statement may fail with or without its effect, and
the bucket may throw when some of the objects are gone. `Tick` carries the one assumption about
time: no request is between storing its object and inserting its row for as long as the grace of
orphans, which is five minutes in the code (`BACKUP_ORPHAN_GRACE_MS`, `index.js:42`). The quota of
uploads and the sign-in check only refuse requests.

- `AcknowledgedIsKept`: a backup that was acknowledged, and is neither deleted nor damaged,
  has its row and its object as long as fewer than `Retention` newer uploads have begun. The
  clean-ups work with what they have read some steps ago; this is what their age limit and
  the order of their reads are for.
- `DeletedIsGone`: what was answered as deleted is in neither store, and stays so.
- `RetentionHolds`: rows exceed the retention only by uploads whose maintenance is still to
  come and by failures.
- `StoresAgree`: an object without row, or a row without object, does not last, unless the
  user is deleted: then nobody runs the maintenance any more, and objects of uploads that
  were in progress stay.

## 9. Runs

| run | question | bounds | states, time |
|---|---|---|---|
| `task_restarts` | the registry, slots, which implement `SiteSlots`, and repeated starts | two calls of one id, one of another, one stop, one slot | 414 548, 55 s |
| `task_schedules` | start and stop timers of one id; the loop ends, the stop completes | two calls, the first with both schedules, one stop | 127 294, 30 s |
| `task_stop_race` | fails: a stop during `InitTask` | one call, one stop | 1 s |
| `scheduler` | all properties, remote runtime | two groups, three kinds of schedule, three instants, one edit | 250 262, 160 s |
| `license_session` | safety and liveness of the session | one account with two tokens, a grace of one tick, one call besides a validation, one restart | 169 488, 100 s |
| `analytics_outbox` | the outbox implements `ExactlyOnce`; nothing is lost; events arrive | two accounts, one event id, batches and outbox of one entry, one restart, one deletion | 405 840, 170 s |
| `analytics_switch` | fails: events stay with their account | two accounts with a token each, one event, no restart | 10 s |
| `target_edits` | declines are true, orders are reported | two products, one edit, one order, limits of two | 907 148, 60 s |
| `target_rounds` | what is reported is an order of this round | one product, endless with and without filler, two orders | 2 720 216, 70 s |
| `target_clear` | fails: the cart after `clear-cart` | two products, one edit | 3 s |
| `stripe_billing` | events, accounts and receipts | one buyer, two sessions, one invoice, two requests, one page, one failure | 493 891, 95 s |
| `backup_storage` | the two stores | two backups, two requests, one backup retained, a grace of one tick, one failure | 470 679, 140 s |

Times are those of two workers.

**Why these bounds are enough to be interesting.**

- Every property of `TaskLifecycle` is about one run, one id or one site. Two calls of an id
  give the double start, a late stop that meets a later run, and a timer that replaces
  another; the third call competes for the only slot. A second stop-tasks message adds
  nothing to what the task's own stop and the stop timer already do concurrently.
- The scheduler's properties concern one group or the conflict of two. `Horizon` leaves
  time for a start, a retry and a stop; `MaxTimeout` = 1 is less than the distance to a window's
  end, so clipped delays occur; `CatchUp` = 1 is exceeded within the horizon; one edit is a save
  or a restart; a retry after `RetryDelay` = 1 falls on a window's end, or on no end at all.
- In `LicenseSession` two tokens give a session that is replaced and an answer about the
  token before; a grace of one tick separates just validated, within the grace and beyond
  it; one call besides the validation is enough for every pair of late answers that one
  thread can see, since a third changes nothing the second could not.
- In `AnalyticsOutbox` two accounts with the same event id give the change of account during
  a call and the token of the other account, and an outbox of one entry lets one account's event
  push out the other's. A batch that was given up and one in flight may hold the same entry, and
  the one deletion may be carried out late, while the event is recorded and sent again. A second
  deletion finds nothing the first does not.
- In `TargetCheckout` the second product is the one a task turns to. Two orders are the round
  before and this one. A limit of two has a first try that fails and a last one. One edit
  may come at any step.
- In `StripeBilling` two sessions of one buyer race for the account and are each other's
  newer customer; the invoice meets the purchase it belongs to before, during and after. One
  failure may hit any statement or any answer.
- In `BackupStorage` the second backup, of the same millisecond or a later one, expires the
  first; two requests of any kind interleave at every step, a tick may come at every step, and one
  failure may hit any.

The theorems of section 11 do not depend on any of these bounds.

Deadlock is checked in the scheduler, the licence session and the outbox, where something can
always happen. An engine whose calls are all over, a task that has stopped, a webhook
without events and a user who has no backups left may rest.

## 10. Fairness

`TaskLifecycle!FairSpec` is weak fairness of each call's goroutines, of the body of
`stopOnce`, of the stoppers and of armed timers: the Go scheduler runs every runnable
goroutine and a timer that is not stopped fires. Steps that read a site take long but have
timeouts of their own. Nothing is assumed of messages: a stop may never come.

`TaskGroupScheduler!FairSpec` is weak fairness of the sync pass and of readiness results,
which the event loop runs to the end, and strong fairness of `Tick` and of the firing of some due
timer, the earliest first. Weak fairness would be too little there, since both are disabled during each sync pass and the
licence check makes one every five minutes: but time goes on and the event loop serves due
timers however often a sync comes in between. Nothing is assumed of users, licence answers
or engine.

`LicenseSession!FairSpec` is weak fairness of time, of the five-minute timer, and of the end
of a validation: the HTTP client gives up after thirty seconds. Other calls may hang, and
every validation may fail. `OutageEnds` assumes in addition, in its own premise `Reachable`,
that of endlessly many validations not every one fails, which is what the end of an outage
means.

`AnalyticsOutbox!FairSpec` is weak fairness of the end of an upload, which the HTTP client's timeout
enforces, and of the licence check of the signed-in account, every five minutes; retry timers need
not fire and deletions need not end. Any upload may fail; that they do not only fail from some time
on is the premise of `EventsArrive`. So it shows that no flush stays stuck, and not that a retry
comes soon.

`TargetCheckout!FairSpec` is weak fairness of the loop in the steps behind an order, and of the
answers to the order history and to the cancellation of a filler, which means that they are
not refused for ever. Nothing is assumed of the order's status: it may never be had.

`StripeBilling!FairSpec` is weak fairness of each running request and strong fairness of the
delivery of each event that was not acknowledged: Stripe tries again for days. Strong,
because both requests the model has may be taken by others for a time.

`BackupStorage!FairSpec` is weak fairness of each running request and of time, and strong
fairness of `ListBackups`: the user looks at the list from time to time, and the desktop
uploads, which runs the same maintenance. Failures are bounded, so a list without failure
comes in the end.

## 11. Proofs

`TaskLifecycleProofs`, for any ids, calls, stoppers, sites and limits, from the assumptions
that calls are finitely many and the functions have their types:

- `Invariance`: `IInv` is inductive. The properties alone are not. `SlotsCounted` ties
  `siteRunning` to the runs between increment and release, through their cardinality, and
  gives the limit. `OnlyRegisteredStop` says that only registered runs are ever found and
  stopped, `ContextAfterSlot` orders context, flag and release, `TimersOwned` ties timers and
  `pendingSchedules` entries to the calls that wait for them.
- From it follow `TypeCorrect`, `TerminalOnce`, `StoppedGone`, `LimitKept`, and the theorems
  on cancelled runs, double starts and timers.
- `HandsOutSlots`: the detailed specification implements `SiteSlots`. Every step of a run is
  a step of the abstract one or a stutter; that the counter equals the number of abstract
  holders, which a refusal needs, is `SlotsCounted` again.
- Three theorems say how far the first finding of section 12 reaches. `LateStopsCancel`: as
  long as no stop begins between `UserTasks.Set` and the context, every run whose stop has
  returned has no live context and no slot. `CancelsForGood`: a cancelled context is not
  replaced. `LeavesForGood`: what a stop inside that window has left live or held stays so.

`TaskGroupSchedulerProofs`, for any groups, schedules, delays and both builds:

- `Invariant`: `IInv` is inductive. `StopsArmed` and `StartsArmed` are the armed-timer
  properties during a sync pass: they speak of the groups that are neither in `queue` nor
  in `starting`, and become the checked properties when both are empty. `TimersNotEarly` and
  `StartingIsDue` relate a start timer and a readiness result to the stored start, which a
  save can change only together with a sync that discards the timers.
  `LaunchesHaveSession` is what makes `SignedOutIdle` survive `FinishStart` and `LaunchReady`;
  like `SignedOutIdle` it excuses the time after a quiet end.
- `Handled` states once what handling one group does, whether the sync pass or its timer
  brings it up; the proof that a step preserves `IInv` goes through it.
- From it follow `TypeCorrect`, `StartsStayArmed`, `StopsStayArmed`, `PausedSilent`,
  `SignedOut`, and `LaunchesDue`, an action property.
- `StopTimersStayCurrent` and `BoundariesStay` are about the other direction: a stop timer is
  never for a stop that is no longer stored, and, saves and restores apart, no start and no
  stop leaves the store before its time. They are proved together: the stop of a window ends
  its start too, which is right only because windows are in order (`WindowsOrdered`), and
  during a sync pass a timer that is already armed must lie ahead (`StopTimersCurrent`).
- `OneGroupAtATime` says which starts make two groups run at once: one the page should have
  refused, or, in the build whose starts do not wait for the runtime, two that are looked up
  in one pass. Its hypotheses are these two, and the invariant `NothingInTheWay` says what a
  start on its way may rely on without them.

`LicenseSessionProofs`, for any accounts, tokens and grace:

- `Invariant`: `IInv` is inductive, in three parts. `SessionOK` says that no validation time
  in memory or on disk is later than the last answer, and with `StoredMatchesFile` ties the
  file to the session; `RequestsOK` says the same of the time a validation read before its
  call, and that calls answered for the account of their token have one. Without the last two
  `OfflineWithinGrace` is not preserved by a validation that fails after a restart or a
  sign-out.
- What `acceptLicense`, `lock`, the offline branch and a new validation preserve is stated
  once each (`AcceptKeeps`, `LockKeeps`, `UnavailableKeeps`, `ValidateKeeps`); the proofs of
  `Answer` and `Fail` only find out which of them applies.
- From it follow `TypeCorrect`, `StorageIsTrue`, and `OfflineIsBounded`, an action property.
- `LateAnswersMixAccounts` is about the root of the second finding: as long as every accepted validation
  and mode change arrives for the account that is signed in by then, no call carries another
  account's token (`BackupBound`). `SessionBound` and `CallsBound` carry the argument: account
  and token belong together in memory, in the file, and in the answers to a sign-in.
- `OnlyQuietEndsLeaveTasks`: a step that ends a session and leaves its tasks is a check that finds
  no token, or a sign-in that asks for a new password. Every other end goes through `lock` with its
  stop.

`AnalyticsOutboxProofs`, for any accounts, events and sizes:

- `TypeCorrect` contains that no account has more than one row of an event, and that the service
  works for a call under the account of its token; `Known`, that what is on its way or in the table
  was observed by somebody.
- `CountsOnce`: the detailed specification implements the abstract one. Every step is mapped
  to a step of `ExactlyOnce` or a stutter. A step may do both halves of the abstract one: an
  event that the cap pushes out is given up in the step that records the next, and what a
  deletion erases from the table waits again if some call still holds it. A flush is a stutter when
  the session carries its own token, and a `Divert` when it carries another's.
- `NothingTwice` carries the invariant of `ExactlyOnce` over.
- `StaysBounded`: outbox and file stay within `MaxOutbox`, a call within `BatchSize` and with
  the entries of one owner.
- `NoneLeavesUncounted` proves `KeptUntilCounted`. It rests on what a call in flight has behind it:
  what the service no longer works on was counted, under the account of the call. Deletions, late
  ones too, do not disturb that, since `counted` keeps what was ever a row.
- `OwnTokenKeepsEvents`: in a behaviour whose session never carries another account's token than
  the one it shows, `StaysWithOwner` holds. So that mixed session is the only cause of the second
  finding; nothing that is lost, stored late or restored from the file makes an event change its
  account.

`StripeBillingProofs`, for any buyers, sessions, renewals, requests and pages:

- `TypeCorrect` and `HandlesOnce` come from one invariant, in which what a request has read
  belongs to its event and an event in hand is remembered and not yet processed.
- `ReceiptsOpen` needs `PasswordsOpen`: the account a request has created opens with that
  session's password or with the user's own, before its receipt is stored and after. `ShowsOnce` is
  an action property.
- `OnlyPurchasesShorten`: as long as no other event of an account is about to be written between
  the read and the write of a renewal, the time of an account is shortened by a purchase of its
  buyer only; no renewal and no deletion of a subscription does, whatever period
  it is of and whenever it comes. `ReadsCurrent` says that what a renewal has read is then what
  is stored when it writes, which is an invariant of many steps: purchases, receipts, password
  changes and other accounts run in between.
- `EventsAccounted`: an event that Stripe was told is received, or that the table would keep
  out, was processed, is in hand, or its handling was broken off; there is no fourth way to
  lose it. `ProcessedIsServed`: a purchase that counts as processed has its account and its
  receipt; `StagesBuild` says what each stage finds of the one before, whatever ran between.

`BackupStorageProofs`, for any finite set of backups, any requests, retention and grace:

- `Invariant`: the inductive invariant says, for each stage of a request, what it may still
  rely on of what it has read (`WorkFits`). A request about to delete orphans holds none that
  an upload could still give a row, because it is older than any upload between its two
  stores; one about to delete rows holds none that has its object, because an object that
  was missing once does not come back.
- `KeepsAcknowledged` and `DeletesForGood` follow from it. That a row is not expired while
  fewer than `Retention` newer uploads have begun compares two cardinalities; the rows that
  are newer are among the begun uploads that are newer.
- `RetentionKept`: rows exceed the retention by no more than the requests that have still to
  enforce it and the failures so far. The statement that expires rows leaves those whose rank
  is below `Retention`; ranks are all different since rows of one millisecond are in the order of
  their insertion, which is total (`Ordered`), so what is left maps one to one into
  `0 .. Retention - 1` (`FewRank`). An upload that is still to be inserted counts as newer than the
  rows of its millisecond, so that an insertion makes nothing newer than it was (`FewBefore`). A rank is a cardinality, and the
  argument needs no induction over the rows.

`TargetCheckoutProofs`, for any products, watch lists, settings and limits:

- `Inv` is inductive. `Verified` says that between an order and its report the task holds
  the latest order, placed for its selection and not yet reported, or, with a filler, an
  earlier one; `NoneForgotten` says that without a filler every order that may still come is
  reported or held. `TaskFits` is what makes the head of the loop and the return from a
  sign-in leave both alone.
- A step is either one that has to do with no order (`Unrelated`), one between order and report
  (`StaysWithOrder`), or one of the three that place, check and report an order.
- From it follow `TypeCorrect`, `NamesOrder`, and `DeclinesAreTrue` for tasks without filler.
- `AbandonedIsLeft` is about the third finding: a task that never gives up a product it has
  selected leaves `clear-cart` with an empty cart (`ClearedCartIsEmpty`). `CartKnown` says that
  whoever clears the cart knows all that is in it.

Every invariant, action property and refinement that a passing run checks is thus a theorem.
**Only model-checked** are the nine liveness properties (`CancelledRunExits`, `StopCompletes`,
`StopBoundaryCloses`, `RevokedSessionEnds`, `OutageEnds`, `EventsArrive`, `OrdersAreReported`,
`PurchaseIsServed`, `StoresAgree`), since the prover has neither fairness nor `ENABLED`, and the
findings, which are counterexamples. The composition `LicensedOutbox` has no theorems. Induction over data and `RECURSIVE` operators are beyond
the installed provers too; these modules use neither.

Six theorems have hypotheses on the behaviour: `LateStopsCancel`, `LateAnswersMixAccounts`,
`OwnTokenKeepsEvents`, `AbandonedIsLeft`, `OnlyPurchasesShorten` and `OneGroupAtATime`. Each names a
step the code allows and shows that what goes wrong goes wrong by that step only; the runs of
section 12 show that the first, third and fourth do go wrong.

## 12. Findings

Each is a run that TLC ends with a counterexample, against a sentence of the repository.

1. **A stop during InitTask stops nothing** (`task_stop_race`). Between `UserTasks.Set` and
   the creation of the context `StopTask` has nothing to cancel, uses `stopOnce` up and
   deregisters the run, which then makes a live context and runs on: no stop finds it again,
   and slot and proxy stay taken. `task_stop_test.go:43-45` asserts a cancelled context.
   By `LateStopsCancel` that window is the only cause, by `LeavesForGood` it is for good.
2. **Queued events cross an account switch** (`analytics_switch`). A validation is sent, its user
   signs out and another signs in, then the validation fails within the grace: line 342 shows the
   first account's e-mail again, with the second one's token. The status it pushes makes the
   recorder flush the first account's events, and the Worker stores them under the second
   (`index.js:1737`). An answer that comes instead of the failure does the same at line 331.
   `cloudflare/license/README.md:188` says that queued events cannot cross an account switch. By
   `OwnTokenKeepsEvents` the mixed session is the only cause, by `LateAnswersMixAccounts` an answer
   that comes late is the only way to mix a session's id and token.
3. **A cleared cart keeps the abandoned product** (`target_clear`). `abandonSelectedProduct`
   sends a task that has carted its product to `clear-cart`, which removes `CartedItems`; but
   `add-to-cart` has emptied that list and nothing fills it again. The product stays in the
   cart and is ordered with the next one. `monitor_sub_test.go:152` is named for the contrary.
   By `AbandonedIsLeft` nothing else leaves a product behind.

The models allow, and the properties above are worded around, what else was seen in the code
and is said by no single sentence of the repository or was not given a run of its own:

- In the build that downloads its runtime, of two groups due at once the second launch voids
  the first without a word, after the first one's start was cleared; in the other build both
  run (`OneGroupAtATime`).
- A good licence check calls `resume()` during a restore, and a due group starts while its
  data is replaced; so does a restore that is refused because another is running. A restore
  refused because of a backup in progress has stopped all tasks for nothing.
- A monitor stopped while tasks run leaves its owner set; scheduled starts of other groups
  wait for a group that does nothing.
- The mixed session of the second finding concerns backups too. When the validation is answered
  before the sign-out and the answer arrives after the next sign-in, state and file hold the first
  account's id and the second one's token, and `backupRequest`, which compares ids, sends a backup
  of the first account with the token of the second, although
  `license-authority-smoke-test.js:170` and `encrypted-cloud-backup.md:45` promise the contrary.
- In the same way an event may be counted twice, once for each of two accounts: its call is stored
  under one after the desktop has given it up, and it is sent again under the other (`Divert`).
- A validation that fails after a sign-out, within the grace, makes the session active without a
  token (line 341); tasks start, and the next check ends it at line 328 without stopping them. So
  does a sign-in that must choose a new password (402-411). The tasks then run on under whatever
  session comes next, a harvester's too, until a lock or their own end, although
  `cloudflare/license/README.md:120` says that a session's end stops them. By
  `OnlyQuietEndsLeaveTasks` these two are the only such ends.
- A Stripe event whose handling breaks off, or whose first statement fails for any reason, is
  known from then on and not handled when it comes again (`billing.js:221`,
  `index.js:3630`). Of two renewals of one account at once the later period may be lost.
- A purchase that Stripe delivers late, or a second one of an account that has more time or no
  end, shortens its access to what Stripe says of that purchase. An account whose purchase breaks
  off after its row was created has no end.
- With a filler item and endless mode, a round that orders only leftovers reports the order
  of the round before again, and what the leftovers were is never looked at: a product
  carted earlier may be bought without a report.
- `deleteUser` removes the objects of the rows it has read; objects of uploads in progress
  and orphans not yet old stay in the bucket, since the maintenance runs for existing users
  only (`index.js:3187`).

## 13. Not modelled, and why

- Site modules other than Target's, antibot and captcha support, account generators and the
  harvest room speak protocols of third parties, for which there is no reference but the
  code; they run inside the modelled loop, where a step is a choice of outcomes.
- The proxy pool and the monitor hub are maps under one mutex each, whose operations do not
  wait; their callers' models have what they see of them.
- The desktop's half of the cloud backup is one operation at a time behind a timer; its
  interaction with accounts is in `LicenseSession`, with the service in `BackupStorage`.
- Stores and provider clients are synchronous file access or request and answer. The runtime
  manager and the update feed are input and output, represented by the time a start waits.
- The engine's server client is not part of the desktop build. The renderer is represented
  by its requests, and the status feed decides nothing.
- The larger part of the repository by lines is user interface, site scripts, parsing and
  transport, of which the models need only what comes of it.

## 14. Plan

What would be worth adding next, in this order.

1. `EngineBridge`: pending starts, monitor generations, the socket with reconnects and
   correlated requests on both sides, and its composition with `TaskGroupScheduler` and
   `TaskLifecycle`, which share the running tasks.
2. Sealed task telemetry, which is sent the same way but in batches of its own.
3. The desktop's `CloudBackup` over `BackupStorage`: a restore during uploads and retention.
