# A TLA+ verification project for employee_truck_control

The repository is a Django application in which fingerprint kiosks record the
working hours of employees, and an office manages employees, trucks, visitors
and users. This directory holds TLA+ modules for the parts of it that are hard
to get right, TLC configurations for small instances, and TLAPS proofs.

Contents: 1 inventory, 2 plan, 3 the modules, 4 the runs, 5 the proofs, 6 what
the code does differently from what it says, 7 what is not modelled.

Names of actions and variables are those of the code wherever possible. Paths
are relative to `src/`.

## 1. Inventory

**Deployment.** gunicorn runs three worker processes (`deploy/gunicorn.service`),
nginx in front, PostgreSQL behind. There is no `ATOMIC_REQUESTS`: each ORM
statement is its own transaction, except inside `KioskEnrollView` and where Django
opens one itself (`get_or_create`, a cascading delete). So requests
of different workers interleave between any two statements, and
`instance.save()` without `update_fields` writes back *all* columns of a row
that was read earlier. A systemd timer runs `auto_close_stale_attendance` every
night. Each kiosk is a Windows PC with a ZK9500 reader on which
`kiosk_agent.py listen` runs; it talks to the server over HTTP. A browser that
shows a list keeps asking the server for what is new and what has changed.

| Component | State | Operations | Interacts with | Hard about it | Correct when |
|---|---|---|---|---|---|
| Attendance service (`attendance/service.py`, `models.py`, nightly command, review view) | `AttendanceRecord`, `PresenceEvent` | scan, auto-close, review | kiosk API, cron, review screen, `Employee.is_active` | statement-level interleaving, full-row writes, crash between row and event, time limits | the cycle is followed, cooldown kept, log and table agree, abandoned shifts flagged |
| Attendance web views (`attendance/views.py`) | none of their own | review, lists, calendar, presence history | records, events, visits | polled lists, times without dates | the review ends what was flagged; the page shows what is stored |
| Kiosk API (`biometric/api_views.py`) | none of its own | enroll, next request, template sync, scan | attendance, enroll requests, templates | racing with the web UI, answers that are lost | a request is closed once, by one side; a touch is recorded once |
| Remote enrollment queue (`biometric/models.py`, `employees/views.py`) | `BiometricEnrollRequest`, `BiometricTemplate` | request, cancel, fulfil, delete | kiosk agent, web UI | check-then-create, fetch-then-save, late answers of a kiosk | the queue stays short, done is final and comes with its template |
| Kiosk agent and listener (`kiosk_agent.py`, `biometric/daemon.py`, `biometric/listener.py`) | template cache, listener thread, reader handle, armed and stop flags | listen, poll queue, capture, submit, refresh cache, reconnect | kiosk API, reader, callback | pause and resume of the listener, a thread that outlives `join`, failures in between, stale cache | the listener always resumes; one thread, one event per touch; a scan goes to the finger's owner |
| Biometric service (`biometric/service.py`) | SDK handle, SDK database | connect, capture, merge, identify | reader | same touch counted twice, handle lost | the samples of a template are distinct presses |
| Device authentication and devices (`biometric/auth.py`, `biometric/views.py`, `kiosk_device`) | `KioskDevice`, `KioskInstallerBuild`, failures per address | check a token, issue, revoke, delete, publish | every kiosk request | a row saved from a copy, lock freed in the middle, file and row | revoked stays revoked; blocked for the block time; listed means there |
| Login rate limit (`employee_truck_control/rate_limit.py`) | counters per address and account, one lock | count, block, reset | login view | lock held across the view, clock read before the lock | blocks are earned, hold, and end; only a login under way keeps the lock |
| Employees (`employees/`) | `Employee` | create, edit, (de)activate, fingerprint | attendance, trucks, visits, biometrics | CPF check-then-save, full-row saves | CPF as typed unique but for races |
| Trucks (`trucks/`) | `TruckBrand`, `TruckModel`, `Truck`, `TruckAssignment`, `TruckPhoto` | catalogue, trucks, gallery, assign, give back | employees, polled list | check-then-insert, check on a copy, second save that may fail | one driver but for races; the cover stays; each change of driver is announced |
| Visitors (`visitors/`) | `Visitor`, `Visit` | enter, edit, arrive, depart | employees, presence history | double departure, times of day in two zones | departure written once; the history is in order unless the arrival lay ahead |
| Live polling (`templates/base.html` and nine list views) | two cursors, rows on the page | poll new, poll changed, scroll | all list views | late commits, limits, equal timestamps, three requests in flight | no row twice or skipped; every change reaches the page |
| Accounts and audit log (`accounts/`) | `User`, `UserProfile`, `SystemLog`, links | create, activate, promote, own page, verify, log | sessions | two-step creation, full-row saves, change and log in two statements | a master is left; own column only; every change is logged |
| Backup and restore (`core/management/commands/`, `deploy/backup_db.sh`) | dump files, the database | back up, compress, prune, restore | the running server | ends between any two steps, two retentions on one directory, a restore under a running server | an announced backup is whole, nothing is removed before its time, the last one stays |
| Presentation, media, documentation pages; deployment and installer | files, settings | render, serve, install | none | none of interest to a model | not modelled (section 7) |

How they meet: the *tables* are shared by all workers and the nightly command
(`Attendance`, `Fleet`, `Visits`, `Accounts`, `EnrollQueue`); the *kiosk* reaches
them by the messages of the kiosk API (`EnrollQueue`, `FingerSync`), behind the
token check (`Access`); the *listener's thread* calls back into the agent and the
agent stops and restarts it (`KioskAgent`); `updated_at` and `created_at`, which
every save moves, are what the polling of the lists reads (`LivePoll`; in `Fleet`
the `stale` trucks are those whose change nobody has announced yet).

## 2. Plan

The order put the behaviour the whole system exists for first; all of it is done.

1. `Attendance`, the abstract `PunchClock`, their refinement `AttendanceClock`,
   `AttendanceProofs`.
2. `EnrollQueue` and `KioskAgent`, the two sides of an enrolment, and `EnrollProofs`
   about both.
3. `FingerSync` and `FingerSyncProofs`: the two sides composed through the messages
   between them, with the kiosk's cache.
4. The office: `Fleet`, `Accounts`, `Visits`, each with its proofs.
5. What stands around it: `Access` with `AccessProofs`, `Backup` with `BackupProofs`,
   `LivePoll`, proved about in `VisitsLivePollProofs` beside the visits it shows.
6. What two workers do to one employee: `RaceInv`, `OrderlySpec` and its invariant, and
   the refinement of `PunchClock` proved.

What one could add next: the abstract life of a request (pending, then done or
cancelled) implemented by `EnrollQueue`; a row's way to every page that shows it, with
`LivePoll`'s table fed by the actions of `Visits` and `Fleet`.

## 3. Modules

Common to all modules: one action is one ORM statement (or one read or write of
shared memory) with the Python up to the next one. `pc` and `job` are the program
counter and the local variables of each process; a row held in memory is written
back whole, as `save()` does. A flag like `raced` or `late` is *history*: it
records that another request wrote what this one had read or checked. It is set
by the other request's write and read by properties only, so that a property can
say "only by a race" and still be violated by any request that goes wrong alone.
Bounds have names that begin with `Max` and occur in guards only. Operators whose
name has a suffix after an underscore (`IsStale_AtLimit`, …) are mutated forms of
the definition that follows them, not used by any specification: each shows that a
property notices a bug of that kind. Modules named `MC…` give constants their
values for TLC, and the modules named `…Proofs` hold the proofs of section 5.

### `Attendance`

`records` and `events` are the two tables (index = primary key), `now`
the clock, `active` the employees' soft-delete flag, `todo` what a nightly run has
still to visit. `Workers` are processes that run `toggle_for_employee` (gunicorn
workers, or the `start_listener` command) or the review view, `Crons` runs of the
nightly command.

| Action | Code |
|---|---|
| `ReceiveScan`, `CheckCooldown`, `CheckStale`, `SaveAutoClosed`, `Dispatch` | `toggle_for_employee`, `service.py:238-251`, one statement after the other |
| `CheckStillActive`, `Reread`, `SaveRecord`, `CreateEvent` | `record_entry`, `record_lunch_start`, `record_lunch_end`, `record_exit` |
| `Reply` | `KioskScanReportView`, re-reading the status |
| `StartReview`, `SaveReview` | `AttendancePendingReviewView.post` |
| `StartCron`, `CronCheckStale`, `CronSaveAutoClosed`, `FinishCron` | `auto_close_stale_attendance` |
| `SetActive` | the employee form |
| `Crash` | a process that dies between two statements |
| `Tick` | time; no request lives longer than `MaxHandling` (gunicorn's timeout) |

The rejections (404, 409, 429, 500) return the process to `idle`; those that come
before the first write change nothing. `clean()` is the guard `Chronological` on
the row about to be
written. Ties under `ORDER BY` are resolved nondeterministically. The nightly
command's `DISTINCT` list contains an employee once per open entry time, because
`Meta.ordering` puts `entry_time` into the `SELECT DISTINCT`.

Abstractions: the clock read of a handler is taken together with the query
before it; a row's `date`, `created_at` and `updated_at` are left out; one clock
unit stands both for the second `clean()` asks for (`MinGap`) and for the
resolution of the limits; the clock never goes backwards.

### `PunchClock` and `AttendanceClock`

`PunchClock` is what the employee is promised: a scan is one step of the cycle,
at least the cooldown after the previous one, in a shift that is not abandoned,
and read as lunch or exit by the time of day at which it was received.
`AttendanceClock` reads the tables as that state: the phase is what the open row
lacks, `last` the newest timestamp a scan stored.

**Orderly behaviour.** The code has neither a lock per employee nor a transaction
around a row and its event, so the service keeps its promises only while two conditions
hold, which `OrderlySpec` states: at most one process at a time is at work for an
employee (`OneAtATime`; `Serves(p, e)` holds from the request's arrival to its answer,
and while a nightly run or a review holds a row of `e`), and no worker dies between the
row and the event. Any number of employees are served at once, and processes may die
elsewhere. `OrderlySpec` is the specification restricted to steps of that kind. It is a
hypothesis about the load, not a claim about the code: where it fails, `cooldown_race` shows
what is lost, and `IndInv` and `OpenRowsBounded` are proved to remain.

### `EnrollQueue`

Two tables and three kinds of process. `requests` is `BiometricEnrollRequest`
(index = primary key = order of `requested_at`), `template` the row of
`BiometricTemplate` of each employee. `Clerks` are workers that serve the employee
pages, `Handlers` workers inside `KioskEnrollView.post`, `Kiosks` agents that
poll the queue, `Operators` runs of `kiosk_agent.py enroll` by hand.

| Action | Code |
|---|---|
| `OpenForm`, `LookUpPending`, `CreatePending` | `EmployeeEnrollView.post` without a reader on the server, `get_or_create_pending` (two autocommitted statements) |
| `EnrollHere` | the same view with a reader on the server: a template is stored without a request |
| `CancelPending` | `_cancel_pending` (one UPDATE) |
| `DeleteTemplate`, `CancelAfterDelete` | `EmployeeDeleteBiometricView.post` |
| `PollNext` | `KioskEnrollRequestNextView` and the agent's poll |
| `StartManualEnroll`, `Capture`, `SendEnroll`, `GiveUp` | the agent between poll and answer; `GiveUp` is a timeout, a lost POST or answer, a failed capture, or a restart |
| `FindTemplate`, `SaveTemplate`, `RefuseTemplate`, `CloseRequest`, `AnswerAgent` | `KioskEnrollView.post`: query, then one transaction with `bio.save()`, the query for the request and `mark_done()`, then the answer |
| `HandlerDies` | a worker that is killed (transaction rolled back) |

A handler whose agent has given up goes on: its effects come late, beside those of
the agent's next attempt. Writes inside the transaction are visible at its COMMIT
(`CloseRequest`); whoever wants to write the same template row waits (`Busy`,
`Saving`, `Locked`). A template remembers the request it was captured for; its
bytes are left out. Requests are never deleted, and an employee's deletion is left
out.

### `KioskAgent`

`kiosk_agent.py listen` as threads over one `BiometricService` and one
`BiometricListener`. `mpc` is the place of the main thread in
`run_until_shutdown` and `_check_and_fulfill_enroll_request`; `loops[g]` the
thread that the g-th `start_listener()` started; `spc` the signal handler, which
runs *in* the main thread, so no step of the main thread is taken while it runs,
and `caught` where it interrupted it. `thread`, `stop`, `armed`, `callback` are
the fields of the listener, which all loops share. A finger is the number of its
press, so that two templates of one press can be told from those of two.

| Action | Code |
|---|---|
| `LoopBegin` … `LoopCallback` | `_listener_loop`: one step per read or write of shared state |
| `LoopConnect` | one round of `_reconnect_with_backoff` |
| `StartListener`; `StopListener`, `JoinListener` | `start_listener`, `stop_listener` up to and from `join` |
| `PollFindsRequest`, `Connect`, `CaptureSample`, `AwaitRelease`, `GiveUpCapture`, `PostTemplate`, `Resume` | a tick that finds a remote request |
| `Signal`, `HandlerStops`, `HandlerJoins`, `HandlerDisconnects` | `_shutdown` |
| `Touch`, `Lift`, `Unplug`, `Plug` | the person and the USB port |

`handle` is `dead` once the reader has been unplugged under an open handle: reads
on it raise until somebody reconnects. That is an assumption about the SDK
(`service.py:172-178` describes such a handle). `PyzkfpBackend` turns these errors
into `RuntimeError`. `join()` may time out `MaxJoinTimeouts` times, and a thread it
gave up on goes on. In stop_listener the AttributeError of a main thread whose
`_thread` the handler has cleared is the second branch of `JoinListener`.

Abstractions: `start_listener()` is one step, although a signal could fall between
its assignments; what the callback does with a template (identify, POST, notice)
and the outcome of the POST are left to `FingerSync`. The command `start_listener`
runs the same two modules without a tick, which is `MaxRequests = 0`.

### `FingerSync`

The composition of server and kiosk through their messages, for the question whose
finger a scan is credited to. `templates` is the table with the finger of each
template and a key that tells a new row from its predecessor; `cache` the kiosk's
copy, `fetch` a list that is on its way to it, `posts[i]` the report of the i-th
touch, `enrol` an enrolment at the kiosk's reader. `outdated` (employees whose
template changed since the kiosk read it), `recorded` and `notice` are history.

| Action | Code |
|---|---|
| `OpenEnroll`, `RequestRemote`, `Capture`, `GetOrCreate`, `Resave` | `EmployeeEnrollView.post`, at the server's reader or by a request |
| `OpenErase`, `EraseTemplate`, `CancelRequests` | `EmployeeDeleteBiometricView.post` |
| `SetActive` | the employee form |
| `ReadTemplates`, `StoreTemplates`, `FailRefresh` | `KioskTemplateSyncView`, `TemplateCache.refresh`, `_refresh_loop` |
| `Touch`, `Answer`, `GiveUp` | `on_template`: identify, POST, what the screen says |
| `CheckActive`, `Record`, `Reply` | `KioskScanReportView` |
| `StartEnrol`, `CaptureAtKiosk`, `SubmitEnrol`, `DropEnrol` | `_check_and_fulfill_enroll_request`, `KioskEnrollView` |
| `LosePost`, `RestartKiosk` | the network, the PC |

A finger may have templates of several employees (nothing forbids it); `identify`
then returns any of them. Scores of the SDK are left out.

### `Fleet`

The trucks application. `models`, `brands` (live or deleted), `trucks`, `photos`
(order of each photo), `assignments` (driver, from, until), `eligible` (the employee
is active and a driver); `stale` and `failed` are history: trucks whose driver has
changed without `updated_at` moving since, and trucks whose `updated_at` a request
failed to move.

| Action | Code |
|---|---|
| `AddBrand`, `AddModel`, `OpenDeleteBrand`/`DeleteBrand`, `OpenDeleteModel`/`DeleteModel` | `TruckBrandModelManageView`, with `PROTECT` |
| `OpenCreate`, `CreateTruck`; `OpenUpdate`, `UpdateTruck`, `DeletePhoto`, `CountPhotos`, `UploadPhoto` | `TruckCreateView`, `TruckUpdateView`, `save_truck_photos` |
| `OpenTruck`, `ChooseDriver`, `CleanAssignment`, `InsertAssignment`, `Touch` | `AssignDriverView.post`, `TruckAssignment.clean`; `Touch` is the save that moves `updated_at` and validates the whole truck |
| `FindOpen`, `CloseAssignment`, `Touch` | `UnassignDriverView.post` |
| `EditEmployee` | the employee form |

### `Visits`

Employees, visitors and visits. `people` holds both kinds of person (the models
differ in what is checked where), `visits` the visits with both times as they are
stored. The clock counts hours that the users see; `Offset` is what the server's
clock, which the form proposes as arrival, is ahead of it; any arrival may be typed
(`Typed`), past or to come. `Cpfs` are CPFs as they are typed and `Number` their
digits: `clean()` compares what is typed, while a person has a number.

| Action | Code |
|---|---|
| `OpenEmployee`, `OpenVisitor` | the forms, with their look-ups (`VisitorForm.clean_name`, `clean_phone`) |
| `CleanPerson`, `StorePerson` | `save()`: the look-up of the CPF, then the full row |
| `OpenVisit`, `StoreVisit` | `VisitCreateView` |
| `OpenDepart`, `StoreDeparture` | `VisitDepartView.post`: read, check, UPDATE |
| `ShownArrival`, `ShownDeparture` | what `PresenceHistoryView` makes of the two times |

### `Accounts`

`users` and `profiles` are the two tables, `mails` the verification links that were
sent, `log` the number of rows of the audit log about each account; `changes`,
`broken` and `excused` are history (changes stored, requests that ended in a
server error after one, and whether a master was lost by a race or by the own hand).

| Action | Code |
|---|---|
| `OpenCreate`, `InsertUser`, `CreateProfile`, `SaveNewProfile` | `UserCreateView.post` and the `post_save` handler |
| `OpenToggle`, `SaveToggle`, `TouchProfile` | `UserToggleActiveView.post` |
| `OpenRole`, `SaveRole` | `UserChangeRoleView.post` |
| `OpenMyAccount`, `SaveMyAccount` | `MyAccountView.post` |
| `OpenResend`, `SendMail`; `OpenVerify`, `SaveVerified` | links: sent, followed |
| `LogAction` | `log_action` |

### `Access`

One server process with its threads: the counters of both throttles, the lock of
the login throttle, devices and installers.

| Action | Code |
|---|---|
| `OpenLogin`, `EnterLogin`, `AnswerFailed`, `AnswerOther` | `LoginRateLimitMiddleware.__call__`: before the lock, under it, after the view |
| `OpenKiosk`, `LookUpDevice`, `TouchDevice`, `RefuseKiosk`, `AdmitKiosk` | `DeviceTokenAuthMixin.dispatch`, `KioskDevice.authenticate`, `touch` |
| `IssueDevice`; `OpenDevice`, `RevokeDevice`, `DeleteDevice` | the token page and the `kiosk_device` command |
| `OpenUpload`, `StoreUpload`, `InsertBuild`; `OpenRemoval`, `UnlinkFile`, `RemoveBuild` | the installers: file, then row; file, then row |
| `Restart` | the process is replaced: counters and lock are new |

The clocks of the two throttles (`monotonic`, `time`) are one clock that never goes
backwards. The processes of gunicorn count apart; the model is one of them, and its
limits are those of one process.

### `LivePoll`

The script of a list page and the view that answers it. `rows` is the table,
`writing` what is written and not yet committed, `dom` the rows on the page with how
each came there, `cursor` the two cursors, `req` the requests in flight. The list
views are one view with other filters: the operators `EmployeeList` …
`PresenceHistory`, `Calendar` say which channels a page has, of which tab it shows the
rows, in which `order`, and what of them can be edited (`edits`); TLC starts with each
of them. A row has a `place` (its name, plate or arrival), which others may share. The
history `kept` holds the rows that were there at the start and that no write has moved
up, taken out of the tab or put into one place with another.

| Action | Code |
|---|---|
| `PollInit` | the page as it is loaded: `StartCursor` is the newest time in the table, or the browser's clock |
| `Send`, `ApplyPoll`, `ApplyUpdate`, `ApplyScroll` | `startLivePoll`, `startLiveUpdate`, `loadMore` |
| `Replaced`, `Absent`, `Staying` (of `ApplyUpdate`) | `replaceWith`, `appendChild` and `remove` of `startLiveUpdate`: an answer has a row at most once and never names a row it sends (`UpdateBringsOnce`), so the loop over it is one comprehension |
| `AnswerPoll`, `AnswerUpdate`, `AnswerScroll`, `AnswerCalendar` | the branches of the list views |
| `Insert`, `Change`, `Commit` | other requests: a write takes its timestamp before it is visible; a change can move the row in the list (another name or plate, another `is_active` where inactive employees are listed behind the active ones) or between the tabs |
| `Lose` | the network |

`ORDER BY` is `Arranged`: each row stands where as many are before it as come first in
the order. This defines sorting without recursion, which the proof needs. No list view
breaks ties, so each query chooses anew (`Ties`) how rows of one key stand. The names
begin with `Poll` where `Visits` has the same, so that one module proves about both.

### `Backup`

`files` are the dumps by path with what they hold, `data` what the database holds,
`Runs` the processes of the two commands and of the nightly script; PostgreSQL or
SQLite is chosen at the start. A path is its second and its suffix, so two runs of one
second share one. Three histories speak of what the commands told: `announced` (where
the backups announced are, until that path is opened again), `outcome` (how the last
restore ended) and, per run, `chosen`, `met` and `clash` (what the file held when the
operator was asked; the server wrote during the restore; another run wrote at the path).

| Action | Code |
|---|---|
| `StartBackup`, `EndDump`, `EndCopy`, `Compress`, `UnlinkCopy`, `Announce`, `PruneFile`, `EndPrune` | `db_backup`, with and without `--no-prune` and `--output`; `backup_db.sh`, which prunes by its own age (`AgeLimit`) and `*.dump` only (`Prunable`) |
| `StartRestore`, `ReadScript`, `DropObjects`, `Recreate` | `db_restore` |
| `EndEarly` | the tool fails, its timeout passes, the disk is full, the process is killed |
| `Write`, `WriteMeets`, `Tick` | the server, which a restore does not stop; the clock |

## 4. Runs

| Run | Instance | Shows |
|---|---|---|
| `orderly` | 1 employee, 2 workers, 1 nightly run, 1 crash, 7 units, shift limit 4, cooldown 2, `OrderlySpec` | refinement of `PunchClock`; `LogAndTableAgree`, `ClosedShiftIsFinal`, `PendingUntilReviewed` |
| `nightly` | 1 employee, 1 worker, 1 nightly run, 1 crash, 5 units, shift limit 2, `FairSpec` | `IndInv`; `OpenRowsBounded`; every abandoned shift is flagged |
| `cooldown_race` | 1 employee, 2 workers, 3 units, cooldown 2 | a violation: section 6 |
| `enroll` | 1 employee, 2 clerks, 1 handler, 1 kiosk, 1 operator, 2 requests, 1 deletion | `QueueInv` (queue bounded by the clerks, 200 means closed); done is final and comes with its template; each pending request leaves the queue |
| `kiosk` | 2 samples, 2 remote requests, 2 presses, 1 unplugging, a signal | `IndInv` (one loop, one event per start and press, distinct samples, release on a quiet exit); the kiosk listens again; a signal ends it; no awaited finger is lost |
| `finger_sync` | 2 employees, 2 fingers, 2 workers, 1 touch, 3 requests of staff, 1 restart | `IndInv` (recorded once, for an active employee); a touch is credited to the finger's owner; who is gone for good is forgotten |
| `fleet` | 2 workers, 2 trucks, 2 brands and models, 1 driver, 2 photos, 3 requests, 1 edit of the employee | `IndInv` (nothing referred to is deleted; a second or unfit driver only by a race); the cover stays; re-closing only by another; each change of driver is announced |
| `accounts` | 2 workers, 2 masters and 2 free accounts, 3 forms, 3 requests | `IndInv` (half created only by a race); `SomeMaster`; `EveryChangeLogged`; `OwnColumnOnly` |
| `visits` | 2 workers, 1 employee, 1 visitor and 2 free rows, 2 visits, 3 requests, days of 3 hours, server 1 hour ahead, 3 CPFs of 2 numbers | `IndInv` (the receiver is fit); the history is in order; twins and overwriting only by a race |
| `access` | 2 threads, 1 address, 1 account, 1 device, 1 installer, limits 2, windows and blocks 1 and 2, 4 requests, 3 units, 1 restart | `IndInv` (admitted only if active, listed has its file, the lock is held by a login under way only); blocks are earned and hold; revoked stays |
| `live_poll` | nine pages in twelve instances, 3 rows in 3 places, pages and answers of one row, 1 or 2 writes, 1 loss | rows doubled or skipped only in the ways named; the page settles |
| `backup` | 2 processes, 3 commands, 1 write, 3 units, retentions 2 and 1, both engines | `IndInv` (an announced backup is whole; when the database is torn); each file is kept until it is old; the last backup stays; a restore is of what was chosen |

`IndInv`, `QueueInv` and `PollInv` are conjunctions of named parts, each with its
comment in the module: in the runs they stand for these parts.

**Why the bounds are enough.** Every limit of the code (cooldown, maximum shift,
lunch window, rate windows, retention, page sizes) is scaled down with the clock, so
that both sides of it are reached.

- `Attendance`: seven units hold a day of four scans, or an abandoned shift, its review
  and the beginning of a second one. Nothing else is bounded: the number of rows
  follows from the clock and the cooldown. Two workers that overlap without restraint
  have six million states with the nightly command by the second unit, so the runs
  keep either to one worker (`nightly`) or to requests that do not overlap (`orderly`).
  What any number of them must not break (`IndInv`, `OpenRowsBounded`) is proved; TLC
  was run on `IndInv`, `RaceInv` and `OpenRowsBounded` with two workers and
  days of two units (a day ends, a shift goes stale while a worker holds its row, and an
  UPDATE opens it again) before the proofs were begun, and on `OrderlyInv` with the
  instance of `orderly`.
- `EnrollQueue`: two requests of one employee come from two clerks at once or from a
  cancellation; the handler that goes on after its agent gave up meets the operator's
  and the server's own enrolment. The order of the queue over several employees is
  in `Oldest`, which liveness needs.
- `KioskAgent`: two samples instead of three suffice to tell equal from distinct ones;
  two requests stop and start the listener twice. `MaxJoinTimeouts` is 0 in the run:
  threads that `join` gave up on are covered by the proofs only.
- `FingerSync`: two employees and fingers give the right owner, the wrong one and
  none; the refresh is unbounded.
- The office modules: two workers make a race, the third request prepares the row or
  the name it is about. Forms are chosen so that each check can pass and fail.
- `Access`: limits of two tell the first failure from the last; windows and blocks of
  different length, each shorter than the clock. The account's limit equals the
  address's in the run and is any number in the proofs.
- `LivePoll`: answers of one row make the limit bite at two writes; rows come before,
  beside and behind those the page began with, and move there. Where renamed rows are
  both scrolled to and updated there is one write, which moves a row over the border of
  a page; two are beyond TLC. Without the exception of `kept` for rows that moved up, or
  for rows that share a place, TLC finds a skipped row. The proof has pages and answers
  of any length and any number of writes.
- `Backup`: a run that prunes, one that fails and one that restores; each of the two
  retentions is below the clock, so that the script removes what the command would keep.

Deadlock is checked except where the system really may stop: the agent's process
exits after a signal, the enroll queue is at rest when the bounds on forms and
deletions are used up, and the office modules, `Access` and `Backup` when their
requests are.

**Fairness.**

- `Attendance` (`nightly`): time passes; a worker finishes the request it handles; the
  timer keeps starting the nightly command (`Persistent=true`). None of employees,
  masters or crashes.
- `EnrollQueue`: kiosks keep polling (`on_tick`); capture, POST and each statement of
  a handler get *strong* fairness, since they are disabled again and again by timeouts
  and kills: an employee who is asked for comes sooner or later, a POST goes through
  sooner or later, and not every worker is killed every time. The queue is strictly
  oldest first, so without the first of these one absent employee holds up all others
  until a clerk cancels.
- `KioskAgent`: the main thread, the handler and each loop are scheduled and the calls
  they make return (`requests` and captures have timeouts, `join` has one);
  `AcquireFingerprint` does not fail for ever on a good handle (strong fairness of a
  read). No remote request needs to come and nobody needs to touch or lift; a reader
  need not be plugged in again.
- `FingerSync`: the refresh thread asks again after every pause (`ReadTemplates`, weak)
  and an answer arrives sooner or later (`StoreTemplates`, strong, for failures and
  restarts of the kiosk throw lists away).
- `Fleet`: a worker runs the request it has taken. That is all `DriverChangeAnnounced`
  needs; a worker that is killed in between would be an exception to it, and `Fleet`
  has none.
- `LivePoll`: `setInterval` goes on, answers that are not lost arrive, writes commit.
  Losses are bounded, scrolling is up to the person.
- `Accounts`, `Visits`, `Backup` state safety only and need none.

Each property of a passing run has a mutant (`PROJECT.json`) that violates it.

## 5. Proofs

All theorems hold for **any** sets of processes, rows and people and any values of the
limits, under the named assumption of each module (`ProcessAssumption`, …,
`AccountsAssumption`): sets that must be finite, numbers that must be natural, `None`
apart from the values, the first rows well-formed. TLC evaluates these assumptions in
the runs. Each module proves that its `IndInv` is inductive (one lemma per action on
top of a few frame lemmas) and derives the rest from it. `IndInv` is each time the
invariants of interest with *what a process may rely on at its next statement*, which
is the strengthening: an UPDATE stores what was read several statements before, so no
statement about the tables alone is inductive.

`AttendanceProofs` has three invariants. `IndInv` is `TypeOK`, the three table invariants `RowsAreDays`,
`AutoClosedWereStale`, `EventsPointToShift`, and `Ready(p)` for every process: its
snapshot is itself a possible day, was stale if it carries the flag, and belongs to
the same employee and entry as the row it will overwrite. The last part is stable
because no statement ever changes those columns (`KeepsShifts`), which is why a lost
update can lose a timestamp but never mix up shifts.

`RaceInv` is what `OpenRowsBounded` needs. The number of open rows alone is not
inductive: a worker that found none and is about to insert one must be counted
(`Entering`), and so must a row that was closed or flagged while a worker held it and
that this worker's UPDATE will open again (`Reopening`). Counted together they never
exceed the workers: a row is added only by a worker that stops entering, and a worker
starts to enter only when it finds no open row, so that all others account for at most
one each.

`OrderlyInv` assumes `OrderlySpec`. It says of the tables (`DayInv`) that one shift is
open per employee, that no scan lies ahead, and that scans and events are each
other's but for the event under way; and of the process that serves the employee
(`FreshFor`) that everything it has read is still true: the row in its memory
(`SnapshotFresh`), the cooldown it looked at (`CooldownOver`), the shift not being
abandoned (`NotAbandoned`), the step it chose (`StepStands`) and the scan it has stored
(`ScanIsLast`). Processes that serve others touch neither (`StaysFresh`). From it
follow `ClosedShiftIsFinal`, `PendingUntilReviewed`, `LogAndTableAgree` (for which the
cooldown must not be zero: the newest event would be ambiguous),
`CooldownBetweenRegistrations`, and the **refinement**: each step is a scan, an
expiry, a tick or a stutter of `PunchClock` (`OrderlyImplementsClock`). Most steps
stutter; the row's INSERT or UPDATE is the scan, the UPDATE of a flag the expiry. The
reading of the clock on the wall is the delicate part: the step is chosen by an instant
between arrival and UPDATE, and `StepStands` carries that instant along. The hypothesis
is not discharged: three workers, a timer and restarts are not orderly by themselves.

`EnrollProofs`, of the queue, derives `PendingBounded`, `OkMeansClosed`, `DoneIsFinal`,
`DoneDeliversTemplate`. `PendingBounded` is not inductive: forms that have looked but
not inserted yet must be counted too. `FormsAndRequests` says that pending requests
and such forms together are no more than the clerks; a look that finds nothing counts
nobody's request, and each insert trades one form for one request. For the two action
properties `HandlerInv` says that a handler's target is a request of its
employee and, if the agent named one, that very request.

Of the agent it derives `OneLoop`, `ReleasedOnQuietExit`, `OneEventPerStart`,
`SamplesDiffer`, with any number of `join` timeouts. `OneLoop` is the heart: every
living loop is the listener's own unless `join` gave it up. Without such threads
`armed` and `stop` have a single user, and `DebounceInv` says at each place of the
loop that what it may report next has not been reported. Since presses are numbered, a
finger that was lifted never comes back (`PressInv`), which makes re-arming safe.
`ExitInv` follows a signal caught while the agent listened; `SampleInv` is the
same argument for the samples of one capture.

`FingerSyncProofs` derives that a touch is recorded at most once and only for an
active employee (`ScansSound`), that it is credited to the finger's owner
(`CreditedSoundly`) and that a template is replaced only by a race or on purpose
(`ReplacedRarely`). `CopyInv` is the strengthening: every pair in the cache, in a list
on its way and in a post agrees with the table or is known to be outdated; the three
copies are taken from each other, so none of the three is inductive alone.

`FleetProofs` derives that references stay intact and that a second driver, an unfit
one and a failed announcement come only from two workers or an edit (`RacesBounded`),
`ClosedByAnother` and `CoverStaysFirst`. Catalogue and trucks need each other: a truck is stored after
its model was read, so the invariant also says what a form under way refers to.
`DoubleDriverOnlyByRace` needs that a request that has found no open assignment sees
every later one as another worker's. `CoverKept` rests on `GalleryInv`: the order of a
photo is below the number of its upload, because a form counts no more photos than were
ever uploaded. So while at most one was deleted, one of the first two is there, whose
order no new one undercuts; while none was deleted, the first is there, whose order no
new one equals (`EarlyPhoto`).

`VisitsLivePollProofs` derives of the visits `HistoryInOrder`, `TwinsOnlyByRace` and
`OverwrittenOnlyByRace`. `RequestInv` says of each check that it still holds unless the
flag says that it was overtaken; `ClockInv` that an arrival not entered ahead lies in
the past and a departure is the time of its hour, which is what `HistoryInOrder` needs
modulo the length of the day.

`AccountsProofs` derives `SomeMaster`, `OwnColumnOnly`, `EmailSharedOnlyByRace` and
`EveryChangeLogged`. `SomeMaster` rests on the actor of a request being a master still,
different from the target, and on a copy that is the row unless overtaken; a new
account's profile is known to be a reader's (`simple`), so writing it takes no master away.
`EveryChangeLogged` is a count: each step is neutral, incurs a debt to the log or
settles one (`Effect`), and the set of debtors changes by one worker at a time.

`AccessProofs` derives `AdmittedWasActive`, `ListedHasFile`, `BlockHolds`,
`BlockIsEarned`, `RevokedStays`. `LoginInv` says that the view runs under the lock with the counters as
read under it; `KioskInv` that a request of a blocked address was let in before the
block; `BuildInv` that an installer being uploaded is in nobody else's hands. `CountersInv`
relates each entry to the history of failures: it counts the last of them, all within a
window of the one it starts with, from which `BlockIsEarned` follows for any limit,
although the times of logins need not be in order (each is read before the lock).

`BackupProofs` derives `AnnouncedIsWhole`, `TornByRestore`, `KeptUntilOld`,
`LastBackupStays` and `RestoredAsChosen`. `ClashInv` says that two runs meet at a path
only when both know it, `FileInv` that what an unclashed run has written is in full and
no older than the run; since a run is over within either retention, nobody prunes it
(`FreshStays`). So a run that prunes has itself a backup that survives, which is why the
last one never goes, unless what this run saved is a torn database. `ChosenInv` carries
what a restore has chosen to the end of `pg_restore`, which goes on reading a file it
has opened when its name is removed.

Of the list pages `VisitsLivePollProofs` proves `PollInv`, for any pages, page size and
limit. That a row is twice on the page only by a crossing (`TwiceOnlyByCrossing`) rests
on the cursor of the new rows: everything that was loaded or came by a poll is at or
behind it (`BehindCursor`), an answer on its way brings later rows only
(`PollBringsLater`), and a change leaves `created_at` alone (`CreatedStays`). An update
brings each row once and replaces or appends it (`UpdateBringsOnce`). That scrolling
skips none of the rows that were `kept` (`NothingSkipped`) is an argument about places:
such a row is in the tab, alone in its place (`KeptStay`), so that it stands at its
`Position` however the database breaks ties, and its `Position` never falls, whatever is
inserted, renamed or taken out elsewhere. The kept rows of the pages before the next one
are shown, and those of the page on its way are shown or in the answer
(`PagesBrought`). A commit can push such a row over the border of a page, never back,
which is why it may come twice but not be missed. The lemmas below it say that
`Arranged` sorts any finite set (`RankSorts`: in a strict order every number below
the size of the set is the rank of one member), that `InOrder` therefore has each row of
the tab once whatever the ties (`ListArrayed`), that `Picked` keeps the order, and what
`Max`, `Min` and the division into pages give.

Every safety property of the passing runs is proved. Only model-checked is liveness
under fairness, which the prover cannot do:
`AbandonedShiftIsFlagged`, `PendingIsServed`, `ListeningResumes`, `ShutdownEnds`,
`AwaitedTouchIsNoticed`, `DriverChangeAnnounced`, `Settles`, `CacheForgets`. `ENABLED`
and induction over recursive data stay with TLC too; the proved modules have no
`RECURSIVE` operator.

## 6. What the code does differently from what it says

`cooldown_race` is a run: with two workers two registrations of an employee can lie
within the cooldown (`attendance/service.py:43-46` says it guards against double
taps), and one entry can open two rows.

The following show as conditions of properties that hold; without the condition TLC
finds the steps told here.

*The enroll queue and the kiosk*

- `DoneIsFinal` says nothing of cancelled requests. `mark_done` (`biometric/models.py:225`)
  saves the copy fetched before: a request cancelled while its template is being
  stored becomes done all the same (`employees/views.py:368-370`: the later side "is a
  no-op").
- `PendingBounded` bounds the pending requests of an employee by the number of
  workers, not by one: `get_or_create_pending` reads and inserts in two statements.
- `ReleasedOnQuietExit` is about a signal that finds the agent listening. One during
  a remote enrolment (`kiosk_agent.py:281`) disconnects a service that the interrupted
  `finally` reconnects: the process ends with the reader claimed and a listener
  running, where `biometric/daemon.py:28-30` promises a released reader.
- `ListeningResumes` rests on a service that counts as connected until a signal
  disconnects it, its handle dead or not: the branch that would leave the listener
  stopped after a remote enrolment (`kiosk_agent.py:286`) is not taken before that.
- The reader is not reopened after an error of the SDK in the loop: it arrives as
  `RuntimeError` (`service.py:208`, `259`), where `listener.py:17-21` says the loop
  "retries connection". `AwaitedTouchIsNoticed` therefore excludes an unplugged reader.
- `OneEventPerStart` counts events per start of the listener: each start arms it, so
  a finger left on the reader over a remote enrolment is reported again.
- `SamplesDiffer` excludes a wait for release that timed out: `_wait_for_release`
  does not tell its caller.
- `OneLoop` excludes threads that `join` gave up on: they read beside the main
  thread, and the next start clears the stop flag they have not seen.
- A finger exchanged during the callback counts as the previous one
  (`AwaitedTouchIsNoticed` is about a finger put down while the listener waits for one).
- `CreditedToOwner` excludes templates changed since the kiosk's last refresh.

*Attendance*

- `LogAndTableAgree`, `ClosedShiftIsFinal` and `PendingUntilReviewed` hold of orderly behaviour.
  The row and its event are two transactions, and a full-row UPDATE prepared
  before the nightly one resets the flag.

*The office*

- The order of a new photo is the number of photos (`trucks/views.py:64`). After one
  deletion it can repeat an order in use: the truck's page then decides by the time of
  the upload (`trucks/models.py:238`), while the list orders by `order` alone
  (`trucks/views.py:140`) and may show either as the cover. `CoverKept` says so, and
  excludes galleries from which two photos were deleted, where a photo added last can
  come first, and forms whose count another form has overtaken.
- `DriverChangeAnnounced` lets a request fail: the save that moves `updated_at`
  validates the whole truck, and if that fails the assignment stays and the list is
  not told (`trucks/views.py:335`).
- `HistoryInOrder` excludes visitors who leave on another day than the visit's date and
  arrivals entered ahead of the hour: both times are put on that date, any date and time
  is accepted (`visitors/forms.py:124-173`; `Visit.clean` compares the planned departure
  only), and what the form proposes is the server's clock in UTC. Of these visits the
  history can show a departure before its arrival.
- `TwinsOnlyByRace` excludes CPFs typed differently: `validate_cpf` accepts any
  punctuation, since "only the 11 digits matter" (`validators.py:99-100`), while
  `clean()` compares the strings (`employees/models.py:146`, `visitors/models.py:106`), so
  that 123.456.789-09 and 12345678909 are two people of one number, without any race.
- `SomeMaster` excludes masters who give up their own role: only deactivating oneself
  is refused (`accounts/views.py:221`).
- A docstring of `UserManageView` (`accounts/views.py:153-156`) says that changes of
  existing users do not reach an open page ("not built yet"); the branch below it
  (`_update_response`) sends them, and `LivePoll` models it.
- `Settles` excludes rows committed behind a cursor (their `created_at` is taken
  before the commit, `attendance/views.py:45`), rows cut off by the limit of an answer,
  and rows shown twice: the page shows these as they are when it is loaded again.
- `NothingSkipped` excludes rows that moved up, rows that left the tab, and rows that
  share a place. `loadMore` asks for pages by number (`base.html:525-551`), in the list
  as it is by then, so it never brings what was not loaded and now stands before the page
  it asks for: a row that was renamed to the front, or the one that follows when one
  before it is renamed to the back, deactivated (with inactive ones shown it moves behind
  the others, `employees/views.py:48`) or leaves the tab. The former comes by an update
  where the page has them, the latter not before the page is loaded again. Of rows equal in name, plate or
  arrival the database may order each page differently, since no view breaks the tie.
- `TwiceOnlyByCrossing` allows a row that came by scrolling as well, and by a poll
  that an update overtook: the script looks for a row on the page only in updates.

*Backup*

- `RestoredAsChosen` is about PostgreSQL. On SQLite `db_restore` feeds the `.backup`
  copy, which is a database file, to `.read`, which expects SQL, and tells success
  whenever `sqlite3` exits with 0 (`db_restore.py:91-98`), as it does for an empty part
  of a file: nothing of a backup ever reaches the database (`ReadScript`).
- It excludes restores during which the server stored something: nobody stops the
  server, `pg_restore` runs outside of a transaction, and what it tells as a success can
  be a mixture (outcome `mixed`).
- `TornByRestore`: objects are dropped first, so a restore that fails leaves the
  database torn and the server goes on with it. `LastBackupStays` therefore excludes a
  run that has saved a torn database: the nightly backups go on, and after the retention
  the last good one has been pruned.
- `db_backup.py:29` says "keep 30 days of backups"; `backup_db.sh:41`, a cron job of
  every night, removes `*.dump` of the same directory after 14. `KeptUntilOld` promises
  of each removal only the age that the removing run itself keeps.
- `KeptUntilOld` and `LastBackupStays` except the run that opens this very path again
  (`--output`, or the same second) and one that shares its path with another.

## 7. What is not modelled

- Presentation: templates, PDFs, CSS, labels, security headers, `ProtectedMediaView`,
  the documentation pages, `validators.py` but for what is one CPF: functions of one request and one row,
  without state that outlives it. Forms refused for a malformed field change nothing
  and are no action.
- Deployment: `settings.py`, migrations, nginx, `deploy.sh`, the kiosk's
  installer, the single-instance mutex of Windows. What the models take from them
  (three workers, timers, timeouts) is named where it is used.
- The search box of the lists, with which an edit can take a row out of what is listed
  as a change of tab does in `LivePoll`.
- A kiosk token that is no ASCII: `_hash` (`biometric/models.py:115`) raises before the
  throttle counts it. The answer is an error that admits nobody; `LookUpDevice` has the
  tokens that can be looked up.
- Threads as gunicorn runs them: `gunicorn.service` asks for three workers and no threads,
  so that a process there has one request at a time. The two threads of `Access` and its
  lock are for servers that do have threads, which the code provides for.
- The Django admin, including the edit form of an attendance record and that of a kiosk
  device, which can make a revoked one active again (`RevokedStays` is about requests
  and the command, whose revoking is called "reversible", `kiosk_device.py:28`); the password
  reset, signing in by CPF, and the rows that signing in and out leave in the log;
  sessions.
- The simulator of a reader; the scores, the merging and the thresholds of the SDK.
- Reading views: histories, profiles, reports, searches, the `--list` options.
- The command that fills in hire dates; deletion of employees.
- Time zones and dates beyond the two clocks of `Visits`; clocks that go backwards.
