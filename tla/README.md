# SpeedPulse in TLA+

A verification project for SpeedPulse: an internet speed monitor made of a FastAPI
dashboard, a scheduler process, scripts that both of them start, a database and a
browser page. The modules are translated from the Python and JavaScript source; the
runs are TLC model checks of small instances; the `*Proofs` modules hold theorems that
TLAPS proves for every value of the constants.

## The system

Processes (docker-compose.yml): `init` fills the data directory, `migrate` prepares
the database and imports logs, then two long-lived services start with
`restart: unless-stopped`:

* **dashboard**: one uvicorn process with `web.app:APP`. `async def` handlers run one
  at a time between their awaits; `def` handlers run in a thread pool and interleave
  everywhere; a manual test has a worker thread of its own.
* **scheduler**: `scheduler_service.py` with APScheduler, whose jobs start scripts as
  child processes (`CheckSpeed.py`, the reports, `health_check.py`, `rotate_logs.py`,
  `contract_reminder.py`).

They share `config.json` and the logs in the data directory, `.env` (each process reads
it at its own start) and the database: PostgreSQL, or SQLite when no URL is set. The
locks of `state_store.py` are of one process; nothing excludes a second one.

### Inventory

| Component | State it keeps | Operations | What makes it correct |
| --- | --- | --- | --- |
| Manual run (`web/routes/manual_runs.py`, `web/app.py` 133-490) | the run lock, `MANUAL_RUN_STATE`, `LAST_MANUAL_SPEEDTEST_AT`, one row in the database | POST to start, worker thread (launch, spawn, read lines, finish, crash), save, start-up recovery | one run at a time; what is shown is about the run that holds the lock; "completed" is never said of a test that failed; the lock comes free; the cooldown survives a restart |
| `CheckSpeed.py` | none of its own; appends to the week's log, inserts the measurement | tries with fallback server, log, insert, alert, completion record | every success it reports is stored; the fallback server is the last resort |
| Completion record (`state_store.py` 756-936) | a sequence number in a row of the database | SELECT then UPDATE, read by the page | each test is noticed by the page |
| Page: completion watcher and metrics (`dashboard.js` 632-679, 2976-3041) | last sequence seen, what is shown | poll, load, rebaseline | a quiet page shows every measurement |
| Page: run button (`dashboard.js` 545-630, 3137-3215) | in-flight flags, polling, last completion handled | click, poll, present the end | off while a run is followed, comes back, every end is presented |
| Scheduler (`scheduler_service.py`) | APScheduler's job table, `last_mtime` | start, configure in sections, check for a reload | the jobs are those of the configuration, whatever edits and failures came before |
| Contract reminder (`contract_reminder.py`, `scheduler_service.py` 327-363) | one one-shot job | schedule, fire | reminded once |
| Settings, contracts (`web/app.py` 1882-2490, 2634-2895) | `config.json`, `.env`, `os.environ`, the SMTP password in the database | read-modify-write of the file, then of the others | nothing accepted is lost; what is confirmed is in use; a half-saved change stays noticeable; an ended contract stays ended |
| Sign-in (`web/routes/auth.py`, `web/app.py` 1163-1448, `state_store.py` 380-672) | credentials in `.env` and environment, session version (in memory and stored), reset links, failed sign-ins per address | sign in, register, forgot, reset, change, sign out | a link works once; a changed password ends the sessions before it, also over a restart; a block lasts |
| State store (`state_store.py`) | SQLite or PostgreSQL tables | read-modify-write under a lock of one process, legacy import | no lost update within a process |
| Measurements (`measurement_store.py`, `log_parser.py`, `db_migrate.py`) | table of speed tests, weekly logs | insert by fingerprint, import of logs | a measurement is counted once, also when its log is imported |
| Backup (`backup_manager.py`, `web/routes/backups.py`) | archive files; overwrites config, `.env`, database, logs | create, keep at most N, delete, restore step by step | the newest archives stay, no more than N; an archive opens with the saved password; a restore brings no ended session back |
| Alerts (`SendAlert.py`, `push_notifications.py`) | time of the last alert in a file | check cooldown, send by three channels, write time | one alert per cooldown, none silenced without reason |
| Health check (`health_check.py`) | none | checks, notify | a scheduled test that was not made is reported, and no other |
| Log rotation (`rotate_logs.py`) | logs, archives | archive by age, trim, delete | nothing is lost before it is archived |
| Incidents, reports and SLA (`web/app.py` 1546-1853, 2500-2630, `reporting.py`, `annual_report.py`, `Send*Report.py`) | none | aggregate, render, send | every bad test is in one incident; the numbers of one week agree wherever they are shown |
| Server list (`web/services/system.py`) | a cache with a lifetime | read, refresh | an answer is never older than its lifetime |

How they meet: the page calls the dashboard over HTTP and learns of scheduled tests
only through the completion sequence; dashboard and scheduler never call each other,
the scheduler follows `config.json` by its modification time; both start
`CheckSpeed.py`, which writes logs and database, bumps the sequence and starts
`SendAlert.py`; a restore of a backup writes under all of them.

Hard behaviours: state that is changed under one lock and saved under another; a save
that fails at any of its places; a restart with a run in progress; a configuration that
is half written, or raises in the middle of being applied; completions of two processes
at once; answers on the page that overtake each other; one setting that stands in three
places which are written in turn; credentials changed by two requests at once; two
processes that write and delete in one directory; times of the local clock.
`PROJECT.json` lists them, line by line, under `hazards`.

## Modules

| Module | Models | Runs | Proofs |
| --- | --- | --- | --- |
| `RunSlot` | abstract: one slot, what is shown is written by its holder | `manual_run` (as `SlotSpec`) | `ImplementsSlot` |
| `ManualRun` | the POST handler, worker threads, saves, recovery, `CheckSpeed.py` as a child | `manual_run` | `ManualRunProofs` |
| `Scheduler`, `MCScheduler` | configuring and reloading the job table, writes of `config.json`, the reminder | `scheduler`, `scheduler_pickup` | `SchedulerProofs` |
| `CompletionFeed` | completion sequence, watcher, metrics on a page | `completion_feed` | `PageProofs` |
| `RunButton` | the run button and its status requests | `run_button` | `PageProofs` |
| `Measurements` | runs of `CheckSpeed.py` from the tries to the exit, log, table, history, import of the logs | `measurements`, `counted_once` | `MeasurementsProofs` |
| `Sessions`, `MCSessions` | sign-in, registration, reset links, changes of the credentials, session version, restart | `sessions` | `SessionsProofs` |
| `Settings`, `MCSettings` | saves of `config.json`, `.env`, environment and SMTP password; contracts; stale pages | `settings` | `SettingsProofs` |
| `Backup` | archives of two processes, retention, restore | `backup` | `BackupProofs` |
| `Alerts`, `MCAlerts` | several `SendAlert.py` over one cooldown file | `alerts` | `AlertsProofs` |
| `Records`, `MCRecords` | what health check, incidents, weekly report and contract summary say of the measurements | `records` | `MeasurementsProofs` |

The modules meet in the state they share, and each takes of the others what it needs:
`Measurements` ends a run where `Alerts` and `CompletionFeed` begin; `ManualRun` starts
one and `RunButton` watches it; `Settings` and `Backup` write the `config.json` that
`Scheduler` follows, and the `.env` whose credentials `Sessions` is about; `Records` reads
what `Measurements` stored.

The runs leave the type invariants to the proofs (`TypeCorrect`, `ButtonTypeCorrect`, and
`SettingsTypeOK`, `AlertsTypeOK` and `RecordsTypeOK` in the proof modules), which say more,
and use their time for the others. The names of `RunButton` and `Records` say of what they are
where the same idea has its place in every module (`ButtonNext`, `RecordsNext`), so that one
proof module can be about each of them and a neighbour.

### ManualRun

`mem` is `MANUAL_RUN_STATE`, `disk` the row of `manual_run_state`, `lock` and `lastAt`
are `MANUAL_SPEEDTEST_LOCK` and `LAST_MANUAL_SPEEDTEST_AT`. The handler is an
`async def` that awaits nothing after its request is parsed, so there is one of it
(`hpc`); each accepted run has a worker (`wpc`) and a child process (`child`).
`_persist_manual_runtime_state` takes a snapshot under one lock and writes it under
another: two steps (`Snapshot`, `Save`), with `io` and `snap` for what each actor still
has to write. A write may raise: in the handler outside its `try`
(`HandlerSaveRaises`), in the worker anywhere (`WorkerSaveRaises`). `Crash` kills the
dashboard and its children, `Boot` is the lifespan start-up with its recovery of an
interrupted run. A run is known by its number where the code has `started_at`.

The run checks that only one actor is ever at work on the state (`OneWriter`), which is
what makes the split save safe (`RowNeverGoesBack`); that success is real
(`SuccessIsReal`); that the lock leaks in exactly one way, the handler's first save
raising (`LockLeaksOnlyAtStart`), and is otherwise always released (`LockIsReleased`);
that a process nobody reads is left only where a save failed
(`UnattendedFollowFaults`); that without failures a quiet dashboard has saved what it
shows (`QuietMeansSaved`); that the cooldown holds over a restart, up to the second that
`int()` drops (`CooldownSurvivesRestart`); and that it all implements `RunSlot`.

Bounds: three runs, so that a late worker of one can meet the second and the third; two
failures, so that one can follow another; one crash; time for two cooldowns
as `int()` cuts them, in half-second ticks; a log of one line.
Behaviours end at the bounds, so deadlock is not checked.

### Scheduler

One action per section of `configure_scheduler` that can be told apart by what raises:
remove, tests with reports, health check and rotation, backup, reminder. In between the
jobs go on firing. `proc` tells main's own configuring, whose exception ends the
process, from a reload, whose exception is logged. `file` has content, modification
time and whether it is half written. The run checks that a reload that got through
leaves the table a restart would (`ReloadIsRestart`), that one that raised has set the
tests and reports (`FailedReloadKeepsTests`), that a reminder is sent once (`RemindedOnce`), and that
every write is read in the end, also one during a reload (`EditsAreRead`: the
modification time is taken before the file is read). That health check and rotation are
never missing (`ServiceJobsStay`) is proved. At start-up the order of the two is the other
way round: an edit in between waits for the next one, which `EditsAreRead` leaves out.

`scheduler_pickup` checks what the settings page answers, "Scheduler changes will be
picked up automatically within 10 seconds", and finds it violated: a backup time such as
`99:99` passes the page's shape test, raises in `parse_hhmm` in the scheduler, and is not
tried again because the modification time is already noted. The rest of that edit, the
reminder, is not applied either, and the next start of the scheduler fails.

Bounds: six configurations that differ in the number of tests, in what is switched on
or mistyped and in the reminder; three writes, so that one falls into the reload of
another; three days around two end dates; one crash.

### CompletionFeed

Each test is a process of its own: it stores its measurement, reads the sequence and
writes it back plus one, two steps that a second process can come between. The page has
up to three loads of its metrics under way (its first, the watcher's, the one after a
run it follows) and one watcher request. `gap` is a history variable that notes the
first thing that could put the page behind. `QuietMeansShown` and `PageCatchesUp` say
that the five causes it knows are all there are: a baseline taken over a completion that
was not loaded, two completions at once, a completion that was not recorded, a load
that failed, a load that overtook a later one. Tests and requests have no other way to pass
a page by, and each of the five does occur. The module is about one life of the sequence: a
restore of a backup puts it back, and an open page then waits until it has passed the number
it saw.

Bounds: the page's own test and one scheduled one, two tests, one failure, at most one
completion before the page was opened. (Three tests were checked once: a million states,
no difference.)

### RunButton

The page's `syncRunStatus` and `runSpeedtestNow` against a server reduced to the run
number, its status and its lock; the detail of the server is in `ManualRun`. The first
status request of a page does not announce (`syncRunStatus(false)`), every later one
does. `StuckOnlyFromFirstAnswer`: the button stays off without polling only on a page
that was opened during a run, which shows the run but does not follow it.
`OffWhileFollowed`, `EndIsPresented`: a run the page starts or joins keeps the button off
and has its end presented, but for the first request, whose late answer may end the
polling. A page that got stuck stops, so deadlock is not checked.

Bounds: four runs, so that several can pass between a question and its answer.

### Measurements

A run of `CheckSpeed.py` goes through `trying`, `logging`, `inserting`, `alerting`,
`recording` and `exiting`; at each of them it may fail the way the code does there, and be
killed. `tries` is the list of its attempts, each with the kind of server and its outcome:
exit codes, time-outs, output that does not parse and incomplete results are all one
failed attempt. The log is written before the table; an insert may raise before or after
its commit, and the run then ends as failed. `rows` are fingerprints. That of a run
carries the server id, that of a log entry does not, because the log has the id only as
part of the server's label. `History` is `load_measurement_entries`: the table, or the
logs while the table is empty. The import reads all logs and inserts entry by entry,
beside the runs and again at every start of the containers; the first start of the
services waits for one that ended well.

`measurements`: `ReportedIsStored` (an alert, a completion record or an exit code that
speaks of success is about a test in log and table), `ImportCovers` (what an import has
read stays in the history), `OnlyUnstoredVanish` (a test can be shown and then be gone:
one whose own insert failed or is still to come, when another run stores the first row of
an empty table; no other). `AutomaticIsLastResort` (the last attempt, and only it, goes
without the preferred server, after nothing but failures) is proved for any number of
retries. `counted_once` shows that the
import stores each test of the program a second time: see `findings`.

Bounds: two runs (one vanishes when the other stores), three attempts (two with the
preferred server), two imports (one for the first start, one beside the runs), and one
old test or none. A run may stop for good, so deadlock is not checked. Two tests of the
same minute whose rounded values all agree would share a fingerprint; that is left out,
and so is a program without a database.

### Sessions

A request is a row of `req`: what it is (`kind`), which step is next (`at`) and what it
carries. Handlers of the pages run in a thread pool, so every step of one may come
between two of another; those of the settings are on the event loop and exclude each
other from their body to their answer (`LoopFree`). `Merged` is what
`_update_env_file` and `_apply_runtime_env` do to the keys they are given; `AfterApply`
tells where each handler goes after that. A link is spent before anything is written; a
block is counted in the store, whose time passes in `TimePasses`. `cookie` is one browser's
session, any of those ever issued.

The run checks that a session is of the credentials in force (`OldSessionsEnd`) but for
what the code lets slip until the next rotation, each named in the comment: a sign-in
verified before a change that gets its cookie after it, a second registration, a save or
a rotation that raised, a stop in between; that what was refused stays refused
(`RefusedForGood`); that `.env` and environment agree unless two changes of one key
crossed (`FileMatchesEnvironment`: `ENV_LOCK` is free again between the two writes); that
a link changes the password once (`LinkChangesOnce`); that no late failure cuts a block
short (`BlockHolds`).

Bounds: two requests at a time, so that any two kinds can meet at any two steps; three
credentials, which is a registration and two changes or an account and two; two links,
one pending; a block after the second failure. One address signs in.

### Settings

`config` is `config.json`, each section by the number of the save it is from; `file` and
`env` are `.env` and the environment of the dashboard, `sched` that of the scheduler,
`secret` the SMTP password in the database, `form` what each open page shows of the
contract. A handler waits for its body and then runs to its answer: `Loaded` and `Save`
are one step, the later writes are steps of their own because each may fail or be the last
before a restart. `half` notes which setting a save left half done. The mail with a reset
link (`letter`) is sent from the thread pool, beside the handlers on the event loop, and
takes what it needs in two steps: the server from the environment (`ReadServer`) and the
password from the database (`ReadPassword`). A save stores the password first
(web/app.py:2204), which may raise after its commit, and applies the server last (line
2227); `amid` says whether the mail met such a save since it read the server.

The run checks that overlapping requests lose no edit (`NoEditLost`); that the address
confirmed last is in all three places unless a save of it stopped half way (`ToldHolds`;
after such a stop the account page can confirm an address that is not in use, because it
compares with `config.json` only); that a mail joins a new SMTP password with an earlier
server only where a save is between the two places, or stopped there, while the mail takes
them, and the scheduler's mails until its restart also (`PasswordNotAhead`: the window is
real, and outside it there is none); that an ended contract is archived once and is back
only by a page that still showed it (`EndedStaysEnded`).

Bounds: two requests and two pages, since every property is about two of them; three
saves, so that one can follow a half-done one and its repetition; two addresses.

### Backup

Both processes make archives (`writer`): read the files, read the database, write, list
the directory, sort by time of modification, remove what is too much, each a step beside
those of the other. `dir` is the directory, oldest modification first, `data` what each
file holds; a file carries the second it was opened in, so two may share one. A restore is
`RestoreConfig`, `RestoreEnv`, `RestoreState`, and may raise at each.

The run checks that retention removes the newest whole archive only where an unfinished
file takes its place or a file on its list was written to or removed meanwhile
(`NewestKept`); that there are no more files than `max_backups`, but for a save that failed
after it had created its file (`WithinMax`); that a change of the password ends the
sessions before it unless a restore put back password or version since (`SessionsEnd`):
the next rotations then count through numbers given before, although the handler logs
"all existing sessions invalidated"; that an archive opens with the password `.env` held
when it was made, unless the process runs with an earlier one (`KeyIsSaved`).

Bounds: two archives kept of three seconds, so that each process can write a third beside
the other; two events out of seconds and new passwords. Archives made with a password
typed in are not followed. In the containers `config.json` and the logs live in
`APP_DATA_DIR`, where an archive made there does not look: it holds neither, and the
restore of one that does writes beside them or raises. The module has them as writes that
may fail. A restore also brings back links, blocks and the row of the manual run.

### Alerts

Each violating test is a `sender` that goes through the check, three channels, emptying
the file and writing it. A channel delivers and says so, delivers and reports a failure
(`server.quit()` raises after the mail was taken, SendAlert.py:166; a push times out after
it), or does not deliver: `heard` is whether somebody was told, `reached` what the channels
say. Times are local: `shift` is what the local clock is set to beside the time that has
passed. `CooldownHolds`: an alert goes out within the cooldown after somebody was told only
if the two were under way together, the time of an earlier one is not in the file (a stop,
an overwrite, or all that delivered said that they had failed), or the clock was set.
`SilencedWithReason`: an alert is
silenced no longer than a cooldown after one that reached somebody, unless the clock was
set.

Bounds: three senders, so that two can overlap and a third come after; a cooldown that
passes twice; one change of the clock, by as much as the cooldown (an hour, the default).
`LogFailure` writes a line the health check does not count, as it lacks the `] ERROR:` it
looks for.

### Records

Time is counted in slots of a day. A scheduled test is due by the triggers
(`configure_scheduler`), starts up to `Misfire` late or not at all, takes up to its
estimated time, and is logged (`TestCompletes`) or fails; its row is added by a later step
(`StoreTest`), or never. Manual tests come when they like. The import at a start of the
containers adds a row for any test of the logs (`ImportTest`), a second one for a test that
stored its own. The schedule or the time zone is edited once. There are two clocks: a new
time zone sets the triggers and the dashboard's processes at once (scheduler_service.py:156
and 188, `_apply_runtime_env`), but the scheduler and its scripts keep `TZ` until the restart;
`ahead` is by how much they differ. `LatestDueScheduledRun`, `LastTest` and `Healthy` are
`check_last_speedtest`, with the grace that `_speedtest_completion_grace_period` takes from
the settings; `WithEntry` is one turn of the loop of `_build_incident_history`, `Incidents`
the loop, over the places that a window of days has in the list; `WeeklyReport` and
`ContractSummary` count the same rows in their own ways.

The run checks what the health check says: a test called overdue was due and has no row,
and if it is under way it started later than the grace period has room for, unless
schedule or time zone were changed since (`OverdueIsReal`); the latest due test that was
not made is called overdue, whatever manual tests and imports there are
(`MissedIsOverdue`). What this leaves to the code: by default a test has at most 420
seconds in a grace of 600, so one that starts more than three minutes late may be called
overdue while it runs; with settings for which the grace is the estimated time, also one
that is late by less, or on its way into the table; and after a change of the time zone
tests are called overdue that were not due, every day until the restart.

It checks that the incidents of a window are its stretches of bad tests, each with the tests
and breaches of its stretch, and add up to the counts of the window when all are shown
(`IncidentsAddUp`), and that the contract's summary of a reported week never counts less
than the report, and more only by rows that were added when the week was over
(`ReportIsFinal`): a test stored after midnight, one that another clock still has in that
week, and what an import adds. The finding of `counted_once` shows here as well: after the
next start of the containers the summary has each of the week's tests twice.

Bounds: a week of two days of two slots and one slot of the next, so that a week ends and
is reported, by the one clock before the other; two tests beside the row the table begins
with, which make two incidents of which one is shown; one of them imported, before or after
it is stored, reported and shown; a schedule with one time a day, and none; a slot to start
late in, so that a test can miss its grace in each of the ways above; a time zone one slot
behind or ahead. That two tests overlap in the log, the table and the import, with a report
or an edit at any point between, is all that the properties compare. One report is followed
(a report changes nothing else), and not any further when a clock that was put back has made
its week the present one again.

The code looks back 400 days for a due test, for schedules of the month; the module's weekly
ones repeat within a week, to which `LookBack` adds the grace. Thresholds do not change. The
SLA's coverage expects the times of a day on every day, also when scans are due on some days
only, and counts manual tests; the incident count is that of the incidents shown, eight at
most. Both are as in the code and no property is about them.

## Fairness

* Threads, requests and reloads that started run on: nothing in them waits without a
  timeout, other than for the database and the child process.
* A child ends: `CheckSpeed.py` counts its tries and each has a timeout. (An engine that
  stalls inside a line of its live output would outlast it; no property covers that.)
* A service that is down comes up again (`restart: unless-stopped`).
* The watcher of the scheduler and the intervals of the page fire again and again.
* A status request that is sent over and over is answered at some time (strong
  fairness, `RunButton`): single ones may fail.
* Nobody is assumed to click, to edit, to start a test or to crash anything.
* `Sessions`, `Settings`, `Backup`, `Alerts` and `Records` state safety only: their
  requests may fail at every step, so all that is left to promise is that a handler
  answers.

## Proofs

Each proof module has an inductive invariant `Init => IInv`, `IInv /\ [Next]_vars =>
IInv'`, one step for each action. A module that two components share has a part for each.

* `ManualRunProofs`: `TypeOK`; `Ownership` (who holds the lock and where the handler and
  the one worker are), from which `OneWriter` follows; `SaveOrder` (each snapshot that is
  still to be written is at least as new as the row), from which `RowNeverGoesBack`
  follows; `Success`; `Leak`. `Saved` (a snapshot about to be written is what is shown,
  and without a failure the row has what nobody has still to save) gives
  `QuietMeansSaved`. `UnattendedFollowFaults` follows by counting: a step leaves at most
  one more process that nobody reads, and then a save has failed (`UnattendedMoves`).
  `Cooling` bounds the launch times by the saved ones and carries the cooldown over a
  restart. `ImplementsSlot` maps each step of `ManualRun` to a step of `RunSlot` or a
  stutter.
* `SchedulerProofs`: `Progress` says what the job table holds after each section and
  between reloads; `OneEach` that a scheduled reminder is not sent yet and a sent one lies
  in the past.
* `PageProofs`, the watcher: as long as no cause occurred, a measurement that no load covers
  is still to be recorded or ahead of the sequence the page saw (`Noticed`). That the
  sequence grows by no more than one for each test (`TypeOK`) follows from `Bumps`, which
  counts the processes under way with `FiniteSetTheorems`. The button: `Following` (polling
  only with the button off, announcing only while polling), `Answers` (what an answer on its
  way says of the server's run).
* `MeasurementsProofs`: `StoredInv` (a run that has come to the alert, or reports success,
  has its entry and its row) and `ImportInv` (what imports have read and inserted has its
  row, and once the services run every old test does), from which `ReportedIsStored`,
  `ImportCovers` and `OnlyUnstoredVanish` follow; `AttemptsInv` (the server of each
  attempt, and that nothing follows a good one) for `AutomaticIsLastResort`. For
  `Records`: since schedule and clocks are as they are, a slot was due if and only if the
  schedule has it (`DueIsScheduled`); a test under way is within its time (`Punctual`); a
  test that is done has a row no earlier than it was due, as what is still to be stored
  will have (`DoneIsRecorded`, `Storable`), and rows are in the order of their times
  (`InTime`, which a row placed between others keeps: `PlacedInTime`). So a run found
  overdue was due and is not done, and one under way began too late. That a missed one is
  found needs the calendar: a schedule comes back after a week (`WeekLater`), so a run
  that the look-back is too short for has a later one. `ReportsTrue` bounds what was
  reported by the rows of that week, those that came in time below and all of them above;
  it holds because a row that is added moves the others without changing them
  (`PlacesGrow`) and is late where the week is over. `FourParts` bounds the sum of the
  breaches. For `IncidentsAddUp`, `Fits` says what the loop has made of the entries up to
  any one: an incident for every start of a stretch so far, in their order, with the part
  of the stretch so far (`Covers`), the last one open if this entry is bad. `FitsNext` is
  one turn, and every count holds at the end because otherwise there were a first entry at
  which it fails (`LeastNat`); `StretchesAddUp` adds the stretches from the last to the
  first. It needs that a window reaches to the last row (`InTime`).
* `SessionsProofs`: the type invariant; `VersionsOrdered` (no session is of a later version
  than the process has, nor that of a later one than the store) for `RefusedForGood`;
  `FileInv` (what is not yet in the environment, the file holds as one request sets it)
  for `FileMatchesEnvironment`; `LinkInv` (a link is with the store, then with one request,
  then used) for `LinkChangesOnce`; on top of them `SetupInv` (before there is an account
  there is no session) for `OldSessionsEnd`. `BlockHolds` needs the types only.
* `SettingsProofs`: one request at a time is beyond its body (`OneAtWork`); what that one
  has written so far (`Written`, `MailAt`) makes the difference between the places, which
  agree when nobody is at work and nothing is half done. `RestMoves` and `LaterMoves` say
  once how every step moves the requests, and both invariants use them. `LetterInv` (a mail
  that has read the server has one that was in use, and since then the password got ahead only
  in a save that `amid` knows) carries `PasswordNotAhead` over the two steps of the mail.
  `NoEditLost` and `EndedStaysEnded` are inductive with the types.
* `AlertsProofs`: `StampIsNoted` and `NotedIsTold` tie the file to when somebody was told,
  as long as nothing was lost and the clock not set, where a delivery that was reported as a
  failure is among what is lost; `TogetherExcused` has any two senders
  under way know that they may be too early.
* `BackupProofs`: `KeysKnown` (a process runs with the password of `.env` or is known to be
  behind it, and every archive has the password that was in `.env` or is excused) for
  `KeyIsSaved`; `VersionsAgree` (no version anywhere is above the highest ever given, and
  until a restore counts, version and password in force are those of the files) for
  `SessionsEnd`; `InHand` (when there are too many files, somebody has still to list them or
  to go through a list that has them all, or a save failed) for `WithinMax`. For
  `NewestKept`, `ListsAreGood`: as long as nobody wrote to a file of the list or removed one,
  the last `MaxBackups` of it are in the directory, behind every whole archive that the list
  has before them. If it trimmed the newest whole archive, there would be a file behind it
  that is not finished (`NewestStep`, with the count of `KeptAreThere`). `SetInduction` is
  induction over the naturals in a form the provers can use: the numbers a statement holds of
  are a set.

The assumptions are those of the modules: bounds are naturals, the clock has at least one
tick per second, the log keeps at least one line, the markers of the scheduler's triggers
differ and its configurations have the shape the settings page lets through; runs and old
tests are different tests; at least one archive is kept
and there is at least one second; a block needs at least one failure, a cooldown has some length;
the address the dashboard is installed with is one of the addresses.

Only model-checked: everything temporal beyond safety (`LockIsReleased`, `EditsAreRead`,
`PageCatchesUp`, `EndIsPresented`), because the prover does not reason about fairness and
ENABLED.

## Not modelled, and what could come next

Left out, with the reason:

* the live output of the engine during a test (`CheckSpeed.py` 240-330): one attempt
  succeeds or fails. Its deadline is looked at between lines only, so an engine that
  stalls inside a line outlasts it;
* log rotation: the age of a log is taken cyclically from the number of its week and is 51
  at most, so that with the default of 52 weeks nothing is archived; with a lower setting
  the archive of the same week of an earlier year is overwritten. A model would be one of
  calendar arithmetic;
* the other checks of `health_check.py` and how their result is sent
  (`send_health_alert`): each looks at one thing and keeps nothing. Webhook and ntfy are
  tried only after the mail and its record went through;
* monthly and annual reports, averages, percentiles, the comparison with the previous
  period, the download of a range: arithmetic on the entries without a state;
* the list of speed test servers: one cached value nobody else reads;
* the import of state files of earlier releases and the notification log, beyond that
  writing it may fail;
* rendering (charts, mails, templates, styles, themes), installation scripts, logging,
  password hashing and the one-off tools: plain input and output, no state that another
  part reads while it runs.

External and modelled by how the code uses them: the clock and its daylight saving time,
APScheduler, the databases, the container runtime.

Next would come an abstract specification of `Measurements` as a bag in which each success
is once, which holds without the import; and the live output of the engine as a component
of `ManualRun`.
