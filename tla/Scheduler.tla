------------------------------ MODULE Scheduler ------------------------------
(***************************************************************************)
(* The scheduler service (scheduler_service.py) and the file it follows,   *)
(* config.json: replaced whole by the dashboard's settings page, or        *)
(* written in place, by the restore of a backup (where the data directory  *)
(* is the program's own) and where the file cannot be replaced.            *)
(* configure_scheduler changes the job table section by section while the  *)
(* jobs of the table go on firing; a section that raises leaves the rest   *)
(* undone.  At start-up the exception ends the process and the container   *)
(* is restarted; later it is logged.                                       *)
(*                                                                         *)
(* A trigger is one value: time of day, frequency and time zone together.  *)
(* The job library (APScheduler) and the clock are external.               *)
(***************************************************************************)
EXTENDS Naturals, Sequences

CONSTANTS
    Trigger,        \* the triggers that parse
    Unparsable,     \* a time parse_hhmm rejects, "99:99"
    NoTrigger,      \* no job, or a job that is switched off
    WeeklyDefault,  \* "Monday 08:00", the weekly report's fallback
    HealthTime, RotationTime,   \* HEALTH_CHECK_TIME, LOG_ROTATION_TIME
    Config,         \* the contents of config.json the settings page accepts
    FirstConfig,
    TestSlots,      \* bound: test times in a config
    MaxDay,         \* bound: days the clock passes
    MaxSaves,       \* bound: writes of config.json
    MaxCrashes      \* bound: crashes of the scheduler

Setting == Trigger \cup {Unparsable, NoTrigger}

(* Only the backup time is accepted by its shape alone (two digits, colon, two
   digits) and then parsed with nothing to fall back to.  `end` is the day the
   reminder is due, 0 for a contract whose end date is empty or no date. *)
ConfigType ==
    [tests  : UNION {[1 .. n -> Trigger] : n \in 0 .. TestSlots},
     weekly : Setting, monthly : Trigger \cup {NoTrigger}, backup : Setting,
     remind : BOOLEAN, end : 0 .. MaxDay]

ASSUME SchedulerAssumption ==
    /\ Unparsable \notin Trigger /\ NoTrigger \notin Trigger /\ Unparsable # NoTrigger
    /\ WeeklyDefault \in Trigger /\ HealthTime \in Trigger /\ RotationTime \in Trigger
    /\ FirstConfig \in Config
    /\ TestSlots \in Nat /\ MaxDay \in Nat /\ MaxSaves \in Nat /\ MaxCrashes \in Nat
    /\ Config \subseteq ConfigType

VARIABLES
    file,       \* config.json: its content, whether a rewrite is half done, its mtime
    proc,       \* "down", "starting", "up"
    step,       \* the section of configure_scheduler that comes next, or "idle"
    cfg,        \* the config that was loaded last
    lastMtime,  \* last_mtime of check_config_reload
    whole,      \* whether the latest configure_scheduler got through
    tests,      \* the jobs speedtest_1, speedtest_2, ...
    jobs,       \* the other cron jobs
    reminderAt, \* the day of the job contract_reminder, 0 for none
    day,        \* the clock
    reminded,   \* how often the job of each day sent its reminder (history)
    crashes

vars == <<file, proc, step, cfg, lastMtime, whole, tests, jobs, reminderAt, day,
          reminded, crashes>>

Slots   == 1 .. TestSlots
JobId   == {"weekly_report", "monthly_report", "health_check", "rotate_logs",
            "scheduled_backup"}
NoTests == [i \in Slots |-> NoTrigger]
NoJobs  == [id \in JobId |-> NoTrigger]

Init ==
    /\ file = [content |-> FirstConfig, half |-> FALSE, mtime |-> 1]
    /\ proc = "down"
    /\ step = "idle"
    /\ cfg = FirstConfig
    /\ lastMtime = 0
    /\ whole = FALSE
    /\ tests = NoTests
    /\ jobs = NoJobs
    /\ reminderAt = 0
    /\ day = 0
    /\ reminded = [d \in 1 .. MaxDay |-> 0]
    /\ crashes = 0

-----------------------------------------------------------------------------
(* config.json *)

Write(content, half) ==
    /\ file.mtime <= MaxSaves
    /\ file' = [content |-> content, half |-> half, mtime |-> file.mtime + 1]
    /\ UNCHANGED <<proc, step, cfg, lastMtime, whole, tests, jobs, reminderAt, day,
                   reminded, crashes>>

\* POST /api/settings: os.replace of a complete file.
SaveSettings(c) == ~file.half /\ Write(c, FALSE)

\* restore_backup truncates the file first, the fallback of _atomic_write_text last:
\* in between there is no JSON to read.
RestoreBegins(c) == ~file.half /\ file.mtime < MaxSaves /\ Write(c, TRUE)
RestoreEnds      == file.half /\ Write(file.content, FALSE)

-----------------------------------------------------------------------------
(* configure_scheduler *)

WeeklyTrigger(setting) == IF setting = Unparsable THEN WeeklyDefault ELSE setting

TestsOf(c) == [i \in Slots |-> IF i \in DOMAIN c.tests THEN c.tests[i] ELSE NoTrigger]

\* add_job for each test time, over whatever table there is.
WithTests(table, c) == [i \in Slots |-> IF i \in DOMAIN c.tests THEN c.tests[i] ELSE table[i]]

\* The job table changes, and nothing else does.
Configuring(from, to) ==
    /\ step = from
    /\ step' = to
    /\ UNCHANGED <<file, proc, cfg, day, reminded, crashes>>

\* The test and report jobs go; the others stay until they are replaced.
RemovedKeepingTests(table) == table
RemovedTests(table) == NoTests
Removed(table) ==
    [table EXCEPT !["weekly_report"] = NoTrigger, !["monthly_report"] = NoTrigger]

RemoveJobs ==
    /\ Configuring("remove", "add")
    /\ tests' = RemovedTests(tests)
    /\ jobs' = Removed(jobs)
    /\ UNCHANGED <<lastMtime, whole, reminderAt>>

AddJobs ==
    /\ Configuring("add", "backup")
    /\ tests' = WithTests(tests, cfg)
    /\ jobs' = [jobs EXCEPT !["weekly_report"]  = WeeklyTrigger(cfg.weekly),
                            !["monthly_report"] = cfg.monthly,
                            !["health_check"]   = HealthTime,
                            !["rotate_logs"]    = RotationTime]
    /\ UNCHANGED <<lastMtime, whole, reminderAt>>

AddBackup ==
    /\ cfg.backup # Unparsable
    /\ Configuring("backup", "reminder")
    /\ jobs' = [jobs EXCEPT !["scheduled_backup"] = cfg.backup]
    /\ UNCHANGED <<lastMtime, whole, tests, reminderAt>>

\* parse_hhmm raises: main lets it through, check_config_reload logs it.
AddBackupRaises ==
    /\ step = "backup" /\ cfg.backup = Unparsable
    /\ step' = "idle"
    /\ whole' = FALSE
    /\ proc' = IF proc = "starting" THEN "down" ELSE proc
    /\ UNCHANGED <<file, cfg, lastMtime, tests, jobs, reminderAt, day, reminded, crashes>>

\* A reminder that is due later is (re)scheduled, one that is past is dropped, and
\* one without a date leaves the job as it is.
ReminderEvenIfPast(c, job) ==
    IF ~c.remind THEN 0 ELSE IF c.end = 0 THEN job ELSE c.end
ReminderAfter(c, job) ==
    IF ~c.remind THEN 0
    ELSE IF c.end = 0 THEN job
    ELSE IF c.end > day THEN c.end ELSE 0

\* check_config_reload does not look at the file again once it is done.
MtimeTakenAgain == file.mtime
MtimeAfterReload == lastMtime

AddReminder ==
    /\ Configuring("reminder", IF proc = "starting" THEN "stat" ELSE "idle")
    /\ reminderAt' = ReminderAfter(cfg, reminderAt)
    /\ lastMtime' = MtimeAfterReload
    /\ whole' = TRUE
    /\ UNCHANGED <<tests, jobs>>

-----------------------------------------------------------------------------
(* main and check_config_reload *)

Start ==
    /\ proc = "down"
    /\ proc' = "starting"
    /\ step' = "load"
    /\ tests' = NoTests /\ jobs' = NoJobs /\ reminderAt' = 0 /\ whole' = FALSE
    /\ UNCHANGED <<file, cfg, lastMtime, day, reminded, crashes>>

Load ==
    /\ step = "load"
    /\ ~file.half
    /\ cfg' = file.content
    /\ step' = "remove"
    /\ whole' = FALSE
    /\ UNCHANGED <<file, proc, lastMtime, tests, jobs, reminderAt, day, reminded, crashes>>

\* Half a file is no JSON.
LoadRaises ==
    /\ step = "load"
    /\ file.half
    /\ step' = "idle"
    /\ proc' = IF proc = "starting" THEN "down" ELSE proc
    /\ UNCHANGED <<file, cfg, lastMtime, whole, tests, jobs, reminderAt, day, reminded,
                   crashes>>

\* main, once the first jobs are set: the mtime, then the watcher and the loop.
Serve ==
    /\ step = "stat"
    /\ lastMtime' = file.mtime
    /\ proc' = "up"
    /\ step' = "idle"
    /\ UNCHANGED <<file, cfg, whole, tests, jobs, reminderAt, day, reminded, crashes>>

\* check_config_reload: the mtime is taken before the file is read.
CheckReload ==
    /\ proc = "up" /\ step = "idle"
    /\ file.mtime # lastMtime
    /\ lastMtime' = file.mtime
    /\ step' = "load"
    /\ UNCHANGED <<file, proc, cfg, whole, tests, jobs, reminderAt, day, reminded, crashes>>

-----------------------------------------------------------------------------
(* The contract reminder, the clock, crashes *)

\* The one-shot job: it is gone once it fires, it is dropped when a day late, and
\* contract_reminder.py reads the end date again.
FireReminder ==
    /\ proc = "up"
    /\ reminderAt # 0 /\ day >= reminderAt
    /\ reminderAt' = 0
    /\ reminded' = IF day <= reminderAt + 1 /\ file.content.end # 0 /\ ~file.half
                   THEN [reminded EXCEPT ![reminderAt] = @ + 1] ELSE reminded
    /\ UNCHANGED <<file, proc, step, cfg, lastMtime, whole, tests, jobs, day, crashes>>

Tick ==
    /\ day < MaxDay
    /\ day' = day + 1
    /\ UNCHANGED <<file, proc, step, cfg, lastMtime, whole, tests, jobs, reminderAt,
                   reminded, crashes>>

Crash ==
    /\ proc # "down"
    /\ crashes < MaxCrashes
    /\ crashes' = crashes + 1
    /\ proc' = "down"
    /\ step' = "idle"
    /\ whole' = FALSE
    /\ UNCHANGED <<file, cfg, lastMtime, tests, jobs, reminderAt, day, reminded>>

Configure == RemoveJobs \/ AddJobs \/ AddBackup \/ AddBackupRaises \/ AddReminder
Reload    == CheckReload \/ Load \/ LoadRaises \/ Serve

Next ==
    \/ \E c \in Config : SaveSettings(c) \/ RestoreBegins(c)
    \/ RestoreEnds
    \/ Start \/ Reload \/ Configure
    \/ FireReminder \/ Tick \/ Crash

Spec == Init /\ [][Next]_vars

(* Fairness: the watcher runs every CONFIG_CHECK_INTERVAL seconds, a reload runs
   on, the container is restarted, and a restore finishes its write. *)
FairSpec ==
    /\ Spec
    /\ WF_vars(Start) /\ WF_vars(Reload) /\ WF_vars(Configure)
    /\ WF_vars(RestoreEnds)

-----------------------------------------------------------------------------
(* Properties *)

\* The jobs a fresh start would have set from a config.
JobsOf(c) ==
    [id \in JobId |->
        CASE id = "weekly_report"  -> WeeklyTrigger(c.weekly)
          [] id = "monthly_report" -> c.monthly
          [] id = "health_check"   -> HealthTime
          [] id = "rotate_logs"    -> RotationTime
          [] OTHER                 -> c.backup]

Settled == proc = "up" /\ step = "idle"

TypeOK ==
    /\ file \in [content : Config, half : BOOLEAN, mtime : 1 .. MaxSaves + 1]
    /\ proc \in {"down", "starting", "up"}
    /\ step \in {"idle", "load", "remove", "add", "backup", "reminder", "stat"}
    /\ cfg \in Config
    /\ lastMtime \in 0 .. MaxSaves + 1
    /\ whole \in BOOLEAN
    /\ tests \in [Slots -> Trigger \cup {NoTrigger}]
    /\ jobs \in [JobId -> Trigger \cup {NoTrigger}]
    /\ reminderAt \in 0 .. MaxDay /\ day \in 0 .. MaxDay
    /\ reminded \in [1 .. MaxDay -> Nat]
    /\ crashes \in 0 .. MaxCrashes

\* A reload that got through leaves the jobs a restart would have set: nothing of
\* the configs before it stays, whatever they were and however they failed.
ReloadIsRestart == Settled /\ whole => tests = TestsOf(cfg) /\ jobs = JobsOf(cfg)

\* A reload that raised still runs the tests and reports of the config it read:
\* what raises comes after them.
FailedReloadKeepsTests ==
    Settled => /\ tests = TestsOf(cfg)
               /\ \A id \in JobId \ {"scheduled_backup"} : jobs[id] = JobsOf(cfg)[id]

\* While the service is up the health check and the log rotation are scheduled,
\* also in the middle of a reload and after one that raised.
ServiceJobsStay ==
    proc = "up" => jobs["health_check"] = HealthTime /\ jobs["rotate_logs"] = RotationTime

\* The reminder of a day is sent once, however often the contract is edited, the
\* jobs reloaded and the service restarted around that day.
RemindedOnce == \A d \in 1 .. MaxDay : reminded[d] <= 1

\* What is written while the service is up is read, also when it is written in the
\* middle of a reload or the file was only half there.
EditsAreRead ==
    proc = "up" /\ file.mtime # lastMtime ~> (cfg = file.content \/ proc # "up")

\* "Settings saved. Scheduler changes will be picked up automatically within 10
\* seconds." (web/app.py): what the settings page accepted is scheduled in the end.
SavedIsPickedUp ==
    proc = "up" /\ file.mtime # lastMtime
        ~> (proc # "up" \/ (cfg = file.content /\ whole))
==============================================================================
