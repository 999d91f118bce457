--------------------------- MODULE SchedulerProofs ---------------------------
(***************************************************************************)
(* Theorems about Scheduler, for every set of configs, any number of test  *)
(* times, edits, days and crashes.                                         *)
(***************************************************************************)
EXTENDS Scheduler, TLAPS

-----------------------------------------------------------------------------
(* Types *)

Job == Trigger \cup {NoTrigger}

LEMMA ConfigFields ==
    ASSUME NEW c \in Config
    PROVE  /\ \A i \in DOMAIN c.tests : c.tests[i] \in Trigger
           /\ c.weekly \in Setting /\ c.monthly \in Job /\ c.backup \in Setting
           /\ c.remind \in BOOLEAN /\ c.end \in 0 .. MaxDay
  <1>1. c \in ConfigType
    BY SchedulerAssumption
  <1>2. /\ c.tests \in UNION {[1 .. n -> Trigger] : n \in 0 .. TestSlots}
        /\ c.weekly \in Setting /\ c.monthly \in Job /\ c.backup \in Setting
        /\ c.remind \in BOOLEAN /\ c.end \in 0 .. MaxDay
    BY <1>1 DEF ConfigType, Job
  <1>3. PICK n \in 0 .. TestSlots : c.tests \in [1 .. n -> Trigger]
    BY <1>2
  <1>4. \A i \in DOMAIN c.tests : c.tests[i] \in Trigger
    BY <1>3
  <1>5. QED
    BY <1>2, <1>4

LEMMA JobTypes ==
    ASSUME NEW c \in Config
    PROVE  /\ TestsOf(c) \in [Slots -> Job]
           /\ \A table \in [Slots -> Job] : WithTests(table, c) \in [Slots -> Job]
           /\ WithTests(NoTests, c) = TestsOf(c)
           /\ WeeklyTrigger(c.weekly) \in Job
           /\ HealthTime \in Job /\ RotationTime \in Job
           /\ c.backup # Unparsable => c.backup \in Job
  <1>1. TestsOf(c) \in [Slots -> Job]
    BY ConfigFields DEF TestsOf, Job
  <1>2. ASSUME NEW table \in [Slots -> Job] PROVE WithTests(table, c) \in [Slots -> Job]
    BY ConfigFields DEF WithTests, Job
  <1>3. WithTests(NoTests, c) = TestsOf(c)
    BY DEF WithTests, TestsOf, NoTests
  <1>4. WeeklyTrigger(c.weekly) \in Job
    BY ConfigFields, SchedulerAssumption DEF WeeklyTrigger, Setting, Job
  <1>5. HealthTime \in Job /\ RotationTime \in Job
    BY SchedulerAssumption DEF Job
  <1>6. c.backup # Unparsable => c.backup \in Job
    BY ConfigFields DEF Setting, Job
  <1>7. QED
    BY <1>1, <1>2, <1>3, <1>4, <1>5, <1>6

LEMMA Ids ==
    /\ {"weekly_report", "monthly_report", "health_check", "rotate_logs",
        "scheduled_backup"} = JobId
    /\ NoTests \in [Slots -> Job] /\ NoJobs \in [JobId -> Job]
  BY DEF JobId, NoTests, NoJobs, Job

Steps == {"idle", "load", "remove", "add", "backup", "reminder", "stat"}

LEMMA TypeInit == Init => TypeOK
  <1> SUFFICES ASSUME Init PROVE TypeOK
    OBVIOUS
  <1>1. reminded \in [1 .. MaxDay -> Nat]
    BY DEF Init
  <1>2. file \in [content : Config, half : BOOLEAN, mtime : 1 .. MaxSaves + 1]
    BY SchedulerAssumption DEF Init
  <1>3. QED
    <2>1. tests \in [Slots -> Job] /\ jobs \in [JobId -> Job]
      BY Ids DEF Init
    <2>2. /\ lastMtime \in 0 .. MaxSaves + 1 /\ reminderAt \in 0 .. MaxDay
          /\ day \in 0 .. MaxDay /\ crashes \in 0 .. MaxCrashes
      BY SchedulerAssumption DEF Init
    <2>3. cfg \in Config
      BY SchedulerAssumption DEF Init
    <2>4. QED
      BY <1>1, <1>2, <2>1, <2>2, <2>3 DEF Init, TypeOK, Job

LEMMA TypeStep == TypeOK /\ [Next]_vars => TypeOK'
  <1> SUFFICES ASSUME TypeOK, [Next]_vars PROVE TypeOK'
    OBVIOUS
  <1>0. /\ file \in [content : Config, half : BOOLEAN, mtime : 1 .. MaxSaves + 1]
        /\ proc \in {"down", "starting", "up"} /\ step \in Steps
        /\ cfg \in Config /\ lastMtime \in 0 .. MaxSaves + 1 /\ whole \in BOOLEAN
        /\ tests \in [Slots -> Job] /\ jobs \in [JobId -> Job]
        /\ reminderAt \in 0 .. MaxDay /\ day \in 0 .. MaxDay
        /\ reminded \in [1 .. MaxDay -> Nat] /\ crashes \in 0 .. MaxCrashes
    BY DEF TypeOK, Job, Steps
  <1> SUFFICES
        /\ file' \in [content : Config, half : BOOLEAN, mtime : 1 .. MaxSaves + 1]
        /\ proc' \in {"down", "starting", "up"} /\ step' \in Steps
        /\ cfg' \in Config /\ lastMtime' \in 0 .. MaxSaves + 1 /\ whole' \in BOOLEAN
        /\ tests' \in [Slots -> Job] /\ jobs' \in [JobId -> Job]
        /\ reminderAt' \in 0 .. MaxDay /\ day' \in 0 .. MaxDay
        /\ reminded' \in [1 .. MaxDay -> Nat] /\ crashes' \in 0 .. MaxCrashes
    BY DEF TypeOK, Job, Steps
  <1>1. ASSUME NEW c \in Config, NEW half \in BOOLEAN, Write(c, half) PROVE TypeOK'
    <2>1. file' \in [content : Config, half : BOOLEAN, mtime : 1 .. MaxSaves + 1]
      BY <1>0, <1>1, SchedulerAssumption DEF Write
    <2>2. QED
      BY <1>0, <1>1, <2>1 DEF Write, TypeOK, Job, Steps
  <1>2. CASE RemoveJobs
    BY <1>0, <1>2, Ids DEF RemoveJobs, Configuring, RemovedTests, Removed, Job, Steps
  <1>3. CASE AddJobs
    <2>1. /\ tests' \in [Slots -> Job]
          /\ WeeklyTrigger(cfg.weekly) \in Job /\ cfg.monthly \in Job
          /\ HealthTime \in Job /\ RotationTime \in Job
      BY <1>0, <1>3, JobTypes, ConfigFields DEF AddJobs
    <2>2. jobs' \in [JobId -> Job]
      BY <1>0, <1>3, <2>1, Ids DEF AddJobs
    <2>3. QED
      BY <1>0, <1>3, <2>1, <2>2 DEF AddJobs, Configuring, Steps
  <1>4. CASE AddBackup
    <2>1. jobs' \in [JobId -> Job]
      BY <1>0, <1>4, JobTypes, Ids DEF AddBackup
    <2>2. QED
      BY <1>0, <1>4, <2>1 DEF AddBackup, Configuring, Steps
  <1>5. CASE AddBackupRaises
    BY <1>0, <1>5 DEF AddBackupRaises, Steps
  <1>6. CASE AddReminder
    <2>1. reminderAt' \in 0 .. MaxDay
      BY <1>0, <1>6, ConfigFields, SchedulerAssumption DEF AddReminder, ReminderAfter
    <2>2. QED
      BY <1>0, <1>6, <2>1 DEF AddReminder, Configuring, MtimeAfterReload, Steps
  <1>7. CASE Start
    <2>1. tests' \in [Slots -> Job] /\ jobs' \in [JobId -> Job]
      BY <1>7, Ids DEF Start
    <2>2. reminderAt' \in 0 .. MaxDay
      BY <1>7, SchedulerAssumption DEF Start
    <2>3. step' \in Steps
      BY <1>7 DEF Start, Steps
    <2>4. QED
      BY <1>0, <1>7, <2>1, <2>2, <2>3 DEF Start
  <1>8. CASE Load
    BY <1>0, <1>8 DEF Load, Steps
  <1>9. CASE LoadRaises
    BY <1>0, <1>9 DEF LoadRaises, Steps
  <1>10. CASE Serve
    BY <1>0, <1>10, SchedulerAssumption DEF Serve, Steps
  <1>11. CASE CheckReload
    BY <1>0, <1>11, SchedulerAssumption DEF CheckReload, Steps
  <1>12. CASE FireReminder
    <2>1. reminded' \in [1 .. MaxDay -> Nat]
      BY <1>0, <1>12 DEF FireReminder
    <2>2. QED
      BY <1>0, <1>12, <2>1, SchedulerAssumption DEF FireReminder
  <1>13. CASE Tick
    BY <1>0, <1>13, SchedulerAssumption DEF Tick
  <1>14. CASE Crash
    <2>1. crashes' \in 0 .. MaxCrashes
      BY <1>0, <1>14, SchedulerAssumption DEF Crash
    <2>2. QED
      BY <1>0, <1>14, <2>1 DEF Crash, Steps
  <1>15. CASE UNCHANGED vars
    BY <1>0, <1>15 DEF vars
  <1>16. CASE RestoreEnds
    BY <1>0, <1>1, <1>16 DEF RestoreEnds, TypeOK, Job, Steps
  <1>17. ASSUME NEW c \in Config, SaveSettings(c) \/ RestoreBegins(c) PROVE TypeOK'
    BY <1>1, <1>17 DEF SaveSettings, RestoreBegins
  <1>18. QED
    BY <1>2, <1>3, <1>4, <1>5, <1>6, <1>7, <1>8, <1>9, <1>10, <1>11, <1>12, <1>13,
       <1>14, <1>15, <1>16, <1>17
       DEF Next, Configure, Reload, TypeOK, Job, Steps

-----------------------------------------------------------------------------
(***************************************************************************)
(* The inductive invariant: what the job table holds after each section of *)
(* configure_scheduler, and between reloads.                               *)
(***************************************************************************)

\* The jobs before the backup section are those of the loaded config.
TestsSet ==
    /\ tests = TestsOf(cfg)
    /\ jobs["weekly_report"] = WeeklyTrigger(cfg.weekly)
    /\ jobs["monthly_report"] = cfg.monthly
    /\ jobs["health_check"] = HealthTime /\ jobs["rotate_logs"] = RotationTime

BackupSet == jobs["scheduled_backup"] = cfg.backup

Progress ==
    /\ proc = "down" => step = "idle"
    /\ step = "stat" => proc = "starting"
    /\ ServiceJobsStay
    /\ step = "add" => tests = NoTests
    /\ step \in {"backup", "reminder", "stat"} => TestsSet
    /\ step \in {"reminder", "stat"} => BackupSet
    /\ step = "stat" => whole
    /\ proc = "up" /\ step \in {"idle", "load"} => TestsSet /\ (whole => BackupSet)
    /\ step \in {"remove", "add", "backup", "reminder"} => ~whole

\* A reminder that is scheduled is not sent yet, and a sent one lies in the past.
OneEach ==
    /\ \A d \in 1 .. MaxDay : reminded[d] <= 1 /\ (reminded[d] # 0 => d <= day)
    /\ reminderAt # 0 => reminded[reminderAt] = 0

LEMMA ProgressInit == Init => Progress
  BY DEF Init, Progress, ServiceJobsStay

LEMMA ProgressStep == TypeOK /\ Progress /\ [Next]_vars => Progress'
  <1> SUFFICES ASSUME TypeOK, Progress, [Next]_vars PROVE Progress'
    OBVIOUS
  <1>0. /\ proc \in {"down", "starting", "up"} /\ cfg \in Config
        /\ tests \in [Slots -> Job] /\ jobs \in [JobId -> Job] /\ whole \in BOOLEAN
    BY DEF TypeOK, Job
  <1> USE DEF Progress, TestsSet, BackupSet, ServiceJobsStay
  <1>1. CASE RemoveJobs
    <2>1. /\ tests' = NoTests
          /\ jobs'["health_check"] = jobs["health_check"]
          /\ jobs'["rotate_logs"] = jobs["rotate_logs"]
          /\ step = "remove" /\ step' = "add" /\ proc' = proc /\ whole' = whole
      BY <1>0, <1>1, Ids DEF RemoveJobs, Configuring, RemovedTests, Removed
    <2>2. QED
      BY <1>0, <2>1
  <1>2. CASE AddJobs
    <2>1. tests' = TestsOf(cfg) /\ cfg' = cfg
      BY <1>0, <1>2, JobTypes DEF AddJobs, Configuring
    <2>2. /\ jobs'["weekly_report"] = WeeklyTrigger(cfg.weekly)
          /\ jobs'["monthly_report"] = cfg.monthly
          /\ jobs'["health_check"] = HealthTime /\ jobs'["rotate_logs"] = RotationTime
      BY <1>0, <1>2, Ids DEF AddJobs
    <2>3. step = "add" /\ step' = "backup" /\ proc' = proc /\ whole' = whole
      BY <1>2 DEF AddJobs, Configuring
    <2>4. QED
      BY <1>0, <2>1, <2>2, <2>3 DEF TestsOf
  <1>3. CASE AddBackup
    <2>1. /\ jobs'["scheduled_backup"] = cfg.backup
          /\ \A id \in JobId \ {"scheduled_backup"} : jobs'[id] = jobs[id]
          /\ step = "backup" /\ step' = "reminder" /\ UNCHANGED <<proc, whole, cfg, tests>>
      BY <1>0, <1>3, Ids DEF AddBackup, Configuring
    <2>2. TestsSet'
      BY <1>0, <2>1, Ids DEF TestsOf
    <2>3. QED
      BY <1>0, <2>1, <2>2, Ids
  <1>4. CASE AddBackupRaises
    BY <1>0, <1>4 DEF AddBackupRaises, TestsOf
  <1>5. CASE AddReminder
    BY <1>0, <1>5 DEF AddReminder, Configuring, TestsOf
  <1>6. CASE Start
    BY <1>0, <1>6 DEF Start
  <1>7. CASE Load
    BY <1>0, <1>7 DEF Load
  <1>8. CASE LoadRaises
    BY <1>0, <1>8 DEF LoadRaises, TestsOf
  <1>9. CASE Serve
    BY <1>0, <1>9 DEF Serve, TestsOf
  <1>10. CASE CheckReload
    BY <1>0, <1>10 DEF CheckReload, TestsOf
  <1>11. CASE Crash
    BY <1>0, <1>11 DEF Crash
  <1>12. ASSUME UNCHANGED <<proc, step, cfg, whole, tests, jobs>> PROVE Progress'
    BY <1>12 DEF TestsOf
  <1>13. CASE FireReminder \/ Tick \/ RestoreEnds \/ UNCHANGED vars
    BY <1>12, <1>13 DEF FireReminder, Tick, RestoreEnds, Write, vars
  <1>14. ASSUME NEW c \in Config, SaveSettings(c) \/ RestoreBegins(c) PROVE Progress'
    BY <1>12, <1>14 DEF SaveSettings, RestoreBegins, Write
  <1>15. QED
    BY <1>1, <1>2, <1>3, <1>4, <1>5, <1>6, <1>7, <1>8, <1>9, <1>10, <1>11, <1>13, <1>14
       DEF Next, Configure, Reload

LEMMA OneEachInit == Init => OneEach
  BY DEF Init, OneEach

LEMMA OneEachStep == TypeOK /\ OneEach /\ [Next]_vars => OneEach'
  <1> SUFFICES ASSUME TypeOK, OneEach, [Next]_vars PROVE OneEach'
    OBVIOUS
  <1>0. /\ reminderAt \in 0 .. MaxDay /\ day \in 0 .. MaxDay /\ cfg \in Config
        /\ reminded \in [1 .. MaxDay -> Nat] /\ MaxDay \in Nat
    BY SchedulerAssumption DEF TypeOK
  <1>1. CASE AddReminder
    <2>1. /\ UNCHANGED <<day, reminded>>
          /\ reminderAt' \in {0, reminderAt} \/ (reminderAt' = cfg.end /\ cfg.end > day)
      BY <1>1 DEF AddReminder, Configuring, ReminderAfter
    <2>2. cfg.end > day => cfg.end \in 1 .. MaxDay /\ ~(cfg.end <= day)
      BY <1>0, ConfigFields
    <2>3. QED
      BY <1>0, <2>1, <2>2 DEF OneEach
  <1>2. CASE FireReminder
    <2>1. reminderAt \in 1 .. MaxDay /\ reminderAt <= day /\ reminded[reminderAt] = 0
      BY <1>0, <1>2 DEF FireReminder, OneEach
    <2>2. /\ reminderAt' = 0 /\ day' = day
          /\ \/ reminded' = reminded
             \/ reminded' = [reminded EXCEPT ![reminderAt] = @ + 1]
      BY <1>2 DEF FireReminder
    <2>3. \A d \in 1 .. MaxDay : reminded'[d] = reminded[d] \/ (d = reminderAt /\ reminded'[d] = 1)
      BY <1>0, <2>1, <2>2
    <2>4. QED
      BY <1>0, <2>1, <2>2, <2>3 DEF OneEach
  <1>3. CASE Tick
    BY <1>0, <1>3 DEF Tick, OneEach
  <1>4. CASE Start
    BY <1>4 DEF Start, OneEach
  <1>5. ASSUME UNCHANGED <<reminderAt, day, reminded>> PROVE OneEach'
    BY <1>5 DEF OneEach
  <1>6. CASE RemoveJobs \/ AddJobs \/ AddBackup \/ AddBackupRaises \/ Reload \/ Crash
             \/ RestoreEnds \/ UNCHANGED vars
    BY <1>5, <1>6 DEF RemoveJobs, AddJobs, AddBackup, AddBackupRaises, Configuring, Reload,
                      CheckReload, Load, LoadRaises, Serve, Crash, RestoreEnds, Write, vars
  <1>7. ASSUME NEW c \in Config, SaveSettings(c) \/ RestoreBegins(c) PROVE OneEach'
    BY <1>5, <1>7 DEF SaveSettings, RestoreBegins, Write
  <1>8. QED
    BY <1>1, <1>2, <1>3, <1>4, <1>6, <1>7 DEF Next, Configure

-----------------------------------------------------------------------------
(* The theorems *)

LEMMA Inductive == Spec => [](TypeOK /\ Progress /\ OneEach)
  <1>1. Init => TypeOK /\ Progress /\ OneEach
    BY TypeInit, ProgressInit, OneEachInit
  <1>2. TypeOK /\ Progress /\ OneEach /\ [Next]_vars => (TypeOK /\ Progress /\ OneEach)'
    BY TypeStep, ProgressStep, OneEachStep
  <1>3. QED
    BY <1>1, <1>2, PTL DEF Spec

\* The job table only ever holds triggers that parse, whatever was typed.
THEOREM TypeCorrect == Spec => []TypeOK
  BY Inductive, PTL

\* While it is up the service never runs without health check and log rotation.
THEOREM ServiceJobsStayHolds == Spec => []ServiceJobsStay
  <1>1. Progress => ServiceJobsStay
    BY DEF Progress, ServiceJobsStay
  <1>2. QED
    BY <1>1, Inductive, PTL

\* After a reload, whether it got through or raised, the tests and reports are
\* those of the config it read.
THEOREM FailedReloadKeepsTestsHolds == Spec => []FailedReloadKeepsTests
  <1>1. Progress => FailedReloadKeepsTests
    BY DEF Progress, FailedReloadKeepsTests, Settled, TestsSet, JobsOf, JobId
  <1>2. QED
    BY <1>1, Inductive, PTL

\* After one that got through the whole table is that of a restart: no job of an
\* earlier config is left, however long the sequence of edits and failures.
THEOREM ReloadIsRestartHolds == Spec => []ReloadIsRestart
  <1>1. TypeOK /\ Progress => ReloadIsRestart
    <2> SUFFICES ASSUME TypeOK, Progress, Settled, whole
                 PROVE  tests = TestsOf(cfg) /\ jobs = JobsOf(cfg)
      BY DEF ReloadIsRestart
    <2>1. TestsSet /\ BackupSet
      BY DEF Progress, Settled
    <2>2. jobs \in [JobId -> Job]
      BY DEF TypeOK, Job
    <2>3. \A id \in JobId : jobs[id] = JobsOf(cfg)[id]
      BY <2>1 DEF TestsSet, BackupSet, JobsOf, JobId
    <2>4. jobs = [id \in JobId |-> jobs[id]]
      BY <2>2
    <2>5. JobsOf(cfg) = [id \in JobId |-> JobsOf(cfg)[id]]
      BY DEF JobsOf
    <2>6. jobs = JobsOf(cfg)
      BY <2>3, <2>4, <2>5
    <2>7. QED
      BY <2>1, <2>6 DEF TestsSet
  <1>2. QED
    BY <1>1, Inductive, PTL

\* No reminder is sent twice, over edits of the contract and restarts.
THEOREM RemindedOnceHolds == Spec => []RemindedOnce
  <1>1. OneEach => RemindedOnce
    BY DEF OneEach, RemindedOnce
  <1>2. QED
    BY <1>1, Inductive, PTL
==============================================================================
