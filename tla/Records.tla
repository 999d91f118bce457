------------------------------- MODULE Records --------------------------------
(***************************************************************************)
(* What is said of the measurements: the health check (health_check.py)    *)
(* whether the scheduled tests are made, the dashboard (web/app.py,        *)
(* build_dashboard_payload) which incidents there were, the weekly report  *)
(* (SendWeeklyReport.py, report_periods.py) what a week brought, the       *)
(* contract page (web/app.py, _contract_summary) what a contract did.  All *)
(* read the rows of one table in the order of their times.  A test gets    *)
(* its time and is logged, and its row is added after that, or not at all; *)
(* an import of the logs (db_migrate.py) adds rows of any age.  Time is    *)
(* counted in slots of a day.  A new time zone is at once that of the      *)
(* triggers (app.timezone) and of the dashboard's processes (_apply_       *)
(* runtime_env), but that of the scheduler's (TZ) only from their restart. *)
(* The table has a row from the first; which is read, it or the logs, is   *)
(* the subject of Measurements.                                            *)
(***************************************************************************)
EXTENDS Integers, FiniteSets, SequencesExt

CONSTANTS
    DayLength, WeekLength,  \* slots of a day, days of a week
    Retries, Timeout, Delay,    \* of a test: max_retries, timeout_seconds, retry_delay_seconds
    MinGrace,               \* ten minutes
    Misfire,                \* misfire_grace_time: how late a test may start
    Breaches,               \* the sets of metrics that a test may break
    First,                  \* those that the first one of the table may have broken
    Schedules,              \* schedules a user may choose: times of the day, scan days;
                            \* no times when scans are disabled
    Shifts,                 \* by what a new time zone may be ahead of the old one
    MaxShown,               \* incidents shown, 8 in the code
    LastSlot, MaxTests, MaxImported,     \* bounds: time, tests, those of them imported
    None

\* What has a threshold.
Metrics == {"download", "upload", "ping", "packet_loss"}

\* What a test may take: every attempt runs into its timeout, with a pause between two.
EstimatedRuntime == Retries * Timeout + (Retries - 1) * Delay

ASSUME RecordsAssumption ==
    /\ {DayLength, WeekLength, Retries, MinGrace, MaxShown} \subseteq Nat \ {0}
    /\ {Timeout, Delay, Misfire} \subseteq Nat
    /\ {LastSlot, MaxTests, MaxImported} \subseteq Nat
    /\ Breaches \cup First \subseteq SUBSET Metrics
    /\ \A s \in Schedules : s.times \subseteq 0 .. DayLength - 1 /\ s.days \subseteq 0 .. WeekLength - 1
    /\ Shifts \subseteq Int
    /\ None \notin Int

VARIABLES
    now,        \* the present slot by the clock of the scheduler and its scripts
    ahead,      \* what the time zone that was chosen is ahead of that clock
    schedule,   \* scheduling of config.json
    waiting,    \* the slots that were due whose test may still start
    underWay,   \* scheduled tests under way: the slot they were due, the one they started in
    logged,     \* the tests in the logs
    storing,    \* those of them whose own row is not added yet
    imported,   \* those that an import has added
    entries,    \* the rows of the table, in the order of their times
    due,        \* slots in which a test was due, since the last restart (history)
    done,       \* those whose test has added its row (history)
    edited,     \* the slot since which schedule and clocks are as they are (history)
    reported    \* what the weekly reports counted of weeks that are over (history)

recordsVars == <<now, ahead, schedule, waiting, underWay, logged, storing, imported, entries,
                 due, done, edited, reported>>
testVars == <<waiting, underWay, logged, storing, imported>>

Day(slot) == slot \div DayLength
Week(slot) == Day(slot) \div WeekLength

\* CronTrigger of the scheduler and _is_scheduled_scan_day of the health check.
ScheduledScanDay(day) == day % WeekLength \in schedule.days
Scheduled(slot) == ScheduledScanDay(Day(slot)) /\ slot % DayLength \in schedule.times

RecordsInit ==
    /\ now = 0 /\ ahead = 0 /\ schedule \in Schedules
    /\ waiting = {} /\ underWay = {}
    /\ logged = <<>> /\ storing = {} /\ imported = {}
    /\ \E b \in First :
          entries = <<[at |-> 0, source |-> "manual", breaches |-> b, late |-> FALSE]>>
    /\ due = {} /\ done = {} /\ edited = 0
    /\ reported = {}

-----------------------------------------------------------------------------
(* Tests *)

\* Time passes.  The triggers are those of the time zone that was chosen; a test under way
\* ends in the time it may take, one that did not start in time is dropped.
Tick ==
    /\ now < LastSlot /\ now' = now + 1
    /\ \A t \in underWay : now' <= t.since + EstimatedRuntime
    /\ LET starting == IF Scheduled(now' + ahead) THEN {now'} ELSE {}
       IN  /\ due' = due \cup starting
           /\ waiting' = {r \in waiting : now' <= r + Misfire} \cup starting
    /\ UNCHANGED <<ahead, schedule, underWay, logged, storing, imported, entries, done, edited,
                   reported>>

\* The scheduler has a free worker, at once or a little later.  It may have none, be down, or
\* have taken up a new configuration in between: then the test is not made.
TestStarts(r) ==
    /\ waiting' = waiting \ {r} /\ underWay' = underWay \cup {[run |-> r, since |-> now]}
    /\ UNCHANGED <<now, ahead, schedule, logged, storing, imported, entries, due, done, edited,
                   reported>>

\* log_result, up to the entry in the log.
Log(source, at, run) ==
    /\ Len(logged) < MaxTests
    /\ \E b \in Breaches :
          logged' = Append(logged, [at |-> at, source |-> source, breaches |-> b, run |-> run])
    /\ storing' = storing \cup {Len(logged) + 1}

TestCompletes(t) ==
    /\ underWay' = underWay \ {t} /\ Log("scheduled", now, t.run)
    /\ UNCHANGED <<now, ahead, schedule, waiting, imported, entries, due, done, edited, reported>>

\* No result after the last retry: nothing is logged.
TestFails(t) ==
    /\ underWay' = underWay \ {t}
    /\ UNCHANGED <<now, ahead, schedule, waiting, logged, storing, imported, entries, due, done,
                   edited, reported>>

\* A child of the dashboard, in its time zone.
ManualTest ==
    /\ Log("manual", now + ahead, None)
    /\ UNCHANGED <<now, ahead, schedule, waiting, underWay, imported, entries, due, done, edited,
                   reported>>

\* One of the two clocks is in a later week.
Over(week) == week < Week(now) \/ week < Week(now + ahead)

\* A row comes after those of its time or an earlier one (ORDER BY recorded_at, id); it is
\* late when its week is over.
AddRow(test) ==
    LET row == [at |-> test.at, source |-> test.source, breaches |-> test.breaches,
                late |-> Over(Week(test.at))]
    IN  \E k \in 0 .. Len(entries) :
            /\ \A i \in DOMAIN entries : i <= k <=> entries[i].at <= row.at
            /\ entries' = InsertAt(entries, k + 1, row)

\* store_measurement, at the end of log_result.  It may fail, or its process end: then the
\* step is never taken.
StoreTest(k) ==
    /\ storing' = storing \ {k} /\ AddRow(logged[k])
    /\ done' = done \cup ({logged[k].run} \ {None})
    /\ UNCHANGED <<now, ahead, schedule, waiting, underWay, logged, imported, due, edited,
                   reported>>

\* One turn of the import when the containers start: a test that its own process stored, it
\* adds again, for their fingerprints differ (see Measurements), but its own row only once.
ImportTest(k) ==
    /\ k \notin imported /\ Cardinality(imported) < MaxImported
    /\ imported' = imported \cup {k} /\ AddRow(logged[k])
    /\ UNCHANGED <<now, ahead, schedule, waiting, underWay, logged, storing, due, done, edited,
                   reported>>

-----------------------------------------------------------------------------
(* Edits *)

\* The settings page: at least one time, each once, and at least one day; the scheduler
\* takes them over at once.  Bound: one edit of schedule or time zone.
EditSchedule ==
    /\ edited = 0 /\ now > 0 /\ ahead = 0
    /\ schedule' \in Schedules \ {schedule} /\ edited' = now
    /\ UNCHANGED <<now, ahead, testVars, entries, due, done, reported>>

\* So it does with the time zone, but its own clock and that of its scripts stay as they are.
EditZone ==
    /\ edited = 0 /\ now > 0 /\ ahead = 0
    /\ ahead' \in Shifts \ {0} /\ now + ahead' >= 0
    /\ UNCHANGED <<now, schedule, testVars, entries, due, done, edited, reported>>

\* The containers start again, in the time zone that was chosen; what was under way ends.  When
\* the clock is put back, a report may be of the week under way again: it is not followed on.
Restart ==
    /\ ahead # 0 /\ now' = now + ahead /\ ahead' = 0
    /\ waiting' = {} /\ underWay' = {} /\ storing' = {}
    /\ due' = {} /\ done' = {} /\ edited' = now'
    /\ reported' = {r \in reported : r.week < Week(now')}
    /\ UNCHANGED <<schedule, logged, imported, entries>>

-----------------------------------------------------------------------------
(* check_last_speedtest *)

\* _speedtest_completion_grace_period
Grace == Max({EstimatedRuntime, MinGrace})

\* _SCHEDULE_LOOKBACK_DAYS, past the installation too.  The code looks back 400 days, for
\* schedules of the month; those of the week repeat within a week.
LookBack == WeekLength * DayLength + Grace

\* Mutant: the time a test needs is not waited for.
LatestScheduledRun ==
    LET runs == {s \in now - LookBack .. now : Scheduled(s)} IN IF runs = {} THEN None ELSE Max(runs)

\* The latest run of the schedule as it is now whose grace period is over.
LatestDueScheduledRun ==
    LET runs == {s \in now - LookBack .. now - Grace : Scheduled(s)} IN IF runs = {} THEN None ELSE Max(runs)

\* Mutant: manual tests count as well.
LastEntry == IF entries = <<>> THEN None ELSE Last(entries).at

LastTest ==
    LET i == SelectLastInSeq(entries, LAMBDA e : e.source = "scheduled")
    IN  IF i = 0 THEN None ELSE entries[i].at

Healthy ==
    \/ LatestDueScheduledRun = None
    \/ LastTest # None /\ LastTest >= LatestDueScheduledRun

-----------------------------------------------------------------------------
(* What is counted of some tests, given by their places in the list *)

GoodTests(rows) == Cardinality({i \in rows : entries[i].breaches = {}})
BadTests(rows, metric) == Cardinality({i \in rows : metric \in entries[i].breaches})

-----------------------------------------------------------------------------
(* build_dashboard_payload *)

\* _filter_entries_for_mode, by the clock of the time zone that was chosen
Recent(days) == {i \in DOMAIN entries : entries[i].at >= now + ahead - days * DayLength}

Violations(days) ==
    LET rows == Recent(days) IN [m \in Metrics |-> BadTests(rows, m)]

NewIncident(entry) ==
    [start |-> entry.at, until |-> entry.at, tests |-> 0, counts |-> [m \in Metrics |-> 0],
     ongoing |-> TRUE]

Counted(incident, entry) ==
    [incident EXCEPT
        !.until = entry.at, !.tests = @ + 1,
        !.counts = [m \in Metrics |-> @[m] + IF m \in entry.breaches THEN 1 ELSE 0]]

\* _finalize_incident: its duration is up to the good test that ends it.
Resolved(incident, entry) == [incident EXCEPT !.until = entry.at, !.ongoing = FALSE]

\* Mutant: the incident under way is not closed by a good test.
WithEntryOpen(history, entry) ==
    IF entry.breaches = {} THEN history
    ELSE IF history = <<>> THEN <<Counted(NewIncident(entry), entry)>>
    ELSE Append(Front(history), Counted(Last(history), entry))

\* One turn of the loop; the last of the history is open while "ongoing".
WithEntry(history, entry) ==
    LET open == history # <<>> /\ Last(history).ongoing
    IN  CASE entry.breaches # {} /\ open -> Append(Front(history), Counted(Last(history), entry))
          [] entry.breaches # {} /\ ~open -> Append(history, Counted(NewIncident(entry), entry))
          [] entry.breaches = {} /\ open -> Append(Front(history), Resolved(Last(history), entry))
          [] entry.breaches = {} /\ ~open -> history

\* _build_incident_history
Incidents(rows) ==
    LET after[i \in 0 .. Len(entries)] ==
            IF i = 0 THEN <<>>
            ELSE IF i \in rows THEN WithEntry(after[i - 1], entries[i]) ELSE after[i - 1]
    IN  after[Len(entries)]

\* Newest first (started_at tells apart what starts in the same slot), the first MaxShown.
IncidentHistory(days) ==
    LET all == Incidents(Recent(days))
        shown == IF Len(all) < MaxShown THEN Len(all) ELSE MaxShown
    IN  [j \in 1 .. shown |-> all[Len(all) + 1 - j]]

\* _build_sla_summary
BreachTests(days) == Cardinality(Recent(days)) - GoodTests(Recent(days))

-----------------------------------------------------------------------------
(* SendWeeklyReport *)

\* Mutant: the report is about the week under way.
PresentWeek(clock) == Week(clock)

\* weekly_report_window: the last week that is over.
ReportWeek(clock) == Week(clock) - 1

InDays(first, last) == {i \in DOMAIN entries : Day(entries[i].at) \in first .. last}

InWeek(week) == InDays(week * WeekLength, week * WeekLength + WeekLength - 1)

\* build_report_html
WeekCounts(week) ==
    LET rows == InWeek(week)
    IN  [week |-> week, tests |-> Cardinality(rows), healthy |-> GoodTests(rows),
         breaches |-> [m \in Metrics |-> BadTests(rows, m)]]

\* On its day of the week, by the scheduler's clock, and whenever the user asks for it
\* (run_weekly_report_now), by the dashboard's.  A week without a test is not reported; nor
\* is one whose mail fails.  Bound: one report is followed, since it changes nothing else.
WeeklyReport ==
    \E clock \in {now, now + ahead} :
        LET week == ReportWeek(clock)
        IN  /\ week >= 0 /\ InWeek(week) # {}
            /\ reported = {} /\ reported' = {WeekCounts(week)}
            /\ UNCHANGED <<now, ahead, schedule, testVars, entries, due, done, edited>>

-----------------------------------------------------------------------------
(* _contract_summary *)

ContractSummary(first, last) ==
    LET filtered == InDays(first, last)
        manual == Cardinality({i \in filtered : entries[i].source = "manual"})
        breaches == [m \in Metrics |-> BadTests(filtered, m)]
    IN  [tests |-> Cardinality(filtered),
         manual |-> manual, scheduled |-> Cardinality(filtered) - manual,
         breaches |-> breaches,
         total |-> breaches["download"] + breaches["upload"] + breaches["ping"]
                   + breaches["packet_loss"]]

-----------------------------------------------------------------------------
RecordsNext ==
    \/ Tick \/ ManualTest \/ EditSchedule \/ EditZone \/ Restart \/ WeeklyReport
    \/ \E r \in waiting : TestStarts(r)
    \/ \E t \in underWay : TestCompletes(t) \/ TestFails(t)
    \/ \E k \in storing : StoreTest(k)
    \/ \E k \in DOMAIN logged : ImportTest(k)

RecordsSpec == RecordsInit /\ [][RecordsNext]_recordsVars

-----------------------------------------------------------------------------
(* Properties *)

\* A test that the health check calls overdue was due, has not added its row, and if it is
\* under way it started later than the grace period leaves room for, unless schedule or time
\* zone were changed since: the check applies the schedule of today to the past, and has the
\* new time zone only from the restart, however often a test is due before.
OverdueIsReal ==
    LET run == LatestDueScheduledRun
    IN  ~Healthy => \/ /\ run \in due \ done
                       /\ \A t \in underWay :
                             t.run = run => t.since >= run + Grace - EstimatedRuntime
                    \/ edited >= run
                    \/ ahead # 0

\* The latest test that was due and not made is called overdue, whatever manual tests were
\* made, unless one that was due earlier was done so late, or schedule or time zone were
\* changed, since.
MissedIsOverdue ==
    \A r \in due \ done :
        /\ r <= now - Grace /\ \A s \in due : s > r => s > now - Grace
        /\ edited < r /\ ahead = 0
        /\ \A i \in DOMAIN entries : entries[i].source = "scheduled" => entries[i].at < r
        => ~Healthy

\* The stretches of bad tests, one after the other, and where they start.
IsBad(i) == entries[i].breaches # {}

Starts(rows) == {k \in rows : IsBad(k) /\ ~(k - 1 \in rows /\ IsBad(k - 1))}

Stretch(rows, k) == {l \in rows : l >= k /\ \A i \in k .. l : i \in rows /\ IsBad(i)}

Total(numbers) ==
    LET sum[j \in 0 .. Len(numbers)] == IF j = 0 THEN 0 ELSE sum[j - 1] + numbers[j]
    IN  sum[Len(numbers)]

\* Every bad test of the window is in exactly one incident, and every incident is of bad
\* tests one after the other: there are as many as such stretches, each starts with its
\* stretch and has the tests and breaches of it, none lasts into the next, and only one that
\* holds the last test is under way.  When there are more than are shown, the newest are; when
\* all are shown, their counts add up to those of the window.
IncidentsAddUp ==
    \A days \in 1 .. WeekLength :
        LET rows == Recent(days)
            incidents == IncidentHistory(days)
            starts == Starts(rows)
            all == Cardinality(starts)
            violations == Violations(days)
        IN  /\ Len(incidents) = IF all < MaxShown THEN all ELSE MaxShown
            /\ \A j \in DOMAIN incidents :
                  /\ incidents[j].ongoing <=> j = 1 /\ IsBad(Len(entries))
                  /\ j > 1 => incidents[j].until <= incidents[j - 1].start
                  /\ \E k \in starts :
                        /\ Cardinality({l \in starts : l > k}) = j - 1
                        /\ incidents[j].start = entries[k].at
                        /\ LET stretch == Stretch(rows, k)
                           IN  /\ incidents[j].tests = Cardinality(stretch)
                               /\ \A m \in Metrics : incidents[j].counts[m] = BadTests(stretch, m)
            /\ all <= MaxShown =>
                  /\ Total([j \in DOMAIN incidents |-> incidents[j].tests]) = BreachTests(days)
                  /\ \A m \in Metrics :
                        Total([j \in DOMAIN incidents |-> incidents[j].counts[m]])
                            = violations[m]

\* A week that was reported can only gain by rows that came when it was over: a test stored
\* after midnight, another time zone, an import.  (Or by its last hours, when a new time zone
\* makes it the week under way again: such a report is left out from there on.)  Asked later at any time, the summary of a
\* contract that was that week has no fewer tests, or breaches of any metric, than the report,
\* and without the late rows no more.  In all it has as many breaches as its tests that are not
\* healthy account for: one to four each.
ReportIsFinal ==
    \A r \in reported :
        LET rows == InWeek(r.week)
            timely == {i \in rows : ~entries[i].late}
            bad == Cardinality(rows) - GoodTests(rows)
            summary == ContractSummary(r.week * WeekLength, (r.week + 1) * WeekLength - 1)
        IN  /\ Cardinality(timely) <= r.tests /\ r.tests <= summary.tests
            /\ \A m \in Metrics : /\ BadTests(timely, m) <= r.breaches[m]
                                  /\ r.breaches[m] <= summary.breaches[m]
            /\ bad <= summary.total /\ summary.total <= 4 * bad

==============================================================================
