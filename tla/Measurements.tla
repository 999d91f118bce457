---------------------------- MODULE Measurements ----------------------------
(***************************************************************************)
(* From a run of CheckSpeed.py to the history that the pages show: the     *)
(* tries with the fallback server, the entry in the week's log, the row in *)
(* the database, the alert, the completion record and the exit code, with  *)
(* the import of the logs (db_migrate.py --import-logs) that every         *)
(* `docker compose up` starts beside the runs.                             *)
(*                                                                         *)
(* The database is configured, as in both compose files.  It may fail at   *)
(* any call, before or after the commit; a run may be killed at any point. *)
(* A measurement is named by its run: two runs whose rounded values agree  *)
(* within one minute are taken for different.  Importing takes the entries *)
(* in any order, which covers the order by naive local time of the code.   *)
(***************************************************************************)
EXTENDS Naturals, Sequences

CONSTANTS
    Runs,       \* the runs of CheckSpeed.py
    OldTests,   \* tests found in the logs of an installation older than the database
    MaxRetries, \* speedtest.max_retries
    Preferred,  \* a server id is configured
    MaxImports  \* bound: starts of the import

ASSUME ConstantsAssumption ==
    /\ MaxRetries \in Nat /\ MaxImports \in Nat
    /\ Preferred \in BOOLEAN
    /\ Runs \cap OldTests = {}

VARIABLES
    pc,         \* where each run is
    tries,      \* the attempts of each run, each with its server and its outcome
    log,        \* the tests that have an entry in a weekly log
    rows,       \* the fingerprints in the table speed_tests
    alerted,    \* the runs that sent an alert
    completion, \* the completion record of each run
    exit,       \* the exit code of each run
    served,     \* scheduler and dashboard were started
    importer,   \* "off", "importing", or how the latest import ended
    todo,       \* entries read by the import and not yet inserted
    imports,    \* how many imports were started
    read,       \* the entries the import in progress has read (history)
    covered     \* the entries read by the imports that ended well (history)

stored    == <<log, rows>>
importing == <<served, importer, todo, imports, read, covered>>
vars      == <<pc, tries, alerted, completion, exit, stored, importing>>

Tests     == Runs \cup OldTests
RunPC     == {"idle", "trying", "logging", "inserting", "alerting", "recording",
              "exiting", "done", "killed"}
Server    == {"preferred", "automatic"}
Attempt   == [server : Server, ok : BOOLEAN]
\* The log keeps the server id inside the server's label only, and the parser returns
\* none: of one test, the fingerprint of the run and that of the import differ.
Fingerprint == [test : Tests, serverId : {"known", ""}]
OfRun(t)    == [test |-> t, serverId |-> "known"]
OfLog(t)    == [test |-> t, serverId |-> ""]

\* The tests the pages show: database first, and the logs while the table is empty.
History == IF rows # {} THEN {row.test : row \in rows} ELSE log

Init ==
    /\ pc = [r \in Runs |-> "idle"]
    /\ tries = [r \in Runs |-> <<>>]
    /\ log \in SUBSET OldTests
    /\ rows = {}
    /\ alerted = {}
    /\ completion = [r \in Runs |-> "none"]
    /\ exit = [r \in Runs |-> "none"]
    /\ served = FALSE
    /\ importer = "off"
    /\ todo = {} /\ read = {} /\ covered = {}
    /\ imports = 0

-----------------------------------------------------------------------------
(* A run *)

Goto(r, from, to) == pc[r] = from /\ pc' = [pc EXCEPT ![r] = to]

Ends(r, from, code) ==
    /\ Goto(r, from, "recording")
    /\ exit' = [exit EXCEPT ![r] = code]

\* The last of several tries leaves the choice of the server to the engine.
IsFallback(attempt) == Preferred /\ attempt = MaxRetries /\ MaxRetries > 1
ServerOf(attempt)   == IF Preferred /\ ~IsFallback(attempt) THEN "preferred" ELSE "automatic"

\* The compose files start the services once a first import has ended well.
Begin(r) ==
    /\ served
    /\ Goto(r, "idle", "trying")
    /\ UNCHANGED <<tries, stored, alerted, completion, exit, importing>>

\* load_config raises, no engine is found, or the server id is not a number.
SetupFails(r) ==
    /\ tries[r] = <<>>
    /\ Ends(r, "trying", "failed")
    /\ UNCHANGED <<tries, stored, alerted, completion, importing>>

\* An attempt gives a complete result, or one of its many failures makes room for the next.
Try(r, ok) ==
    /\ Len(tries[r]) < MaxRetries
    /\ pc[r] = "trying"
    /\ tries' = [tries EXCEPT ![r] = Append(@, [server |-> ServerOf(Len(@) + 1), ok |-> ok])]
    /\ pc' = [pc EXCEPT ![r] = IF ok THEN "logging" ELSE "trying"]
    /\ UNCHANGED <<stored, alerted, completion, exit, importing>>

GiveUp(r) ==
    /\ Len(tries[r]) = MaxRetries
    /\ Ends(r, "trying", "failed")
    /\ UNCHANGED <<tries, stored, alerted, completion, importing>>

WriteLog(r) ==
    /\ Goto(r, "logging", "inserting")
    /\ log' = log \cup {r}
    /\ UNCHANGED <<tries, rows, alerted, completion, exit, importing>>

WriteLogRaises(r) ==
    /\ Ends(r, "logging", "failed")
    /\ UNCHANGED <<tries, stored, alerted, completion, importing>>

\* A fingerprint that is in the table already is no error: IntegrityError returns False.
Insert(r) ==
    /\ Goto(r, "inserting", "alerting")
    /\ rows' = rows \cup {OfRun(r)}
    /\ UNCHANGED <<tries, log, alerted, completion, exit, importing>>

\* Mutant: errors of the database are logged and the run goes on.
InsertErrorIsLogged(r) ==
    /\ Goto(r, "inserting", "alerting")
    /\ rows' \in {rows, rows \cup {OfRun(r)}}
    /\ UNCHANGED <<tries, log, alerted, completion, exit, importing>>

\* Any other error of the database ends the run, whether or not the row was committed.
InsertRaises(r) ==
    /\ Ends(r, "inserting", "failed")
    /\ rows' \in {rows, rows \cup {OfRun(r)}}
    /\ UNCHANGED <<tries, log, alerted, completion, importing>>

\* check_thresholds_and_alert: SendAlert.py runs when a threshold is passed.
Alert(r, violations) ==
    /\ Ends(r, "alerting", "success")
    /\ alerted' = IF violations THEN alerted \cup {r} ELSE alerted
    /\ UNCHANGED <<tries, stored, completion, importing>>

\* SendAlert.py does not start and the error log cannot be written either.
AlertRaises(r) ==
    /\ Ends(r, "alerting", "failed")
    /\ UNCHANGED <<tries, stored, alerted, completion, importing>>

\* The `finally` clause; a failure to write the record is logged and no more.
Complete(r, written) ==
    /\ Goto(r, "recording", "exiting")
    /\ completion' = [completion EXCEPT ![r] = IF written THEN exit[r] ELSE @]
    /\ UNCHANGED <<tries, stored, alerted, exit, importing>>

Exit(r) ==
    /\ Goto(r, "exiting", "done")
    /\ UNCHANGED <<tries, stored, alerted, completion, exit, importing>>

\* The container stops, or the process is killed: no `finally` clause runs.
Kill(r) ==
    /\ pc[r] \notin {"idle", "done", "killed"}
    /\ pc' = [pc EXCEPT ![r] = "killed"]
    /\ exit' = [exit EXCEPT ![r] = "failed"]
    /\ UNCHANGED <<tries, stored, alerted, completion, importing>>

-----------------------------------------------------------------------------
(* The import of the logs *)

running == <<pc, tries, log, alerted, completion, exit>>

\* Mutant: the import fills an emptied table.
ImportBeginsAfresh ==
    /\ importer # "importing" /\ imports < MaxImports
    /\ importer' = "importing"
    /\ imports' = imports + 1
    /\ todo' = log /\ read' = log
    /\ rows' = {}
    /\ UNCHANGED <<running, served, covered>>

\* All entries are read before the first is inserted.
ImportBegins ==
    /\ importer # "importing" /\ imports < MaxImports
    /\ importer' = "importing"
    /\ imports' = imports + 1
    /\ todo' = log /\ read' = log
    /\ UNCHANGED <<running, rows, served, covered>>

\* Mutant: an entry that cannot be stored is skipped.
ImportEntrySkipsErrors(t) ==
    /\ importer = "importing" /\ t \in todo
    /\ rows' \in {rows, rows \cup {OfLog(t)}}
    /\ todo' = todo \ {t}
    /\ UNCHANGED <<running, served, importer, imports, read, covered>>

\* A fingerprint that is in the table already counts as skipped.
ImportEntry(t) ==
    /\ importer = "importing" /\ t \in todo
    /\ rows' = rows \cup {OfLog(t)}
    /\ todo' = todo \ {t}
    /\ UNCHANGED <<running, served, importer, imports, read, covered>>

ImportRaises ==
    /\ importer = "importing"
    /\ importer' = "failed"
    /\ rows' \in {rows} \cup {rows \cup {OfLog(t)} : t \in todo}
    /\ UNCHANGED <<running, served, todo, imports, read, covered>>

ImportEnds ==
    /\ importer = "importing" /\ todo = {}
    /\ importer' = "ended"
    /\ served' = TRUE
    /\ covered' = covered \cup read
    /\ UNCHANGED <<running, rows, todo, imports, read>>

-----------------------------------------------------------------------------
RunStep(r) ==
    \/ Begin(r) \/ SetupFails(r) \/ GiveUp(r) \/ WriteLog(r) \/ WriteLogRaises(r)
    \/ Insert(r) \/ InsertRaises(r) \/ AlertRaises(r) \/ Exit(r) \/ Kill(r)
    \/ \E yes \in BOOLEAN : Try(r, yes) \/ Alert(r, yes) \/ Complete(r, yes)

Import == ImportBegins \/ ImportRaises \/ ImportEnds \/ \E t \in todo : ImportEntry(t)

Next == Import \/ \E r \in Runs : RunStep(r)

Spec == Init /\ [][Next]_vars

-----------------------------------------------------------------------------
(* Properties *)

TypeOK ==
    /\ pc \in [Runs -> RunPC]
    /\ tries \in [Runs -> Seq(Attempt)] /\ \A r \in Runs : Len(tries[r]) <= MaxRetries
    /\ log \subseteq Tests /\ rows \subseteq Fingerprint /\ alerted \subseteq Runs
    /\ completion \in [Runs -> {"none", "success", "failed"}]
    /\ exit \in [Runs -> {"none", "success", "failed"}]
    /\ importer \in {"off", "importing", "ended", "failed"}
    /\ todo \subseteq Tests /\ read \subseteq Tests /\ covered \subseteq Tests
    /\ imports \in Nat /\ served \in BOOLEAN

\* What a run reports, by its exit code, its completion record or an alert, is in the log
\* and in the table, whatever the database did, wherever the run was killed and whatever
\* was imported beside it: nothing is announced that the history will not show
\* (CheckSpeed.py log_result before check_thresholds_and_alert and persist_completion_event).
Reported(r) == r \in alerted \/ "success" \in {exit[r], completion[r]}

ReportedIsStored == \A r \in Runs : Reported(r) => r \in log /\ OfRun(r) \in rows

\* What an import that ended well has read is in the history for ever, although the first
\* row in the table hides every log, and imports fail half-way (db_migrate.py import_logs,
\* measurement_repository.py load_measurement_entries).
ImportCovers == covered \subseteq History

\* Once the services run, a test can vanish from the history only when the first row is
\* stored, and only one whose run did not store it and reports nothing.
OnlyUnstoredVanish ==
    [][\A t \in History \ History' : served =>
           rows = {} /\ t \in Runs /\ OfRun(t) \notin rows' /\ ~Reported(t)']_vars

\* The automatic choice of a server is the last resort and is always tried: only the last
\* attempt makes it, every attempt before has failed, and a run that measured nothing has
\* made it (CheckSpeed.py run_speedtest_with_retry).
LastAttempt(r) == tries[r][Len(tries[r])]
GaveUp(r) == /\ pc[r] \in {"recording", "exiting", "done"}
             /\ tries[r] # <<>> /\ ~LastAttempt(r).ok

AutomaticIsLastResort ==
    Preferred => \A r \in Runs :
        /\ \A i \in 1 .. Len(tries[r]) :
               tries[r][i].server = "automatic" =>
                   /\ i = MaxRetries
                   /\ \A j \in 1 .. i - 1 : tries[r][j] = [server |-> "preferred", ok |-> FALSE]
        /\ GaveUp(r) /\ MaxRetries > 1 => LastAttempt(r).server = "automatic"

\* Each test is in the table once.  CheckSpeed.py says of a test stored before "already
\* exists in database; skipping duplicate insert", and the fingerprint is unique.
CountedOnce == \A t \in Tests : ~({OfRun(t), OfLog(t)} \subseteq rows)
=============================================================================
