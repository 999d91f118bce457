-------------------------------- MODULE Backup --------------------------------
(***************************************************************************)
(* Backup and restore (backup_manager.py, routes/backups.py).  Two         *)
(* processes write archives into one directory, the dashboard on request   *)
(* and the scheduler by its job; each keeps the number of files down after *)
(* its own write, by modification time.  A restore writes the parts of an  *)
(* archive one after the other into the running system and undoes nothing. *)
(* Of the parts, .env (the password of the account and that of the         *)
(* backups) and the database (the session version) are followed here;      *)
(* config.json and the logs are written in their turn, and may fail.       *)
(***************************************************************************)
EXTENDS Naturals, Sequences, SequencesExt

CONSTANTS
    MaxBackups,   \* max_backups
    Seconds,      \* bound: seconds in which archives are named
    MaxEvents     \* bound: seconds passed and passwords set

ASSUME BackupAssumption ==
    MaxBackups \in Nat \ {0} /\ Seconds \in Nat \ {0} /\ MaxEvents \in Nat

VARIABLES
    clock,     \* the second of the day; it names the archives
    dir,       \* the files of the directory, oldest modification first
    data,      \* what each of them holds
    writer,    \* the archive each process is making
    restore,   \* the restore under way
    file,      \* .env: password of the account, password of the backups
    password,  \* password of the account in the environment of the dashboard
    key,       \* password of the backups in the environment of each process
    store,     \* the session version of the database
    version,   \* SESSION_VERSION of the dashboard
    session,   \* one session of the dashboard
    highest,   \* the highest session version so far (history)
    made,      \* passwords set so far
    cut,       \* a save ended before its retention was done (history)
    rewound,   \* a restore, and the version has not passed that since (history)
    behind     \* processes that have not taken over the .env they have (history)

vars == <<clock, dir, data, writer, restore, file, password, key, store, version, session,
          highest, made, cut, rewound, behind>>

Processes == {"dash", "sched"}
Names == 1 .. Seconds

FirstEnv == [pw |-> 1, key |-> 1]
Nothing == [state |-> "none", file |-> FirstEnv, store |-> 1, owed |-> TRUE]
Idle == [at |-> "idle", name |-> 0, arc |-> Nothing, seen |-> <<>>, raced |-> FALSE]
NoRestore == [at |-> "idle", arc |-> Nothing]

Init ==
    /\ clock = 1 /\ dir = <<>>
    /\ data = [n \in Names |-> Nothing]
    /\ writer = [p \in Processes |-> Idle]
    /\ restore = NoRestore
    /\ file = FirstEnv /\ password = 1 /\ key = [p \in Processes |-> 1]
    /\ store = 1 /\ version = 1
    /\ session = [pw |-> 1, sv |-> 1] /\ highest = 1
    /\ made = 1
    /\ cut = FALSE /\ rewound = FALSE /\ behind = {}

-----------------------------------------------------------------------------
(* Helpers *)

account == <<file, password, key, store, version, session, highest, made, rewound, behind>>

Other(p) == IF p = "dash" THEN "sched" ELSE "dash"
End(p) == writer' = [writer EXCEPT ![p] = Idle]

\* The handlers of the dashboard run on the event loop and wait for nothing between
\* their body and their answer: of these one at a time.
LoopFree == writer["dash"].at = "idle" /\ restore.at = "idle"

MoreMayHappen == (clock - 1) + (made - 1) < MaxEvents

Removed(n) == RemoveFirst(dir, n)
\* A write makes a file the newest.
Touched(n) == Append(Removed(n), n)
Present(n) == Contains(dir, n)
Newer(n) == {dir[j] : j \in {j \in DOMAIN dir : \E i \in 1 .. j - 1 : dir[i] = n}}

\* Process p is removing files, n on its list.
Lists(p, n) == writer[p].at = "trim" /\ Contains(writer[p].seen, n)

\* Process p is removing files and means to keep file n.
MeansToKeep(p, n) ==
    /\ writer[p].at = "trim"
    /\ \E i \in DOMAIN writer[p].seen :
           writer[p].seen[i] = n /\ i + MaxBackups > Len(writer[p].seen)

Tick ==
    /\ clock < Seconds /\ MoreMayHappen /\ clock' = clock + 1
    /\ UNCHANGED <<dir, data, writer, restore, account, cut>>

-----------------------------------------------------------------------------
(* create_backup and save_backup_to_path *)

\* The archive is encrypted with BACKUP_PASSWORD of the process (run_scheduled_backup,
\* api_backup_create).  Its parts are read in turn: the files, then the database.
ReadFiles(p) ==
    /\ writer[p].at = "idle" /\ (p = "dash" => LoopFree)
    /\ LET arc == [writer[p].arc EXCEPT !.file = file,
                                        !.owed = key[p] = file.key \/ p \in behind]
       IN  writer' = [writer EXCEPT ![p] = [@ EXCEPT !.at = "state", !.arc = arc]]
    /\ UNCHANGED <<clock, dir, data, restore, account, cut>>

Shares(p, n) == writer[Other(p)].at = "write" /\ writer[Other(p)].name = n

\* The database is read last; then the file of this second is opened and emptied, the
\* other's of the same second too.
OpenFile(p) ==
    /\ writer[p].at = "state"
    /\ writer' = [writer EXCEPT ![p] = [@ EXCEPT !.at = "write", !.name = clock, !.arc.store = store]]
    /\ dir' = Touched(clock)
    /\ data' = [data EXCEPT ![clock] =
                   [Nothing EXCEPT !.state = IF Shares(p, clock) THEN "shared" ELSE "open"]]
    /\ UNCHANGED <<clock, restore, account, cut>>

\* Two that wrote the same file leave the archive of the last or a mixture.  A file that
\* was removed meanwhile is written to no directory.
WriteFile(p) ==
    /\ writer[p].at = "write"
    /\ writer' = [writer EXCEPT ![p] = [Idle EXCEPT !.at = "glob"],
                                ![Other(p)].raced =
                                    @ \/ Lists(Other(p), writer[p].name)]
    /\ LET n == writer[p].name
       IN  IF ~Present(n) THEN UNCHANGED <<dir, data>>
           ELSE /\ dir' = Touched(n)
                /\ \E s \in IF data[n].state # "shared" THEN {"whole"}
                            ELSE IF Shares(p, n) THEN {"shared"} ELSE {"whole", "mixed"} :
                     data' = [data EXCEPT ![n] = IF s = "whole" THEN [writer[p].arc EXCEPT !.state = s]
                                                 ELSE [Nothing EXCEPT !.state = s]]
    /\ UNCHANGED <<clock, restore, account, cut>>

\* The disk is full.
WriteRaises(p) ==
    /\ writer[p].at = "write"
    /\ End(p) /\ cut' = TRUE
    /\ UNCHANGED <<clock, dir, data, restore, account>>

\* _backup_files lists the directory, then asks for the time of each file.
Glob(p) ==
    /\ writer[p].at = "glob"
    /\ writer' = [writer EXCEPT ![p].at = "sort", ![p].seen = dir]
    /\ cut' = FALSE
    /\ UNCHANGED <<clock, dir, data, restore, account>>

\* Mutant: sorted by the age of the name instead of that of the file, newest first.
NewestFirst(names) ==
    CHOOSE s \in SetToSeqs(names) : \A i, j \in DOMAIN s : i < j => s[i] \in Newer(s[j])

Sorted(names) ==
    CHOOSE s \in SetToSeqs(names) : \A i, j \in DOMAIN s : i < j => s[j] \in Newer(s[i])

\* A file that is gone by then raises FileNotFoundError: the archive is saved and the
\* answer says that it is not.
SortFiles(p) ==
    /\ writer[p].at = "sort"
    /\ IF \A n \in Range(writer[p].seen) : Present(n)
       THEN /\ writer' = [writer EXCEPT ![p].at = "trim", ![p].seen = Sorted(Range(writer[p].seen))]
            /\ UNCHANGED cut
       ELSE End(p) /\ cut' = TRUE
    /\ UNCHANGED <<clock, dir, data, restore, account>>

\* Mutant: one file more is kept.
TooManyPlus(names) == Len(names) > MaxBackups + 1

TooMany(names) == Len(names) > MaxBackups

\* _enforce_max_backups: one unlink after the other, of files that may be gone.
Trim(p) ==
    /\ writer[p].at = "trim"
    /\ IF TooMany(writer[p].seen)
       THEN LET n == Head(writer[p].seen)
            IN  /\ dir' = Removed(n) /\ data' = [data EXCEPT ![n] = Nothing]
                /\ writer' = [writer EXCEPT ![p].seen = Tail(@),
                                            ![Other(p)].raced = @ \/ MeansToKeep(Other(p), n)]
       ELSE End(p) /\ UNCHANGED <<dir, data>>
    /\ UNCHANGED <<clock, restore, account, cut>>

\* delete_backup, of a file the list shows.
Delete(n) ==
    /\ LoopFree /\ Present(n)
    /\ dir' = Removed(n) /\ data' = [data EXCEPT ![n] = Nothing]
    /\ writer' = [writer EXCEPT !["sched"].raced = @ \/ MeansToKeep("sched", n)]
    /\ UNCHANGED <<clock, restore, account, cut>>

-----------------------------------------------------------------------------
(* restore_backup *)

\* A whole archive and its password; all others are refused before anything is written.
\* config.json is the first part.
RestoreConfig ==
    /\ LoopFree
    /\ \E n \in Range(dir) : data[n].state = "whole" /\ restore' = [at |-> "env", arc |-> data[n]]
    /\ UNCHANGED <<clock, dir, data, writer, account, cut>>

\* Any part may raise; those before it stay restored.
RestoreRaises ==
    /\ restore.at # "idle" /\ restore' = NoRestore
    /\ UNCHANGED <<clock, dir, data, writer, account, cut>>

\* _merge_env_values: into the file, not into the environment of a process.
RestoreEnv ==
    /\ restore.at = "env" /\ restore' = [restore EXCEPT !.at = "state"]
    /\ file' = restore.arc.file
    /\ behind' = {p \in Processes : key[p] # file'.key}
    /\ rewound' = (rewound \/ file'.pw # file.pw)
    /\ UNCHANGED <<clock, dir, data, writer, password, key, store, version, session, highest, made, cut>>

\* _restore_runtime_state_snapshot: the tables in one transaction.  The version the
\* process has in memory stays.  The logs come after it, and may raise to no effect here.
RestoreState ==
    /\ restore.at = "state" /\ restore' = NoRestore
    /\ store' = restore.arc.store
    /\ rewound' = (rewound \/ store' < highest)
    /\ UNCHANGED <<clock, dir, data, writer, file, password, key, version, session, highest, made,
                   cut, behind>>

-----------------------------------------------------------------------------
(* The system around it *)

\* Mutant: the session version stays as it is.
NotBumped == store

\* bump_session_version
Bumped == store + 1

\* A password of the account, by the settings or, in a thread beside them, by a link:
\* .env, the environment of the dashboard, the session version.
SetPassword ==
    /\ MoreMayHappen /\ made' = made + 1
    /\ file' = [file EXCEPT !.pw = made']
    /\ password' = made'
    /\ store' = Bumped /\ version' = store'
    /\ highest' = IF store' > highest THEN store' ELSE highest
    /\ rewound' = (rewound /\ store' <= highest)
    /\ UNCHANGED <<clock, dir, data, writer, restore, session, key, cut, behind>>

\* Mutant: the process keeps what it had in its environment.
KeptEnv(new) == key

\* _apply_runtime_env
AppliedEnv(new) == [key EXCEPT !["dash"] = new]

\* A password of the backups, by the settings.
SetBackupPassword ==
    /\ LoopFree /\ MoreMayHappen /\ made' = made + 1
    /\ file' = [file EXCEPT !.key = made']
    /\ key' = AppliedEnv(made')
    /\ behind' = (behind \ {"dash"}) \cup {"sched"}
    /\ UNCHANGED <<clock, dir, data, writer, restore, password, store, version, session, highest,
                   cut, rewound>>

SignIn ==
    /\ session' = [pw |-> password, sv |-> version]
    /\ session' # session
    /\ UNCHANGED <<clock, dir, data, writer, restore, file, password, key, store, version, highest,
                   made, cut, rewound, behind>>

\* A process stops wherever it is and starts again, with the environment of .env.
Restart(p) ==
    /\ End(p)
    /\ cut' = (cut \/ writer[p].at \notin {"idle", "state"})
    /\ key' = [key EXCEPT ![p] = file.key] /\ behind' = behind \ {p}
    /\ IF p = "dash" THEN password' = file.pw /\ version' = store /\ restore' = NoRestore
                     ELSE UNCHANGED <<password, version, restore>>
    /\ UNCHANGED <<clock, dir, data, file, store, session, highest, made, rewound>>

-----------------------------------------------------------------------------
Write(p) ==
    \/ ReadFiles(p) \/ OpenFile(p) \/ WriteFile(p) \/ WriteRaises(p)
    \/ Glob(p) \/ SortFiles(p) \/ Trim(p) \/ Restart(p)

Restoring == RestoreConfig \/ RestoreRaises \/ RestoreEnv \/ RestoreState

Next ==
    \/ \E p \in Processes : Write(p)
    \/ \E n \in Names : Delete(n)
    \/ Restoring \/ SetPassword \/ SetBackupPassword \/ SignIn \/ Tick

Spec == Init /\ [][Next]_vars

-----------------------------------------------------------------------------
(* Properties *)

Unfinished(n) == {m \in Newer(n) : data[m].state # "whole"}

\* Process p removes n, the newest whole archive, though nothing went wrong.
TrimsNewest(p, n) ==
    /\ writer[p].at = "trim" /\ Trim(p)
    /\ data[n].state = "whole" /\ Present(n) /\ n \notin Range(dir')
    /\ \A m \in Newer(n) : data[m].state # "whole"
    /\ Len(dir) - 1 < MaxBackups \/ Unfinished(n) = {}
    /\ ~writer[p].raced

\* Retention never removes the newest whole archive, with two processes writing and
\* trimming in one directory, unless files left unfinished take up the places that are
\* kept, or a file it counts on was written to or removed while it was at it.
NewestKept == [][\A p \in Processes : \A n \in Names : ~TrimsNewest(p, n)]_vars

\* When nobody writes there are no more files than max_backups, unless a save failed or
\* stopped after it had created its file and none has listed the directory since.
WithinMax ==
    (\A p \in Processes : writer[p].at = "idle") /\ ~cut => Len(dir) <= MaxBackups

\* A change of the password ends the sessions before it, but for one thing: a restore puts
\* back a password, in force from the next start, without a change of the version, and may
\* take the version back, so that the next changes count through numbers given before.
SessionsEnd ==
    session.sv >= version /\ session.pw # password => rewound

\* An archive opens with the password of the backups that .env held when it was made,
\* unless .env was changed or restored under a process that still runs with the earlier.
KeyIsSaved == \A n \in Range(dir) : data[n].state = "whole" => data[n].owed

==============================================================================
