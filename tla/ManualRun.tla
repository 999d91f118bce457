------------------------------ MODULE ManualRun ------------------------------
(***************************************************************************)
(* The manual speed test of the dashboard process: the POST handler        *)
(* (web/routes/manual_runs.py), the worker threads and the state they      *)
(* report (web/app.py), the row that keeps that state over a restart       *)
(* (state_store.py), and the CheckSpeed.py child a worker reads.           *)
(*                                                                         *)
(* The handler is an `async def` whose body awaits nothing once the        *)
(* request is parsed, so one execution of it is in progress at a time;     *)
(* worker threads interleave with it and, if the lock were no good, with   *)
(* each other.  Saving the state is two steps, the snapshot and the write, *)
(* and the write may fail.                                                 *)
(***************************************************************************)
EXTENDS Integers, Sequences, FiniteSets

CONSTANTS
    MaxRuns,        \* bound: runs accepted in a behaviour
    MaxTime,        \* bound: ticks of the clock
    MaxFaults,      \* bound: failed writes, thread starts and process starts
    MaxCrashes,     \* bound: crashes of the dashboard
    TicksPerSecond, \* resolution of time.time()
    CooldownSeconds,\* MANUAL_SPEEDTEST_COOLDOWN_SECONDS
    LogLines,       \* the log keeps this many lines (60 in the code)
    ChildLines      \* the kinds of line CheckSpeed.py prints, out of Line

ASSUME ConstantsAssumption ==
    /\ MaxRuns \in Nat /\ MaxTime \in Nat /\ MaxFaults \in Nat /\ MaxCrashes \in Nat
    /\ CooldownSeconds \in Nat
    /\ TicksPerSecond \in Nat \ {0} /\ LogLines \in Nat \ {0}

VARIABLES
    server,     \* "serving" requests, or "down": not yet past its lifespan start-up
    now,        \* time.time(), in ticks
    lock,       \* MANUAL_SPEEDTEST_LOCK, "free" or "held"
    lastAt,     \* LAST_MANUAL_SPEEDTEST_AT
    mem,        \* MANUAL_RUN_STATE
    disk,       \* the row of manual_run_state: payload and last_manual_speedtest_at
    hpc,        \* where the POST handler is
    wpc,        \* where the worker thread of each run is
    io,         \* what each of them still has to save: nothing, a change, a snapshot
    snap,       \* the snapshot each is about to write
    runs,       \* how many runs were accepted
    child,      \* the CheckSpeed.py process of each run
    launchedAt, \* lastAt of the latest run whose child was launched (history)
    faults, crashes

vars == <<server, now, lock, lastAt, mem, disk, hpc, wpc, io, snap, runs, child,
          launchedAt, faults, crashes>>

Line     == {"progress", "plain", "timed out", "unexpected error"}

ASSUME ChildLinesAssumption == ChildLines \subseteq Line

Never    == -(CooldownSeconds * TicksPerSecond) - TicksPerSecond   \* 0.0: long ago
RunIds   == 1 .. MaxRuns
Handler  == 0
Actors   == {Handler} \cup RunIds
HandlerPC  == {"idle", "begin", "begun", "undo", "undone"}
WorkerPC   == {"off", "launch", "spawn", "reading", "noting", "finished", "raised",
               "crash logged", "ended", "closing"}
ChildState == {"none", "alive", "ok", "failed", "killed"}
Status     == {"idle", "running", "completed", "failed"}
Stage      == {"Idle", "Preparing test", "Launching speed test", "Testing",
               "Completed", "Timed out", "Failed", "Interrupted"}
Logs       == {logs \in Seq(Line) : Len(logs) <= LogLines}
\* `run` stands for started_at, which the code shows and never compares.
RunState   == [run: 0 .. MaxRuns, status: Status, stage: Stage, logs: Logs]
Row        == [state: RunState, lastAt: Int]

DEFAULT_MANUAL_RUN_STATE ==
    [run |-> 0, status |-> "idle", stage |-> "Idle", logs |-> <<>>]

FirstRow == [state |-> DEFAULT_MANUAL_RUN_STATE, lastAt |-> Never]

Init ==
    /\ server = "down"
    /\ now = 0
    /\ lock = "free"
    /\ lastAt = Never
    /\ mem = DEFAULT_MANUAL_RUN_STATE
    /\ disk = FirstRow
    /\ hpc = "idle"
    /\ wpc = [r \in RunIds |-> "off"]
    /\ io = [a \in Actors |-> "none"]
    /\ snap = [a \in Actors |-> FirstRow]
    /\ runs = 0
    /\ child = [r \in RunIds |-> "none"]
    /\ launchedAt = Never
    /\ faults = 0
    /\ crashes = 0

-----------------------------------------------------------------------------
(* Helpers *)

\* _append_manual_run_log: the last LogLines lines.
Logged(logs, line) ==
    LET all == Append(logs, line)
    IN  IF Len(all) > LogLines THEN SubSeq(all, Len(all) - LogLines + 1, Len(all)) ELSE all

\* _infer_manual_run_stage: the stage a line announces, the current one if none.
StageAfter(line, stage) ==
    CASE line = "progress"         -> "Testing"
      [] line = "timed out"        -> "Timed out"
      [] line = "unexpected error" -> "Failed"
      [] OTHER                     -> stage

\* _manual_run_terminal_message
TerminalStage(exit, logs) ==
    IF exit = "ok" THEN "Completed"
    ELSE IF \E i \in DOMAIN logs : logs[i] = "timed out" THEN "Timed out" ELSE "Failed"

TerminalStatusIgnoringExit(exit) == "completed"
TerminalStatus(exit) == IF exit = "ok" THEN "completed" ELSE "failed"

\* Actor a changed MANUAL_RUN_STATE and has the change to persist.
Change(a, state) ==
    /\ io[a] = "none"
    /\ mem' = state
    /\ io' = [io EXCEPT ![a] = "change"]

\* The whole seconds left, as int() cuts them.
CooldownRemaining ==
    LET left == lastAt + CooldownSeconds * TicksPerSecond - now
    IN  IF left > 0 THEN left \div TicksPerSecond ELSE 0

Failed(state) == [state EXCEPT !.status = "failed", !.stage = "Failed"]

\* _try_acquire_manual_speedtest_lock, when it succeeds
AcquireAnyway == lock' = "held"
Acquire == lock = "free" /\ lock' = "held"

Fault == faults < MaxFaults /\ faults' = faults + 1

-----------------------------------------------------------------------------
(* _persist_manual_runtime_state, by the handler or by a worker *)

DropSnapshot(a) ==
    /\ io' = [io EXCEPT ![a] = "none"]
    /\ snap' = [snap EXCEPT ![a] = FirstRow]

Snapshot(a) ==
    /\ io[a] = "change"
    /\ snap' = [snap EXCEPT ![a] = [state |-> mem, lastAt |-> lastAt]]
    /\ io' = [io EXCEPT ![a] = "snapshot"]
    /\ UNCHANGED <<server, now, lock, lastAt, mem, disk, hpc, wpc, runs, child, launchedAt,
                   faults, crashes>>

Save(a) ==
    /\ io[a] = "snapshot"
    /\ disk' = snap[a]
    /\ DropSnapshot(a)
    /\ UNCHANGED <<server, now, lock, lastAt, mem, hpc, wpc, runs, child, launchedAt,
                   faults, crashes>>

\* The write raises.  In the handler nothing catches it: the request ends with a
\* 500 and the lock stays taken.
HandlerSaveRaises ==
    /\ io[Handler] = "snapshot"
    /\ Fault
    /\ DropSnapshot(Handler)
    /\ hpc' = "idle"
    /\ UNCHANGED <<server, now, lock, lastAt, mem, disk, wpc, runs, child, launchedAt,
                   crashes>>

\* In a worker the except block catches it; raised there, it leads to finally.
AfterRaiseUncaught(pc) == "off"
AfterRaise(pc) == IF pc \in {"crash logged", "ended"} THEN "closing" ELSE "raised"

WorkerSaveRaises(r) ==
    /\ io[r] = "snapshot"
    /\ Fault
    /\ DropSnapshot(r)
    /\ wpc' = [wpc EXCEPT ![r] = AfterRaise(@)]
    /\ UNCHANGED <<server, now, lock, lastAt, mem, disk, hpc, runs, child, launchedAt,
                   crashes>>

-----------------------------------------------------------------------------
(* POST /api/run/speedtest *)

\* Past the session checks: the cooldown is over and the lock was free.
AcceptRun ==
    /\ server = "serving"
    /\ hpc = "idle"
    /\ runs < MaxRuns
    /\ CooldownRemaining = 0
    /\ Acquire
    /\ lastAt' = now
    /\ runs' = runs + 1
    /\ hpc' = "begin"
    /\ UNCHANGED <<server, now, mem, disk, wpc, io, snap, child, launchedAt, faults, crashes>>

\* _start_manual_run_state
BeginRun ==
    /\ hpc = "begin"
    /\ Change(Handler, [run |-> runs, status |-> "running",
                        stage |-> "Preparing test", logs |-> <<>>])
    /\ hpc' = "begun"
    /\ UNCHANGED <<server, now, lock, lastAt, disk, wpc, snap, runs, child, launchedAt,
                   faults, crashes>>

StartThread ==
    /\ hpc = "begun"
    /\ io[Handler] = "none"
    /\ wpc' = [wpc EXCEPT ![runs] = "launch"]
    /\ hpc' = "idle"
    /\ UNCHANGED <<server, now, lock, lastAt, mem, disk, io, snap, runs, child, launchedAt,
                   faults, crashes>>

\* The thread cannot start: the lock is released, then the state says so.
ThreadStartRaises ==
    /\ hpc = "begun"
    /\ io[Handler] = "none"
    /\ Fault
    /\ lock' = "free"
    /\ hpc' = "undo"
    /\ UNCHANGED <<server, now, lastAt, mem, disk, wpc, io, snap, runs, child, launchedAt,
                   crashes>>

UndoRun ==
    /\ hpc = "undo"
    /\ Change(Handler, Failed(mem))
    /\ hpc' = "undone"
    /\ UNCHANGED <<server, now, lock, lastAt, disk, wpc, snap, runs, child, launchedAt,
                   faults, crashes>>

AnswerUndone ==
    /\ hpc = "undone"
    /\ io[Handler] = "none"
    /\ hpc' = "idle"
    /\ UNCHANGED <<server, now, lock, lastAt, mem, disk, wpc, io, snap, runs, child, launchedAt,
                   faults, crashes>>

-----------------------------------------------------------------------------
(* _manual_speedtest_worker *)

WorkerChange(r, from, to, state) ==
    /\ wpc[r] = from
    /\ wpc' = [wpc EXCEPT ![r] = to]
    /\ Change(r, state)
    /\ UNCHANGED <<server, now, lock, lastAt, disk, hpc, snap, runs, child, launchedAt,
                   faults, crashes>>

Launch(r) ==
    WorkerChange(r, "launch", "spawn", [mem EXCEPT !.stage = "Launching speed test"])

Spawn(r) ==
    /\ wpc[r] = "spawn"
    /\ io[r] = "none"
    /\ child' = [child EXCEPT ![r] = "alive"]
    /\ launchedAt' = lastAt
    /\ wpc' = [wpc EXCEPT ![r] = "reading"]
    /\ UNCHANGED <<server, now, lock, lastAt, mem, disk, hpc, io, snap, runs, faults, crashes>>

SpawnRaises(r) ==
    /\ wpc[r] = "spawn"
    /\ io[r] = "none"
    /\ Fault
    /\ wpc' = [wpc EXCEPT ![r] = "raised"]
    /\ UNCHANGED <<server, now, lock, lastAt, mem, disk, hpc, io, snap, runs, child, launchedAt,
                   crashes>>

\* A line of the child's output: logged and saved, then noted and saved again.
ReadLine(r, line) ==
    /\ child[r] = "alive"
    /\ WorkerChange(r, "reading", "noting", [mem EXCEPT !.logs = Logged(@, line)])

NoteLine(r) ==
    /\ mem.logs # <<>>
    /\ WorkerChange(r, "noting", "reading",
                    [mem EXCEPT !.stage = StageAfter(mem.logs[Len(mem.logs)], @)])

\* The output ended and process.wait() returned.
NotAwaited(r) == TRUE
Awaited(r) == child[r] \in {"ok", "failed"}

Finish(r) ==
    /\ Awaited(r)
    /\ WorkerChange(r, "reading", "finished",
                    [mem EXCEPT !.status = TerminalStatus(child[r]),
                                !.stage = TerminalStage(child[r], mem.logs)])

LogCrash(r) ==
    WorkerChange(r, "raised", "crash logged",
                 [mem EXCEPT !.logs = Logged(@, "unexpected error")])

EndCrashed(r) == WorkerChange(r, "crash logged", "ended", Failed(mem))

\* finally
AtFinallyUnsaved(r) == wpc[r] \in {"finished", "ended", "closing"}
AtFinallyOfTry(r) == wpc[r] \in {"finished", "ended"} /\ io[r] = "none"
AtFinally(r) == wpc[r] \in {"finished", "ended", "closing"} /\ io[r] = "none"

Release(r) ==
    /\ AtFinally(r)
    /\ lock' = "free"
    /\ wpc' = [wpc EXCEPT ![r] = "off"]
    /\ UNCHANGED <<server, now, lastAt, mem, disk, hpc, io, snap, runs, child, launchedAt,
                   faults, crashes>>

\* CheckSpeed.py ends, with exit code 0 or not.
ChildExits(r) ==
    /\ child[r] = "alive"
    /\ \E exit \in {"ok", "failed"} : child' = [child EXCEPT ![r] = exit]
    /\ UNCHANGED <<server, now, lock, lastAt, mem, disk, hpc, wpc, io, snap, runs, launchedAt,
                   faults, crashes>>

-----------------------------------------------------------------------------
(* The process and its clock *)

\* lifespan: read the row, call an unfinished run interrupted, save, serve.
RecoveredAsSaved(state) == state
Recovered(state) ==
    IF state.status = "running"
    THEN [state EXCEPT !.status = "failed", !.stage = "Interrupted"] ELSE state

RecoveredLastAtLost == Never
RecoveredLastAt == disk.lastAt

Boot ==
    /\ server = "down"
    /\ server' = "serving"
    /\ mem' = Recovered(disk.state)
    /\ lastAt' = RecoveredLastAt
    /\ disk' = [state |-> Recovered(disk.state), lastAt |-> RecoveredLastAt]
    /\ UNCHANGED <<now, lock, hpc, wpc, io, snap, runs, child, launchedAt, faults, crashes>>

\* The container dies with every thread and process in it; the row stays.
Crash ==
    /\ server = "serving"
    /\ crashes < MaxCrashes
    /\ crashes' = crashes + 1
    /\ server' = "down"
    /\ lock' = "free"
    /\ hpc' = "idle"
    /\ wpc' = [r \in RunIds |-> "off"]
    /\ io' = [a \in Actors |-> "none"]
    /\ snap' = [a \in Actors |-> FirstRow]
    /\ child' = [r \in RunIds |-> IF child[r] = "alive" THEN "killed" ELSE child[r]]
    /\ UNCHANGED <<now, lastAt, mem, disk, runs, launchedAt, faults>>

Tick ==
    /\ now < MaxTime
    /\ now' = now + 1
    /\ UNCHANGED <<server, lock, lastAt, mem, disk, hpc, wpc, io, snap, runs, child, launchedAt,
                   faults, crashes>>

HandlerStep == BeginRun \/ StartThread \/ ThreadStartRaises \/ UndoRun \/ AnswerUndone
Persist(a)  == Snapshot(a) \/ Save(a)
WorkerStep(r) ==
    \/ Launch(r) \/ Spawn(r) \/ SpawnRaises(r) \/ (\E line \in ChildLines : ReadLine(r, line))
    \/ NoteLine(r) \/ Finish(r) \/ LogCrash(r) \/ EndCrashed(r) \/ Release(r)
    \/ WorkerSaveRaises(r) \/ ChildExits(r)

Next ==
    \/ AcceptRun \/ HandlerStep \/ HandlerSaveRaises
    \/ \E a \in Actors : Persist(a)
    \/ \E r \in RunIds : WorkerStep(r)
    \/ Boot \/ Crash \/ Tick

Spec == Init /\ [][Next]_vars

(* Fairness: threads and requests run on, a process that was started ends (each
   try of CheckSpeed.py has a timeout and the tries are counted), and the
   container is restarted (`restart: unless-stopped`). *)
FairSpec ==
    /\ Spec
    /\ WF_vars(HandlerStep)
    /\ WF_vars(Boot)
    /\ \A a \in Actors : WF_vars(Persist(a))
    /\ \A r \in RunIds : WF_vars(WorkerStep(r)) /\ WF_vars(ChildExits(r))

-----------------------------------------------------------------------------
(* Properties *)

Working     == {r \in RunIds : wpc[r] # "off"}
Unattended  == {r \in RunIds : child[r] = "alive" /\ wpc[r] \notin {"reading", "noting"}}
EndedStatus == {"completed", "failed"}

\* Types, and the bound on the log that the row and every status answer carry.
TypeOK ==
    /\ server \in {"down", "serving"} /\ lock \in {"free", "held"}
    /\ now \in 0 .. MaxTime
    /\ lastAt \in Int /\ launchedAt \in Int
    /\ mem \in RunState
    /\ disk \in Row
    /\ hpc \in HandlerPC
    /\ wpc \in [RunIds -> WorkerPC]
    /\ io \in [Actors -> {"none", "change", "snapshot"}]
    /\ snap \in [Actors -> Row]
    /\ runs \in 0 .. MaxRuns
    /\ child \in [RunIds -> ChildState]
    /\ faults \in 0 .. MaxFaults /\ crashes \in 0 .. MaxCrashes

\* The state is read, changed and saved in steps that do not exclude each other
\* (MANUAL_RUN_STATE_LOCK covers single steps): what keeps them apart is that at
\* most one of the handler's body and the workers is under way at any time, and
\* that a worker holds the lock until its last save is done.
OneWriter ==
    /\ \A r, s \in Working : r = s
    /\ Working # {} => lock = "held" /\ hpc = "idle"

\* The saved row never goes back to an earlier run, nor from an ended run to the
\* same run in progress: no save overtakes a later one, not even over a restart.
RowNeverGoesBack ==
    [][/\ disk'.state.run >= disk.state.run
       /\ disk'.state.run = disk.state.run /\ disk.state.status \in EndedStatus
            => disk'.state.status \in EndedStatus]_disk

\* "completed" is shown and saved only for a run whose CheckSpeed.py exited with 0,
\* whatever failed or restarted on the way.
SuccessIsReal ==
    \A state \in {mem, disk.state} :
        state.status = "completed" => state.run \in RunIds /\ child[state.run] = "ok"

\* The lock is left taken with nobody to release it in one way only: the save of
\* the new run's first state raised, outside the handler's try.  The row then
\* still shows an earlier run, and only a restart frees the lock.
LockLeaksOnlyAtStart ==
    lock = "held" /\ hpc = "idle" /\ Working = {}
        => /\ faults > 0
           /\ mem.run = runs /\ mem.stage = "Preparing test"
           /\ disk.state.run < runs

\* Two runs that reach the line (their child was launched) were accepted more
\* than CooldownSeconds - 1 apart (int() drops the last second), also when the
\* dashboard crashed and came back in between.
CooldownSurvivesRestart ==
    [][launchedAt' - launchedAt > (CooldownSeconds - 1) * TicksPerSecond]_launchedAt

\* A CheckSpeed.py that no worker reads any more, which the next run would then
\* measure against, exists only where a save failed: one for each failure.
UnattendedFollowFaults == Cardinality(Unattended) <= faults

\* While no write failed, a dashboard where nobody works on a run shows no run in
\* progress, has saved what it shows and has the lock free, also after a restart.
QuietMeansSaved ==
    server = "serving" /\ faults = 0 /\ hpc = "idle" /\ Working = {}
        => lock = "free" /\ mem.status # "running" /\ disk.state = mem

\* The lock is always released, except where it leaked (LockLeaksOnlyAtStart).
LockIsReleased ==
    lock = "held" ~> (lock = "free" \/ (hpc = "idle" /\ Working = {}))

SlotHolder == IF lock = "held" \/ hpc \in {"undo", "undone"} THEN runs ELSE 0

Slot == INSTANCE RunSlot WITH
    holder <- SlotHolder,
    begun  <- runs,
    shown  <- [run |-> mem.run, status |-> mem.status]

\* The manual run is the single slot of RunSlot: what is shown is written by the
\* run that holds the slot and is about that run.
SlotSpec == Slot!SlotSpec
==============================================================================
