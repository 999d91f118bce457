--------------------------- MODULE ManualRunProofs ---------------------------
(***************************************************************************)
(* Theorems about ManualRun, for every value of its constants.             *)
(***************************************************************************)
EXTENDS ManualRun, FiniteSetTheorems, SequenceTheorems, TLAPS

-----------------------------------------------------------------------------
(* Types *)

\* Cutting the log to its last LogLines lines keeps it a sequence of lines.
LEMMA LoggedType ==
    ASSUME NEW logs \in Logs, NEW line \in Line
    PROVE  Logged(logs, line) \in Logs
  <1> USE DEF Logs
  <1> DEFINE all == Append(logs, line)
  <1>1. all \in Seq(Line) /\ Len(all) = Len(logs) + 1
    BY AppendProperties
  <1>2. CASE Len(all) > LogLines
    <2>1. /\ Len(all) - LogLines + 1 \in 1 .. Len(all) + 1
          /\ Len(all) \in Len(all) - LogLines + 1 - 1 .. Len(all)
      BY <1>1, <1>2, ConstantsAssumption, LenProperties
    <2>2. SubSeq(all, Len(all) - LogLines + 1, Len(all)) \in Seq(Line)
      BY <1>1, <2>1, SubSeqProperties
    <2>3. Len(SubSeq(all, Len(all) - LogLines + 1, Len(all))) <= LogLines
      BY <1>1, <2>1, SubSeqProperties, ConstantsAssumption, LenProperties
    <2>4. QED
      BY <1>2, <2>2, <2>3 DEF Logged
  <1>3. CASE ~(Len(all) > LogLines)
    BY <1>1, <1>3, ConstantsAssumption, LenProperties DEF Logged
  <1>4. QED
    BY <1>2, <1>3

LEMMA StageAfterType ==
    ASSUME NEW line \in Line, NEW stage \in Stage
    PROVE  StageAfter(line, stage) \in Stage
  BY DEF StageAfter, Stage, Line
LEMMA PCs ==
    /\ {"idle", "begin", "begun", "undo", "undone"} \subseteq HandlerPC
    /\ {"off", "launch", "spawn", "reading", "noting", "finished", "raised",
        "crash logged", "ended", "closing"} \subseteq WorkerPC
    /\ \A pc : AfterRaise(pc) \in WorkerPC
    /\ {"none", "alive", "ok", "failed", "killed"} \subseteq ChildState
    /\ Handler \in Actors /\ RunIds \subseteq Actors /\ Handler \notin RunIds
  BY DEF HandlerPC, WorkerPC, ChildState, AfterRaise, Handler, Actors, RunIds

LEMMA StateTypes ==
    ASSUME NEW state \in RunState
    PROVE  /\ Failed(state) \in RunState
           /\ Failed(state).run = state.run
           /\ Failed(state).status = "failed"
           /\ Recovered(state) \in RunState
           /\ Recovered(state).run = state.run
           /\ Recovered(state).status = IF state.status = "running" THEN "failed"
                                        ELSE state.status
  BY DEF RunState, Stage, Status, Failed, Recovered

\* The type invariant holds at the start and every step keeps it.
LEMMA NoLogs == <<>> \in Logs
  <1>1. <<>> \in Seq(Line) /\ Len(<<>>) = 0
    BY EmptySeq
  <1>2. QED
    BY <1>1, ConstantsAssumption DEF Logs

LEMMA FirstRowType == FirstRow \in Row
  <1>1. Never \in Int
    BY ConstantsAssumption DEF Never
  <1>2. DEFAULT_MANUAL_RUN_STATE \in RunState
    BY ConstantsAssumption, NoLogs DEF DEFAULT_MANUAL_RUN_STATE, RunState, Stage, Status
  <1>3. QED
    BY <1>1, <1>2 DEF FirstRow, Row

LEMMA TypeInit == Init => TypeOK
  <1> SUFFICES ASSUME Init PROVE TypeOK
    OBVIOUS
  <1>1. Never \in Int
    BY ConstantsAssumption DEF Never
  <1>2. DEFAULT_MANUAL_RUN_STATE \in RunState
    BY ConstantsAssumption, NoLogs DEF DEFAULT_MANUAL_RUN_STATE, RunState, Stage, Status
  <1>3. QED
    <2>1. wpc \in [RunIds -> WorkerPC] /\ child \in [RunIds -> ChildState]
      BY PCs DEF Init
    <2>2. io \in [Actors -> {"none", "change", "snapshot"}] /\ snap \in [Actors -> Row]
      BY FirstRowType DEF Init
    <2>3. /\ now \in 0 .. MaxTime /\ runs \in 0 .. MaxRuns
          /\ faults \in 0 .. MaxFaults /\ crashes \in 0 .. MaxCrashes
      BY ConstantsAssumption DEF Init
    <2>4. QED
      BY <1>1, <1>2, <2>1, <2>2, <2>3, FirstRowType, PCs DEF Init, TypeOK

LEMMA FaultType == TypeOK /\ Fault => faults' \in 0 .. MaxFaults
  BY ConstantsAssumption DEF TypeOK, Fault

LEMMA TypeStep == TypeOK /\ [Next]_vars => TypeOK'
  <1> SUFFICES ASSUME TypeOK, [Next]_vars PROVE TypeOK'
    OBVIOUS
  <1> USE DEF TypeOK
  <1>0. "idle" \in HandlerPC /\ "begin" \in HandlerPC /\ "begun" \in HandlerPC
        /\ "undo" \in HandlerPC /\ "undone" \in HandlerPC
    BY PCs
  <1>1. CASE AcceptRun
    BY <1>0, <1>1, ConstantsAssumption DEF AcceptRun, Acquire
  <1>2. CASE BeginRun
    <2>1. [run |-> runs, status |-> "running", stage |-> "Preparing test", logs |-> <<>>]
            \in RunState
      BY NoLogs DEF RunState, Stage, Status
    <2>2. QED
      BY <1>0, <1>2, <2>1, PCs DEF BeginRun, Change
  <1>3. CASE StartThread
    BY <1>0, <1>3, PCs DEF StartThread
  <1>4. CASE ThreadStartRaises
    BY <1>0, <1>4, FaultType DEF ThreadStartRaises
  <1>5. CASE UndoRun
    BY <1>0, <1>5, StateTypes, PCs DEF UndoRun, Change
  <1>6. CASE AnswerUndone
    BY <1>0, <1>6 DEF AnswerUndone
  <1>7. CASE HandlerSaveRaises
    BY <1>0, <1>7, FaultType, FirstRowType DEF HandlerSaveRaises, DropSnapshot
  <1>8. ASSUME NEW a \in Actors, Snapshot(a) PROVE TypeOK'
    <2>1. [state |-> mem, lastAt |-> lastAt] \in Row
      BY DEF Row
    <2>2. QED
      BY <1>8, <2>1 DEF Snapshot
  <1>9. ASSUME NEW a \in Actors, Save(a) PROVE TypeOK'
    BY <1>9, FirstRowType DEF Save, DropSnapshot
  <1>10. ASSUME NEW r \in RunIds, WorkerStep(r) PROVE TypeOK'
    <2> DEFINE Changed(from, to, state) ==
                 /\ WorkerChange(r, from, to, state)
                 /\ to \in WorkerPC
                 /\ state \in RunState
    <2>0. ASSUME NEW from, NEW to, NEW state, Changed(from, to, state) PROVE TypeOK'
      BY <2>0, PCs DEF WorkerChange, Change
    <2>1. CASE Launch(r)
      <3>1. [mem EXCEPT !.stage = "Launching speed test"] \in RunState
        BY DEF RunState, Stage
      <3>2. QED
        BY <2>0, <2>1, <3>1, PCs DEF Launch
    <2>2. CASE Spawn(r)
      BY <2>2, PCs DEF Spawn
    <2>3. CASE SpawnRaises(r)
      BY <2>3, PCs, FaultType DEF SpawnRaises
    <2>4. ASSUME NEW line \in ChildLines, ReadLine(r, line) PROVE TypeOK'
      <3>1. [mem EXCEPT !.logs = Logged(@, line)] \in RunState
        BY LoggedType, ChildLinesAssumption DEF RunState
      <3>2. QED
        BY <2>0, <2>4, <3>1, PCs DEF ReadLine
    <2>5. CASE NoteLine(r)
      <3>1. mem.logs[Len(mem.logs)] \in Line
        BY <2>5, LenProperties, ElementOfSeq DEF NoteLine, RunState, Logs
      <3>2. [mem EXCEPT !.stage = StageAfter(mem.logs[Len(mem.logs)], @)] \in RunState
        BY <3>1, StageAfterType DEF RunState
      <3>3. QED
        BY <2>0, <2>5, <3>2, PCs DEF NoteLine
    <2>6. CASE Finish(r)
      <3> DEFINE state == [mem EXCEPT !.status = TerminalStatus(child[r]),
                                      !.stage = TerminalStage(child[r], mem.logs)]
      <3>1. TerminalStatus(child[r]) \in Status /\ TerminalStage(child[r], mem.logs) \in Stage
        BY DEF TerminalStatus, TerminalStage, Status, Stage
      <3>2. state \in RunState
        BY <3>1 DEF RunState
      <3>3. QED
        BY <2>0, <2>6, <3>2, PCs DEF Finish
    <2>7. CASE LogCrash(r)
      <3>1. [mem EXCEPT !.logs = Logged(@, "unexpected error")] \in RunState
        BY LoggedType DEF RunState, Line
      <3>2. QED
        BY <2>0, <2>7, <3>1, PCs DEF LogCrash
    <2>8. CASE EndCrashed(r)
      BY <2>0, <2>8, StateTypes, PCs DEF EndCrashed
    <2>9. CASE Release(r)
      BY <2>9, PCs DEF Release
    <2>10. CASE WorkerSaveRaises(r)
      BY <2>10, PCs, FirstRowType, FaultType DEF WorkerSaveRaises, DropSnapshot
    <2>11. CASE ChildExits(r)
      BY <2>11, PCs DEF ChildExits
    <2>12. QED
      BY <1>10, <2>1, <2>2, <2>3, <2>4, <2>5, <2>6, <2>7, <2>8, <2>9, <2>10, <2>11
         DEF WorkerStep
  <1>11. CASE Boot
    <2>1. disk.state \in RunState /\ disk.lastAt \in Int
      BY DEF Row
    <2>2. [state |-> Recovered(disk.state), lastAt |-> RecoveredLastAt] \in Row
      BY <2>1, StateTypes DEF Row, RecoveredLastAt
    <2>3. QED
      BY <1>11, <2>1, <2>2, StateTypes DEF Boot, RecoveredLastAt
  <1>12. CASE Crash
    <2>1. crashes' \in 0 .. MaxCrashes
      BY <1>12, ConstantsAssumption DEF Crash
    <2>2. /\ wpc' \in [RunIds -> WorkerPC]
          /\ child' \in [RunIds -> ChildState]
      BY <1>12, PCs DEF Crash
    <2>3. /\ io' \in [Actors -> {"none", "change", "snapshot"}]
          /\ snap' \in [Actors -> Row]
      BY <1>12, FirstRowType DEF Crash
    <2>4. QED
      BY <1>0, <1>12, <2>1, <2>2, <2>3 DEF Crash
  <1>13. CASE Tick
    BY <1>13, ConstantsAssumption DEF Tick
  <1>14. CASE UNCHANGED vars
    BY <1>14 DEF vars
  <1>15. QED
    BY <1>1, <1>2, <1>3, <1>4, <1>5, <1>6, <1>7, <1>8, <1>9, <1>10, <1>11, <1>12, <1>13,
       <1>14 DEF Next, HandlerStep, Persist

-----------------------------------------------------------------------------
(***************************************************************************)
(* The inductive invariant.  OneWriter, RowNeverGoesBack and the others    *)
(* are not inductive: that a worker's save cannot overtake a later one     *)
(* rests on who may have a change or a snapshot pending at all, and on     *)
(* whose run the state in memory is about at each point of the handler and *)
(* of the worker.                                                          *)
(***************************************************************************)

\* Who is under way, whose run the state is about, and who has something to save.
Ownership ==
    /\ mem.run <= runs
    /\ server = "down" => lock = "free" /\ hpc = "idle"
    /\ hpc \in {"begin", "begun"} => lock = "held"
    /\ hpc \in {"undo", "undone"} => lock = "free"
    /\ hpc # "idle" => runs \in RunIds /\ server = "serving"
                       /\ \A r \in RunIds : wpc[r] = "off"
    /\ hpc = "begin" => mem.run < runs
    /\ hpc \in {"begun", "undo", "undone"} => mem.run = runs
    /\ hpc = "begun" => mem.status = "running"
    /\ io[Handler] # "none" => hpc \in {"begun", "undone"}
    /\ \A r \in RunIds :
        /\ wpc[r] # "off" => /\ r = runs /\ mem.run = runs
                             /\ lock = "held" /\ hpc = "idle" /\ server = "serving"
        /\ wpc[r] \in {"launch", "spawn", "reading", "noting"} => mem.status = "running"
        /\ wpc[r] # "off" => mem.status # "idle"
        /\ io[r] # "none" => wpc[r] # "off"

\* `old` was the state before `new`: an earlier run, or the same run with no more done.
NotAfter(old, new) ==
    \/ old.run < new.run
    \/ old.run = new.run /\ (old.status \in EndedStatus => new.status \in EndedStatus)

\* The row is never ahead of a snapshot about to be written, nor that of the memory.
SaveOrder ==
    /\ NotAfter(disk.state, mem)
    /\ \A a \in Actors : io[a] = "snapshot" =>
           NotAfter(disk.state, snap[a].state) /\ NotAfter(snap[a].state, mem)

Real(state) == state.status = "completed" => state.run \in RunIds /\ child[state.run] = "ok"

\* A run that is shown, saved or about to be saved as completed was; no later run
\* has a child yet.
Success ==
    /\ Real(mem) /\ Real(disk.state)
    /\ \A a \in Actors : io[a] = "snapshot" => Real(snap[a].state)
    /\ \A r \in RunIds : r > runs => child[r] = "none"
    /\ hpc # "idle" => child[runs] = "none"
    /\ \A r \in RunIds : wpc[r] \in {"launch", "spawn"} => child[r] = "none"

\* Until the first state of a run is saved, the row is about an earlier run.
Leak ==
    /\ hpc = "begin" => disk.state.run < runs
    /\ hpc = "begun" /\ io[Handler] # "none"
         => disk.state.run < runs /\ mem.stage = "Preparing test"
    /\ LockLeaksOnlyAtStart

IInv == TypeOK /\ Ownership /\ SaveOrder /\ Success /\ Leak

\* How each change a worker makes moves it on, and what it does to the run and
\* the status that are shown.
Move(r, from, to, state) ==
    /\ WorkerChange(r, from, to, state)
    /\ from # "off" /\ to \notin {"off", "launch"}
    /\ to = "spawn" => from = "launch"
    /\ to \in {"spawn", "reading", "noting"} =>
           from \in {"launch", "spawn", "reading", "noting"} /\ state.status = mem.status
    /\ to = "finished" => state.status \in EndedStatus
    /\ to \in {"raised", "crash logged", "ended"} => from \in {"raised", "crash logged"}
    /\ to # "closing" /\ to \in WorkerPC /\ state \in RunState
    /\ state.run = mem.run
    /\ mem.status \in EndedStatus => state.status \in EndedStatus
    /\ mem.status # "idle" => state.status # "idle"
    /\ state.status = "completed" => mem.status = "completed" \/ child[r] = "ok"

WorkerMoves(r) == \E from, to, state : Move(r, from, to, state)

LEMMA WorkerStepKinds ==
    ASSUME TypeOK, Ownership, NEW r \in RunIds, WorkerStep(r)
    PROVE  WorkerMoves(r) \/ Spawn(r) \/ SpawnRaises(r) \/ Release(r)
             \/ WorkerSaveRaises(r) \/ ChildExits(r)
  <1> USE DEF TypeOK
  <1>1. CASE Launch(r)
    <2> DEFINE state == [mem EXCEPT !.stage = "Launching speed test"]
    <2>1. state \in RunState /\ state.run = mem.run /\ state.status = mem.status
      BY DEF RunState, Stage
    <2>2. Move(r, "launch", "spawn", state)
      BY <1>1, <2>1, PCs DEF Launch, Move
    <2>3. QED
      BY <2>2 DEF WorkerMoves
  <1>2. ASSUME NEW line \in ChildLines, ReadLine(r, line) PROVE WorkerMoves(r)
    <2> DEFINE state == [mem EXCEPT !.logs = Logged(@, line)]
    <2>1. state \in RunState /\ state.run = mem.run /\ state.status = mem.status
      BY LoggedType, ChildLinesAssumption DEF RunState
    <2>2. Move(r, "reading", "noting", state)
      BY <1>2, <2>1, PCs DEF ReadLine, Move
    <2>3. QED
      BY <2>2 DEF WorkerMoves
  <1>3. CASE NoteLine(r)
    <2> DEFINE line == mem.logs[Len(mem.logs)]
               state == [mem EXCEPT !.stage = StageAfter(line, @)]
    <2>1. line \in Line
      BY <1>3, LenProperties, ElementOfSeq DEF NoteLine, RunState, Logs
    <2>2. state \in RunState /\ state.run = mem.run /\ state.status = mem.status
      BY <2>1, StageAfterType DEF RunState
    <2>3. Move(r, "noting", "reading", state)
      BY <1>3, <2>2, PCs DEF NoteLine, Move
    <2>4. QED
      BY <2>3 DEF WorkerMoves
  <1>4. CASE Finish(r)
    <2> DEFINE state == [mem EXCEPT !.status = TerminalStatus(child[r]),
                                    !.stage = TerminalStage(child[r], mem.logs)]
    <2>1. /\ TerminalStatus(child[r]) \in EndedStatus /\ TerminalStatus(child[r]) \in Status
          /\ TerminalStatus(child[r]) = "completed" => child[r] = "ok"
          /\ TerminalStatus(child[r]) # "idle"
          /\ TerminalStage(child[r], mem.logs) \in Stage
      BY DEF TerminalStatus, TerminalStage, Status, Stage, EndedStatus
    <2>2. state \in RunState /\ state.run = mem.run /\ state.status = TerminalStatus(child[r])
      BY <2>1 DEF RunState
    <2>3. WorkerChange(r, "reading", "finished", state)
      BY <1>4 DEF Finish
    <2>4. "finished" \in WorkerPC
      BY PCs
    <2>5. Move(r, "reading", "finished", state)
      BY <2>1, <2>2, <2>3, <2>4 DEF Move
    <2>6. QED
      BY <2>5 DEF WorkerMoves
  <1>5. CASE LogCrash(r)
    <2> DEFINE state == [mem EXCEPT !.logs = Logged(@, "unexpected error")]
    <2>1. state \in RunState /\ state.run = mem.run /\ state.status = mem.status
      BY LoggedType DEF RunState, Line
    <2>2. Move(r, "raised", "crash logged", state)
      BY <1>5, <2>1, PCs DEF LogCrash, Move
    <2>3. QED
      BY <2>2 DEF WorkerMoves
  <1>6. CASE EndCrashed(r)
    <2>1. Move(r, "crash logged", "ended", Failed(mem))
      BY <1>6, StateTypes, PCs DEF EndCrashed, Move, EndedStatus
    <2>2. QED
      BY <2>1 DEF WorkerMoves
  <1>7. QED
    BY <1>1, <1>2, <1>3, <1>4, <1>5, <1>6 DEF WorkerStep

-----------------------------------------------------------------------------
(* Ownership *)

LEMMA OwnershipInit == Init => Ownership
  <1> SUFFICES ASSUME Init PROVE Ownership
    OBVIOUS
  <1>1. mem.run = 0 /\ mem.run <= runs
    BY DEF Init, DEFAULT_MANUAL_RUN_STATE
  <1>2. QED
    BY <1>1, PCs DEF Init, Ownership

LEMMA OwnershipStep == TypeOK /\ Ownership /\ SaveOrder /\ [Next]_vars => Ownership'
  <1> SUFFICES ASSUME TypeOK, Ownership, SaveOrder, [Next]_vars PROVE Ownership'
    OBVIOUS
  <1>0. /\ runs \in Int /\ mem.run \in Int /\ disk.state.run \in Int
        /\ wpc \in [RunIds -> WorkerPC]
        /\ io \in [Actors -> {"none", "change", "snapshot"}]
    BY ConstantsAssumption DEF TypeOK, RunState, Row
  <1> USE DEF Ownership
  <1>1. CASE AcceptRun
    <2>1. \A r \in RunIds : wpc[r] = "off"
      BY <1>1 DEF AcceptRun, Acquire
    <2>2. runs + 1 \in RunIds
      BY <1>1, ConstantsAssumption DEF AcceptRun, RunIds, TypeOK
    <2>3. QED
      <3>1. /\ lock' = "held" /\ hpc' = "begin" /\ runs' = runs + 1
            /\ server = "serving" /\ UNCHANGED <<server, mem, wpc, io>>
            /\ hpc = "idle"
        BY <1>1 DEF AcceptRun, Acquire
      <3>2. mem.run < runs + 1
        BY <1>0
      <3>3. io[Handler] = "none" /\ \A r \in RunIds : io[r] = "none"
        BY <1>0, <2>1, <3>1, PCs
      <3>4. QED
        BY <1>0, <2>1, <2>2, <3>1, <3>2, <3>3
  <1>2. CASE BeginRun
    <2>1. mem'.run = runs /\ mem'.status = "running"
      BY <1>2 DEF BeginRun, Change
    <2>2. /\ hpc = "begin" /\ hpc' = "begun" /\ io' = [io EXCEPT ![Handler] = "change"]
          /\ UNCHANGED <<server, lock, wpc, runs>>
      BY <1>2 DEF BeginRun, Change
    <2>3. /\ runs \in RunIds /\ lock = "held" /\ server = "serving"
          /\ \A r \in RunIds : wpc[r] = "off" /\ io[r] = "none"
      BY <1>0, <2>2, PCs
    <2>4. io'[Handler] = "change" /\ \A r \in RunIds : io'[r] = "none"
      BY <1>0, <2>2, <2>3, PCs
    <2>5. QED
      BY <1>0, <2>1, <2>2, <2>3, <2>4
  <1>3. CASE StartThread
    BY <1>0, <1>3, PCs DEF StartThread
  <1>4. CASE ThreadStartRaises
    BY <1>0, <1>4, PCs DEF ThreadStartRaises, Fault
  <1>5. CASE UndoRun
    <2>1. Failed(mem).run = mem.run
      BY StateTypes DEF TypeOK
    <2>2. QED
      BY <1>0, <1>5, <2>1, PCs DEF UndoRun, Change
  <1>6. CASE AnswerUndone
    BY <1>0, <1>6, PCs DEF AnswerUndone
  <1>7. CASE HandlerSaveRaises
    BY <1>0, <1>7, PCs DEF HandlerSaveRaises, Fault, DropSnapshot
  <1>8. ASSUME NEW a \in Actors, Snapshot(a) PROVE Ownership'
    BY <1>0, <1>8, PCs DEF Snapshot
  <1>9. ASSUME NEW a \in Actors, Save(a) PROVE Ownership'
    BY <1>0, <1>9, PCs DEF Save, DropSnapshot
  <1>10. ASSUME NEW r \in RunIds, WorkerStep(r) PROVE Ownership'
    <2>1. CASE WorkerMoves(r)
      <3>1. PICK from, to, state : Move(r, from, to, state)
        BY <2>1 DEF WorkerMoves
      <3>2. QED
        BY <1>0, <3>1, PCs DEF Move, WorkerChange, Change
    <2>2. CASE Spawn(r)
      BY <1>0, <2>2, PCs DEF Spawn
    <2>3. CASE SpawnRaises(r)
      BY <1>0, <2>3, PCs DEF SpawnRaises, Fault
    <2>4. CASE Release(r)
      BY <1>0, <2>4, PCs DEF Release, AtFinally
    <2>5. CASE WorkerSaveRaises(r)
      BY <1>0, <2>5, PCs DEF WorkerSaveRaises, Fault, DropSnapshot, AfterRaise
    <2>6. CASE ChildExits(r)
      BY <1>0, <2>6, PCs DEF ChildExits
    <2>7. QED
      BY <1>10, <2>1, <2>2, <2>3, <2>4, <2>5, <2>6, WorkerStepKinds
  <1>11. CASE Boot
    <2>1. Recovered(disk.state).run = disk.state.run
      BY StateTypes DEF TypeOK, Row
    <2>2. disk.state.run <= runs
      BY <1>0 DEF SaveOrder, NotAfter
    <2>3. QED
      BY <1>0, <1>11, <2>1, <2>2, PCs DEF Boot
  <1>12. CASE Crash
    BY <1>0, <1>12, PCs DEF Crash
  <1>13. CASE Tick
    BY <1>0, <1>13 DEF Tick
  <1>14. CASE UNCHANGED vars
    BY <1>0, <1>14 DEF vars
  <1>15. QED
    BY <1>1, <1>2, <1>3, <1>4, <1>5, <1>6, <1>7, <1>8, <1>9, <1>10, <1>11, <1>12, <1>13,
       <1>14 DEF Next, HandlerStep, Persist

-----------------------------------------------------------------------------
(* The order of the saves *)

LEMMA NotAfterSelf ==
    ASSUME NEW state PROVE NotAfter(state, state)
  BY DEF NotAfter

LEMMA NotAfterTrans ==
    ASSUME NEW s \in RunState, NEW t \in RunState, NEW u \in RunState,
           NotAfter(s, t), NotAfter(t, u)
    PROVE  NotAfter(s, u)
  BY DEF NotAfter, RunState

LEMMA SaveOrderInit == Init => SaveOrder
  BY NotAfterSelf DEF Init, SaveOrder, FirstRow

\* Memory moves forward and nothing is saved or about to be: the order is kept.
LEMMA MemoryForward ==
    ASSUME TypeOK, SaveOrder, mem' \in RunState, NotAfter(mem, mem'),
           disk' = disk, snap' = snap,
           \A a \in Actors : io'[a] = "snapshot" => io[a] = "snapshot"
    PROVE  SaveOrder'
  <1>1. disk.state \in RunState /\ mem \in RunState /\ \A a \in Actors : snap[a].state \in RunState
    BY DEF TypeOK, Row
  <1>2. NotAfter(disk.state, mem')
    BY <1>1, NotAfterTrans DEF SaveOrder
  <1>3. ASSUME NEW a \in Actors, io'[a] = "snapshot"
        PROVE  NotAfter(disk.state, snap[a].state) /\ NotAfter(snap[a].state, mem')
    BY <1>1, <1>3, NotAfterTrans DEF SaveOrder
  <1>4. (NotAfter(disk.state, mem))'
    BY <1>2 DEF NotAfter
  <1>5. ASSUME NEW a \in Actors, io'[a] = "snapshot"
        PROVE  (NotAfter(disk.state, snap[a].state) /\ NotAfter(snap[a].state, mem))'
    BY <1>3, <1>5 DEF NotAfter
  <1>6. QED
    BY <1>4, <1>5 DEF SaveOrder

LEMMA SaveOrderStep == TypeOK /\ Ownership /\ SaveOrder /\ [Next]_vars => SaveOrder'
  <1> SUFFICES ASSUME TypeOK, Ownership, SaveOrder, [Next]_vars PROVE SaveOrder'
    OBVIOUS
  <1>0. /\ runs \in Int /\ mem \in RunState /\ disk \in Row /\ disk.state \in RunState
        /\ mem' \in RunState
        /\ io \in [Actors -> {"none", "change", "snapshot"}]
        /\ snap \in [Actors -> Row] /\ snap' \in [Actors -> Row]
    BY TypeStep, ConstantsAssumption DEF TypeOK, Row
  <1>1. ASSUME UNCHANGED <<mem, disk, io, snap>> PROVE SaveOrder'
    BY <1>1 DEF SaveOrder, NotAfter
  <1>2. CASE BeginRun
    <2>1. mem'.run = runs /\ mem.run < runs
      BY <1>2 DEF BeginRun, Change, Ownership
    <2>2. NotAfter(mem, mem')
      BY <2>1 DEF NotAfter
    <2>3. QED
      BY <1>0, <1>2, <2>2, MemoryForward, PCs DEF BeginRun, Change
  <1>3. CASE UndoRun
    <2>1. NotAfter(mem, mem')
      BY <1>0, <1>3, StateTypes DEF UndoRun, Change, NotAfter, EndedStatus
    <2>2. QED
      BY <1>0, <1>3, <2>1, MemoryForward, PCs DEF UndoRun, Change
  <1>4. ASSUME NEW r \in RunIds, WorkerMoves(r) PROVE SaveOrder'
    <2>1. PICK from, to, state : Move(r, from, to, state)
      BY <1>4 DEF WorkerMoves
    <2>2. NotAfter(mem, mem')
      BY <2>1 DEF Move, WorkerChange, Change, NotAfter
    <2>3. QED
      BY <1>0, <2>1, <2>2, MemoryForward, PCs DEF Move, WorkerChange, Change
  <1>5. ASSUME NEW a \in Actors, DropSnapshot(a), UNCHANGED <<mem, disk>> PROVE SaveOrder'
    BY <1>0, <1>5 DEF DropSnapshot, SaveOrder, NotAfter
  <1>6. ASSUME NEW a \in Actors, Snapshot(a) PROVE SaveOrder'
    <2>1. /\ snap'[a].state = mem
          /\ \A b \in Actors \ {a} : snap'[b] = snap[b] /\ io'[b] = io[b]
          /\ UNCHANGED <<mem, disk>>
      BY <1>0, <1>6 DEF Snapshot
    <2>2. QED
      BY <2>1 DEF SaveOrder, NotAfter
  <1>7. ASSUME NEW a \in Actors, Save(a) PROVE SaveOrder'
    <2>1. \A b \in Actors : io[b] # "none" => b = a
      BY <1>0, <1>7, PCs DEF Save, Ownership, Actors, Handler
    <2>2. /\ disk'.state = snap[a].state /\ mem' = mem
          /\ \A b \in Actors : io'[b] # "snapshot"
      BY <1>0, <1>7, <2>1 DEF Save, DropSnapshot
    <2>3. NotAfter(snap[a].state, mem)
      BY <1>7 DEF Save, SaveOrder
    <2>4. QED
      BY <2>2, <2>3 DEF SaveOrder, NotAfter
  <1>8. CASE Boot
    <2>1. disk'.state = mem'
      BY <1>8 DEF Boot
    <2>2. \A a \in Actors : io'[a] = "none"
      BY <1>0, <1>8, PCs DEF Boot, Ownership, Actors
    <2>3. QED
      BY <2>1, <2>2 DEF SaveOrder, NotAfter
  <1>9. CASE Crash
    <2>1. \A a \in Actors : io'[a] = "none"
      BY <1>9 DEF Crash
    <2>2. UNCHANGED <<mem, disk>>
      BY <1>9 DEF Crash
    <2>3. QED
      BY <2>1, <2>2 DEF SaveOrder, NotAfter
  <1>10. ASSUME NEW r \in RunIds, WorkerStep(r) PROVE SaveOrder'
    <2>1. CASE WorkerSaveRaises(r)
      BY <1>5, <2>1, PCs DEF WorkerSaveRaises
    <2>2. CASE Spawn(r) \/ SpawnRaises(r) \/ Release(r) \/ ChildExits(r)
      BY <1>1, <2>2 DEF Spawn, SpawnRaises, Release, ChildExits
    <2>3. QED
      BY <1>4, <1>10, <2>1, <2>2, WorkerStepKinds
  <1>11. CASE AcceptRun \/ StartThread \/ ThreadStartRaises \/ AnswerUndone \/ Tick
            \/ UNCHANGED vars
    BY <1>1, <1>11 DEF AcceptRun, StartThread, ThreadStartRaises, AnswerUndone, Tick, vars
  <1>12. CASE HandlerSaveRaises
    BY <1>5, <1>12, PCs DEF HandlerSaveRaises
  <1>13. QED
    BY <1>2, <1>3, <1>6, <1>7, <1>8, <1>9, <1>10, <1>11, <1>12
       DEF Next, HandlerStep, Persist

-----------------------------------------------------------------------------
(* What is called completed was *)

LEMMA SuccessInit == Init => Success
  <1> SUFFICES ASSUME Init PROVE Success
    OBVIOUS
  <1>1. mem.status = "idle" /\ disk.state.status = "idle"
    BY DEF Init, FirstRow, DEFAULT_MANUAL_RUN_STATE
  <1>2. \A a \in Actors : io[a] = "none"
    BY DEF Init
  <1>3. \A r \in RunIds : child[r] = "none" /\ wpc[r] = "off"
    BY DEF Init
  <1>4. hpc = "idle"
    BY DEF Init
  <1>5. QED
    BY <1>1, <1>2, <1>3, <1>4 DEF Success, Real

LEMMA SuccessStep == TypeOK /\ Ownership /\ Success /\ [Next]_vars => Success'
  <1> SUFFICES ASSUME TypeOK, Ownership, Success, [Next]_vars PROVE Success'
    OBVIOUS
  <1>0. /\ runs \in Int /\ mem \in RunState /\ disk.state \in RunState
        /\ wpc \in [RunIds -> WorkerPC]
        /\ child \in [RunIds -> ChildState]
        /\ io \in [Actors -> {"none", "change", "snapshot"}]
        /\ snap \in [Actors -> Row]
        /\ RunIds \subseteq Int
    BY ConstantsAssumption DEF TypeOK, Row, RunIds
  <1>1. CASE AcceptRun
    <2>1. \A r \in RunIds : wpc[r] = "off"
      BY <1>1 DEF AcceptRun, Acquire, Ownership
    <2>2. runs + 1 \in RunIds /\ runs + 1 > runs
      BY <1>1, ConstantsAssumption DEF AcceptRun, RunIds, TypeOK
    <2>3. UNCHANGED <<mem, disk, io, snap, wpc, child>> /\ runs' = runs + 1
      BY <1>1 DEF AcceptRun
    <2>4. \A r \in RunIds : r > runs + 1 => r > runs
      BY <1>0
    <2>5. child[runs + 1] = "none"
      BY <2>2 DEF Success
    <2>6. QED
      BY <2>1, <2>3, <2>4, <2>5 DEF Success, Real
  <1>2. CASE BeginRun
    <2>1. ~(mem'.status = "completed")
      BY <1>2 DEF BeginRun, Change
    <2>2. /\ UNCHANGED <<disk, snap, wpc, child, runs>> /\ hpc = "begin"
          /\ \A a \in Actors : io'[a] = "snapshot" => io[a] = "snapshot"
      BY <1>0, <1>2 DEF BeginRun, Change
    <2>3. QED
      BY <2>1, <2>2 DEF Success, Real
  <1>3. CASE StartThread
    <2>1. /\ wpc' = [wpc EXCEPT ![runs] = "launch"] /\ child[runs] = "none" /\ hpc' = "idle"
          /\ UNCHANGED <<mem, disk, io, snap, child, runs>>
      BY <1>3 DEF StartThread, Success
    <2>2. \A r \in RunIds : wpc'[r] \in {"launch", "spawn"} => child[r] = "none"
      BY <1>0, <2>1 DEF Success
    <2>3. QED
      BY <2>1, <2>2 DEF Success, Real
  <1>4. CASE ThreadStartRaises \/ AnswerUndone
    BY <1>4 DEF ThreadStartRaises, AnswerUndone, Success, Real
  <1>5. CASE UndoRun
    <2>1. ~(mem'.status = "completed")
      BY <1>0, <1>5, StateTypes DEF UndoRun, Change
    <2>2. /\ UNCHANGED <<disk, snap, wpc, child, runs>> /\ hpc = "undo"
          /\ \A a \in Actors : io'[a] = "snapshot" => io[a] = "snapshot"
      BY <1>0, <1>5 DEF UndoRun, Change
    <2>3. QED
      BY <2>1, <2>2 DEF Success, Real
  <1>6. CASE HandlerSaveRaises
    <2>1. /\ hpc' = "idle" /\ UNCHANGED <<mem, disk, wpc, child, runs>>
          /\ io' = [io EXCEPT ![Handler] = "none"]
          /\ snap' = [snap EXCEPT ![Handler] = FirstRow]
      BY <1>6 DEF HandlerSaveRaises, DropSnapshot
    <2>2. \A a \in Actors : io'[a] = "snapshot" => io[a] = "snapshot" /\ snap'[a] = snap[a]
      BY <1>0, <2>1
    <2>3. QED
      BY <2>1, <2>2 DEF Success, Real
  <1>7. ASSUME NEW a \in Actors, Snapshot(a) PROVE Success'
    <2>1. /\ snap'[a].state = mem
          /\ \A b \in Actors \ {a} : snap'[b] = snap[b] /\ io'[b] = io[b]
          /\ UNCHANGED <<mem, disk, hpc, wpc, child, runs>>
      BY <1>0, <1>7 DEF Snapshot
    <2>2. QED
      BY <2>1 DEF Success, Real
  <1>8. ASSUME NEW a \in Actors, Save(a) PROVE Success'
    <2>1. /\ disk'.state = snap[a].state /\ io[a] = "snapshot"
          /\ UNCHANGED <<mem, hpc, wpc, child, runs>>
      BY <1>8 DEF Save
    <2>2. \A b \in Actors : io'[b] = "snapshot" => io[b] = "snapshot" /\ snap'[b] = snap[b]
      BY <1>0, <1>8 DEF Save, DropSnapshot
    <2>3. QED
      BY <2>1, <2>2 DEF Success, Real
  <1>9. ASSUME NEW r \in RunIds, WorkerStep(r) PROVE Success'
    <2>1. CASE WorkerMoves(r)
      <3>1. PICK from, to, state : Move(r, from, to, state)
        BY <2>1 DEF WorkerMoves
      <3>2. /\ mem' = state /\ state.run = mem.run
            /\ state.status = "completed" => mem.status = "completed" \/ child[r] = "ok"
            /\ r = runs /\ mem.run = runs
        BY <3>1 DEF Move, WorkerChange, Change, Ownership
      <3>3. /\ UNCHANGED <<disk, snap, hpc, child, runs>>
            /\ \A a \in Actors : io'[a] = "snapshot" => io[a] = "snapshot"
        BY <1>0, <3>1 DEF Move, WorkerChange, Change
      <3>4. \A s \in RunIds : wpc'[s] \in {"launch", "spawn"} => wpc[s] \in {"launch", "spawn"}
        BY <1>0, <3>1 DEF Move, WorkerChange
      <3>5. Real(mem)'
        BY <3>2, <3>3 DEF Success, Real
      <3>6. QED
        BY <3>3, <3>4, <3>5 DEF Success, Real
    <2>2. CASE Spawn(r)
      <3>1. /\ child[r] = "none" /\ child' = [child EXCEPT ![r] = "alive"]
            /\ r = runs /\ hpc = "idle"
            /\ wpc' = [wpc EXCEPT ![r] = "reading"]
            /\ UNCHANGED <<mem, disk, io, snap, hpc, runs>>
        BY <2>2 DEF Spawn, Success, Ownership
      <3>2. \A s \in RunIds : child[s] = "ok" => child'[s] = "ok"
        BY <1>0, <3>1
      <3>3. \A s \in RunIds : s > runs => child'[s] = "none"
        BY <1>0, <3>1 DEF Success
      <3>4. \A s \in RunIds : wpc'[s] \in {"launch", "spawn"} => child'[s] = "none"
        BY <1>0, <3>1 DEF Success
      <3>5. QED
        BY <3>1, <3>2, <3>3, <3>4 DEF Success, Real
    <2>3. CASE SpawnRaises(r)
      <3>1. /\ \A s \in RunIds : wpc'[s] \in {"launch", "spawn"} => wpc[s] \in {"launch", "spawn"}
            /\ UNCHANGED <<mem, disk, io, snap, hpc, child, runs>>
        BY <1>0, <2>3 DEF SpawnRaises
      <3>2. QED
        BY <3>1 DEF Success, Real
    <2>4. CASE Release(r)
      <3>1. /\ \A s \in RunIds : wpc'[s] \in {"launch", "spawn"} => wpc[s] \in {"launch", "spawn"}
            /\ UNCHANGED <<mem, disk, io, snap, hpc, child, runs>>
        BY <1>0, <2>4 DEF Release
      <3>2. QED
        BY <3>1 DEF Success, Real
    <2>5. CASE WorkerSaveRaises(r)
      <3>1. /\ \A s \in RunIds : wpc'[s] \in {"launch", "spawn"} => wpc[s] \in {"launch", "spawn"}
            /\ UNCHANGED <<mem, disk, hpc, child, runs>>
        BY <1>0, <2>5 DEF WorkerSaveRaises, AfterRaise
      <3>2. \A a \in Actors : io'[a] = "snapshot" => io[a] = "snapshot" /\ snap'[a] = snap[a]
        BY <1>0, <2>5, PCs DEF WorkerSaveRaises, DropSnapshot
      <3>3. QED
        BY <3>1, <3>2 DEF Success, Real
    <2>6. CASE ChildExits(r)
      <3>1. /\ child[r] = "alive"
            /\ \A s \in RunIds \ {r} : child'[s] = child[s]
            /\ UNCHANGED <<mem, disk, io, snap, hpc, wpc, runs>>
        BY <1>0, <2>6 DEF ChildExits
      <3>2. hpc # "idle" => runs \in RunIds /\ runs # r
        BY <3>1 DEF Success, Ownership
      <3>3. QED
        BY <3>1, <3>2 DEF Success, Real
    <2>7. QED
      BY <1>9, <2>1, <2>2, <2>3, <2>4, <2>5, <2>6, WorkerStepKinds
  <1>10. CASE Boot
    <2>1. /\ mem' = Recovered(disk.state) /\ disk'.state = Recovered(disk.state)
          /\ Recovered(disk.state).run = disk.state.run
          /\ Recovered(disk.state).status = "completed" => disk.state.status = "completed"
      BY <1>0, <1>10, StateTypes DEF Boot
    <2>2. UNCHANGED <<io, snap, hpc, wpc, child, runs>>
      BY <1>10 DEF Boot
    <2>3. QED
      BY <2>1, <2>2 DEF Success, Real
  <1>11. CASE Crash
    <2>1. /\ \A a \in Actors : io'[a] = "none"
          /\ \A r \in RunIds : wpc'[r] = "off"
          /\ \A r \in RunIds : child[r] # "alive" => child'[r] = child[r]
          /\ hpc' = "idle" /\ UNCHANGED <<mem, disk, runs>>
      BY <1>11 DEF Crash
    <2>2. QED
      BY <2>1 DEF Success, Real
  <1>12. CASE Tick \/ UNCHANGED vars
    BY <1>12 DEF Tick, vars, Success, Real
  <1>13. QED
    BY <1>1, <1>2, <1>3, <1>4, <1>5, <1>6, <1>7, <1>8, <1>9, <1>10, <1>11, <1>12
       DEF Next, HandlerStep, Persist

-----------------------------------------------------------------------------
(* Where the lock can be left taken *)

LEMMA LeakInit == Init => Leak
  BY DEF Init, Leak, LockLeaksOnlyAtStart

\* A worker is under way and the handler is not: nothing of Leak is at stake.
LEMMA LeakBusy ==
    ASSUME NEW r \in RunIds, wpc'[r] # "off", hpc' = "idle"
    PROVE  Leak'
  BY DEF Leak, LockLeaksOnlyAtStart, Working

LEMMA LeakFree ==
    ASSUME lock' = "free", hpc' \notin {"begin", "begun"}
    PROVE  Leak'
  BY DEF Leak, LockLeaksOnlyAtStart

LEMMA LeakStep == TypeOK /\ Ownership /\ SaveOrder /\ Leak /\ [Next]_vars => Leak'
  <1> SUFFICES ASSUME TypeOK, Ownership, SaveOrder, Leak, [Next]_vars PROVE Leak'
    OBVIOUS
  <1>0. /\ runs \in Int /\ faults \in Nat /\ mem \in RunState /\ disk.state \in RunState
        /\ wpc \in [RunIds -> WorkerPC]
        /\ io \in [Actors -> {"none", "change", "snapshot"}]
    BY ConstantsAssumption DEF TypeOK, Row
  <1>1. CASE AcceptRun
    <2>1. disk.state.run < runs + 1
      BY <1>0 DEF SaveOrder, NotAfter, Ownership, RunState
    <2>2. disk' = disk /\ runs' = runs + 1 /\ hpc' = "begin"
      BY <1>1 DEF AcceptRun
    <2>3. QED
      BY <2>1, <2>2 DEF Leak, LockLeaksOnlyAtStart
  <1>2. CASE BeginRun
    <2>1. /\ disk.state.run < runs /\ UNCHANGED <<disk, runs>> /\ hpc' = "begun"
          /\ mem'.stage = "Preparing test"
      BY <1>2 DEF BeginRun, Change, Leak
    <2>2. QED
      BY <2>1 DEF Leak, LockLeaksOnlyAtStart
  <1>3. CASE StartThread
    <2>1. runs \in RunIds
      BY <1>3 DEF StartThread, Ownership
    <2>2. wpc'[runs] = "launch" /\ hpc' = "idle"
      BY <1>0, <1>3, <2>1 DEF StartThread
    <2>3. QED
      BY <2>1, <2>2, LeakBusy
  <1>4. CASE ThreadStartRaises \/ UndoRun \/ AnswerUndone
    BY <1>4, LeakFree DEF ThreadStartRaises, UndoRun, AnswerUndone, Change, Ownership
  <1>5. CASE HandlerSaveRaises
    <2>1. /\ io[Handler] = "snapshot" /\ faults' = faults + 1 /\ hpc' = "idle"
          /\ UNCHANGED <<lock, mem, disk, wpc, runs>>
      BY <1>5 DEF HandlerSaveRaises, Fault
    <2>2. CASE hpc = "begun"
      <3>1. mem.run = runs /\ mem.stage = "Preparing test" /\ disk.state.run < runs
        BY <2>1, <2>2 DEF Ownership, Leak
      <3>2. mem'.run = runs' /\ mem'.stage = "Preparing test" /\ disk'.state.run < runs'
        BY <2>1, <3>1
      <3>3. faults' > 0
        BY <1>0, <2>1
      <3>4. QED
        BY <2>1, <3>2, <3>3 DEF Leak, LockLeaksOnlyAtStart
    <2>3. CASE hpc = "undone"
      BY <2>1, <2>3, LeakFree DEF Ownership
    <2>4. QED
      BY <2>1, <2>2, <2>3 DEF Ownership
  <1>6. ASSUME NEW a \in Actors, Snapshot(a) \/ Save(a) PROVE Leak'
    <2>1. io[a] # "none" /\ UNCHANGED <<lock, mem, hpc, wpc, runs, faults>>
      BY <1>6 DEF Snapshot, Save
    <2>2. CASE a \in RunIds
      BY <2>1, <2>2, LeakBusy DEF Ownership
    <2>3. CASE a = Handler
      <3>1. hpc \in {"begun", "undone"}
        BY <2>1, <2>3 DEF Ownership
      <3>2. io'[Handler] # "none" => disk' = disk
        BY <1>0, <1>6, <2>3, PCs DEF Snapshot, Save, DropSnapshot
      <3>3. QED
        BY <2>1, <2>3, <3>1, <3>2 DEF Leak, LockLeaksOnlyAtStart
    <2>4. QED
      BY <2>2, <2>3 DEF Actors
  <1>7. ASSUME NEW r \in RunIds, WorkerStep(r) PROVE Leak'
    <2>1. CASE WorkerMoves(r)
      <3>1. PICK from, to, state : Move(r, from, to, state)
        BY <2>1 DEF WorkerMoves
      <3>2. wpc[r] # "off" /\ hpc' = hpc
        BY <3>1 DEF Move, WorkerChange
      <3>3. wpc'[r] # "off"
        BY <1>0, <3>1 DEF Move, WorkerChange
      <3>4. QED
        BY <3>2, <3>3, LeakBusy DEF Ownership
    <2>2. CASE Spawn(r) \/ SpawnRaises(r) \/ WorkerSaveRaises(r)
      <3>1. hpc' = hpc /\ wpc[r] # "off"
        BY <2>2 DEF Spawn, SpawnRaises, WorkerSaveRaises, Ownership
      <3>2. wpc'[r] # "off"
        BY <1>0, <2>2 DEF Spawn, SpawnRaises, WorkerSaveRaises, AfterRaise
      <3>3. QED
        BY <3>1, <3>2, LeakBusy DEF Ownership
    <2>3. CASE Release(r)
      <3>1. wpc[r] # "off" /\ lock' = "free" /\ hpc' = hpc
        BY <2>3 DEF Release, AtFinally
      <3>2. QED
        BY <3>1, LeakFree DEF Ownership
    <2>4. CASE ChildExits(r)
      BY <2>4 DEF ChildExits, Leak, LockLeaksOnlyAtStart, Working
    <2>5. QED
      BY <1>7, <2>1, <2>2, <2>3, <2>4, WorkerStepKinds
  <1>8. CASE Boot
    BY <1>8, LeakFree DEF Boot, Ownership
  <1>9. CASE Crash
    BY <1>9, LeakFree DEF Crash
  <1>10. CASE Tick \/ UNCHANGED vars
    BY <1>10 DEF Tick, vars, Leak, LockLeaksOnlyAtStart, Working
  <1>11. QED
    BY <1>1, <1>2, <1>3, <1>4, <1>5, <1>6, <1>7, <1>8, <1>9, <1>10
       DEF Next, HandlerStep, Persist

-----------------------------------------------------------------------------
(* The theorems *)

\* Every reachable state has the types the model gives it, the cut log included.
THEOREM TypeCorrect == Spec => []TypeOK
  BY TypeInit, TypeStep, PTL DEF Spec

LEMMA Inductive == Spec => []IInv
  <1>1. Init => IInv
    BY TypeInit, OwnershipInit, SaveOrderInit, SuccessInit, LeakInit DEF IInv
  <1>2. IInv /\ [Next]_vars => IInv'
    BY TypeStep, OwnershipStep, SaveOrderStep, SuccessStep, LeakStep DEF IInv
  <1>3. QED
    BY <1>1, <1>2, PTL DEF Spec

\* Handler and workers never overlap, however many runs and failures: the state
\* may be read, changed and saved in separate steps.
THEOREM OneWriterHolds == Spec => []OneWriter
  <1>1. IInv => OneWriter
    BY DEF IInv, Ownership, OneWriter, Working
  <1>2. QED
    BY <1>1, Inductive, PTL

\* "completed" is shown or saved only for a run whose process exited with 0.
THEOREM SuccessIsRealHolds == Spec => []SuccessIsReal
  <1>1. IInv => SuccessIsReal
    BY DEF IInv, Success, Real, SuccessIsReal
  <1>2. QED
    BY <1>1, Inductive, PTL

\* A failed first save is the only thing that leaves the lock taken for nobody.
THEOREM LockLeaksOnlyAtStartHolds == Spec => []LockLeaksOnlyAtStart
  <1>1. IInv => LockLeaksOnlyAtStart
    BY DEF IInv, Leak
  <1>2. QED
    BY <1>1, Inductive, PTL

\* What a step may do to the saved row.
RowStep ==
    /\ disk'.state.run >= disk.state.run
    /\ disk'.state.run = disk.state.run /\ disk.state.status \in EndedStatus
         => disk'.state.status \in EndedStatus

LEMMA RowStepHolds == IInv /\ [Next]_vars => RowStep \/ UNCHANGED disk
  <1> SUFFICES ASSUME IInv, [Next]_vars PROVE RowStep \/ UNCHANGED disk
    OBVIOUS
  <1>0. disk.state \in RunState
    BY DEF IInv, TypeOK, Row
  <1>1. ASSUME NEW a \in Actors, Save(a) PROVE RowStep
    <2>1. NotAfter(disk.state, snap[a].state) /\ disk' = snap[a] /\ snap[a].state \in RunState
      BY <1>1 DEF IInv, TypeOK, SaveOrder, Save, Row
    <2>2. QED
      BY <1>0, <2>1 DEF NotAfter, RowStep, RunState
  <1>2. CASE Boot
    <2>1. disk'.state = Recovered(disk.state)
      BY <1>2 DEF Boot
    <2>2. QED
      BY <1>0, <2>1, StateTypes DEF RowStep, EndedStatus, RunState
  <1>3. ASSUME NEW r \in RunIds, WorkerStep(r) PROVE UNCHANGED disk
    <2>1. CASE WorkerMoves(r)
      BY <2>1 DEF WorkerMoves, Move, WorkerChange
    <2>2. CASE Spawn(r) \/ SpawnRaises(r) \/ Release(r) \/ WorkerSaveRaises(r) \/ ChildExits(r)
      BY <2>2 DEF Spawn, SpawnRaises, Release, WorkerSaveRaises, ChildExits
    <2>3. QED
      BY <1>3, <2>1, <2>2, WorkerStepKinds DEF IInv
  <1>4. CASE AcceptRun \/ HandlerStep \/ HandlerSaveRaises \/ Crash \/ Tick \/ UNCHANGED vars
    BY <1>4 DEF AcceptRun, HandlerStep, BeginRun, StartThread, ThreadStartRaises, UndoRun,
                AnswerUndone, HandlerSaveRaises, Crash, Tick, vars
  <1>5. ASSUME NEW a \in Actors, Snapshot(a) PROVE UNCHANGED disk
    BY <1>5 DEF Snapshot
  <1>6. QED
    BY <1>1, <1>2, <1>3, <1>4, <1>5 DEF Next, Persist

\* No save overtakes a later one: the row never goes back, over restarts too.
THEOREM RowNeverGoesBackHolds == Spec => RowNeverGoesBack
  <1>1. IInv /\ [Next]_vars => [RowStep]_disk
    BY RowStepHolds
  <1>2. Spec => [][RowStep]_disk
    BY <1>1, Inductive, PTL DEF Spec
  <1>3. QED
    BY <1>2, PTL DEF RowNeverGoesBack, RowStep

-----------------------------------------------------------------------------
(***************************************************************************)
(* The cooldown over restarts.  A child is launched only after a save of   *)
(* the moment its run was accepted, so the row is never behind the latest  *)
(* launch, and what a restart reads back from it is recent enough.         *)
(***************************************************************************)

Gap == (CooldownSeconds - 1) * TicksPerSecond

\* A run was accepted and its child was not launched yet.
Pending == hpc \in {"begin", "begun"} \/ \E r \in RunIds : wpc[r] \in {"launch", "spawn"}

Cooling ==
    /\ launchedAt <= disk.lastAt /\ disk.lastAt <= lastAt /\ lastAt <= now
    /\ \A a \in Actors : io[a] = "snapshot" => snap[a].lastAt = lastAt
    /\ Pending => lastAt - launchedAt > Gap
    /\ \A r \in RunIds : wpc[r] = "spawn" /\ io[r] = "none" => disk.lastAt = lastAt

\* An accepted run is more than the gap away from the one before it.
LEMMA AcceptedApart ==
    ASSUME TypeOK, CooldownRemaining = 0
    PROVE  now - lastAt > Gap
  <1> DEFINE T == TicksPerSecond
             CT == CooldownSeconds * T
             left == lastAt + CT - now
  <1>1. T \in Nat \ {0} /\ CT \in Int /\ now \in Int /\ lastAt \in Int /\ left \in Int
    BY ConstantsAssumption DEF TypeOK
  <1>2. Gap = CT - T
    BY ConstantsAssumption DEF Gap
  <1>3. ASSUME left > 0 PROVE left < T
    <2>1. left \div T = 0
      BY <1>3 DEF CooldownRemaining
    <2>2. QED
      <3> HIDE DEF left, T
      <3>1. QED
        BY <1>1, <2>1
  <1>4. left < T
    BY <1>1, <1>3
  <1>5. QED
    <2> HIDE DEF CT, T
    <2>1. QED
      BY <1>1, <1>2, <1>4

LEMMA CoolingInit == Init => Cooling
  <1> SUFFICES ASSUME Init PROVE Cooling
    OBVIOUS
  <1>1. Never \in Int /\ Never <= 0
    BY ConstantsAssumption DEF Never
  <1>2. launchedAt = Never /\ disk.lastAt = Never /\ lastAt = Never /\ now = 0
    BY DEF Init, FirstRow
  <1>3. ~Pending
    BY DEF Init, Pending
  <1>4. \A a \in Actors : io[a] = "none"
    BY DEF Init
  <1>5. \A r \in RunIds : wpc[r] = "off"
    BY DEF Init
  <1>6. QED
    BY <1>1, <1>2, <1>3, <1>4, <1>5 DEF Cooling

\* Nothing of the clock moves, nobody new is pending, and no launch is due.
LEMMA CoolingKept ==
    ASSUME TypeOK, Cooling,
           UNCHANGED <<now, lastAt, launchedAt, disk>>, Pending' => Pending,
           \A a \in Actors : io'[a] = "snapshot" =>
               snap'[a].lastAt = lastAt \/ (io[a] = "snapshot" /\ snap'[a] = snap[a]),
           \A r \in RunIds : wpc'[r] = "spawn" /\ io'[r] = "none" =>
               wpc[r] = "spawn" /\ io[r] = "none"
    PROVE  Cooling'
  BY DEF Cooling

LEMMA CoolingStep == IInv /\ Cooling /\ [Next]_vars => Cooling'
  <1> SUFFICES ASSUME IInv, Cooling, [Next]_vars PROVE Cooling'
    OBVIOUS
  <1> USE DEF IInv
  <1>0. /\ runs \in Int /\ now \in Int /\ lastAt \in Int /\ launchedAt \in Int
        /\ disk.lastAt \in Int /\ Gap \in Int
        /\ wpc \in [RunIds -> WorkerPC]
        /\ io \in [Actors -> {"none", "change", "snapshot"}]
        /\ snap \in [Actors -> Row]
    BY ConstantsAssumption DEF TypeOK, Row, Gap
  <1>1. CASE AcceptRun
    <2>1. /\ lastAt' = now /\ now' = now /\ hpc' = "begin"
          /\ UNCHANGED <<disk, launchedAt, io, snap, wpc>>
          /\ lock = "free" /\ hpc = "idle"
      BY <1>1 DEF AcceptRun, Acquire
    <2>2. now - lastAt > Gap
      BY <1>1, AcceptedApart DEF AcceptRun
    <2>3. \A r \in RunIds : wpc[r] = "off"
      BY <2>1 DEF Ownership
    <2>4. \A a \in Actors : io[a] = "none"
      BY <1>0, <2>1, <2>3 DEF Ownership, Actors
    <2>5. /\ launchedAt <= disk.lastAt /\ disk.lastAt <= now
          /\ now - launchedAt > Gap
      BY <1>0, <2>2 DEF Cooling
    <2>6. QED
      BY <1>0, <2>1, <2>3, <2>4, <2>5 DEF Cooling
  <1>2. CASE BeginRun \/ ThreadStartRaises \/ UndoRun \/ AnswerUndone
    <2>1. /\ UNCHANGED <<now, lastAt, launchedAt, disk, snap, wpc>>
          /\ Pending' => Pending
      BY <1>2 DEF BeginRun, ThreadStartRaises, UndoRun, AnswerUndone, Pending
    <2>2. /\ \A a \in Actors : io'[a] = "snapshot" => io[a] = "snapshot"
          /\ \A r \in RunIds : io'[r] = io[r]
      BY <1>0, <1>2, PCs DEF BeginRun, ThreadStartRaises, UndoRun, AnswerUndone, Change
    <2>3. QED
      BY <2>1, <2>2, CoolingKept
  <1>3. CASE StartThread
    <2>1. /\ UNCHANGED <<now, lastAt, launchedAt, disk, snap, io>> /\ hpc = "begun"
          /\ wpc' = [wpc EXCEPT ![runs] = "launch"]
      BY <1>3 DEF StartThread
    <2>2. Pending /\ \A r \in RunIds : wpc'[r] = "spawn" => wpc[r] = "spawn"
      BY <1>0, <2>1 DEF Pending
    <2>3. QED
      BY <2>1, <2>2, CoolingKept
  <1>4. ASSUME NEW a \in Actors, DropSnapshot(a), io[a] = "snapshot",
               UNCHANGED <<now, lastAt, launchedAt>>,
               disk' = disk \/ disk' = snap[a],
               Pending' => Pending,
               \A r \in RunIds : wpc'[r] = "spawn" => wpc[r] = "spawn" /\ (r = a => disk' = snap[a])
        PROVE  Cooling'
    <2>1. snap[a].lastAt = lastAt /\ snap[a].lastAt \in Int
      BY <1>0, <1>4 DEF Cooling
    <2>2. /\ launchedAt <= disk'.lastAt /\ disk'.lastAt <= lastAt /\ lastAt <= now
          /\ disk' = snap[a] => disk'.lastAt = lastAt
      BY <1>0, <1>4, <2>1 DEF Cooling
    <2>3. \A b \in Actors : io'[b] = "snapshot" => io[b] = "snapshot" /\ snap'[b] = snap[b]
      BY <1>0, <1>4 DEF DropSnapshot
    <2>4. ASSUME NEW r \in RunIds, wpc'[r] = "spawn", io'[r] = "none" PROVE disk'.lastAt = lastAt
      <3>1. CASE r = a
        BY <1>4, <2>2, <2>4, <3>1
      <3>2. CASE r # a
        <4>1. io[r] = "none" /\ wpc[r] = "spawn"
          BY <1>0, <1>4, <2>4, <3>2, PCs DEF DropSnapshot
        <4>2. disk.lastAt = lastAt
          BY <4>1 DEF Cooling
        <4>3. QED
          BY <1>4, <2>1, <4>2
      <3>3. QED
        BY <3>1, <3>2
    <2>5. QED
      BY <1>4, <2>2, <2>3, <2>4 DEF Cooling
  <1>5. CASE HandlerSaveRaises
    <2>1. Handler \in Actors /\ Handler \notin RunIds
      BY PCs
    <2>2. /\ DropSnapshot(Handler) /\ io[Handler] = "snapshot"
          /\ UNCHANGED <<now, lastAt, launchedAt, disk, wpc>> /\ hpc' = "idle"
      BY <1>5 DEF HandlerSaveRaises
    <2>3. QED
      BY <1>4, <2>1, <2>2 DEF Pending
  <1>6. ASSUME NEW a \in Actors, Snapshot(a) PROVE Cooling'
    <2>1. /\ UNCHANGED <<now, lastAt, launchedAt, disk, hpc, wpc>>
          /\ \A b \in Actors : snap'[b].lastAt = lastAt \/ (io'[b] = io[b] /\ snap'[b] = snap[b])
          /\ \A b \in Actors : io'[b] = "none" => io[b] = "none"
      BY <1>0, <1>6 DEF Snapshot
    <2>2. Pending' => Pending
      BY <2>1 DEF Pending
    <2>3. QED
      BY <2>1, <2>2, CoolingKept, PCs
  <1>7. ASSUME NEW a \in Actors, Save(a) PROVE Cooling'
    <2>1. /\ DropSnapshot(a) /\ io[a] = "snapshot" /\ disk' = snap[a]
          /\ UNCHANGED <<now, lastAt, launchedAt, hpc, wpc>>
      BY <1>7 DEF Save
    <2>2. QED
      BY <1>4, <2>1 DEF Pending
  <1>8. ASSUME NEW r \in RunIds, WorkerStep(r) PROVE Cooling'
    <2>1. CASE WorkerMoves(r)
      <3>1. PICK from, to, state : Move(r, from, to, state)
        BY <2>1 DEF WorkerMoves
      <3>2. /\ UNCHANGED <<now, lastAt, launchedAt, disk, snap, hpc>>
            /\ wpc[r] = from /\ wpc' = [wpc EXCEPT ![r] = to]
            /\ io' = [io EXCEPT ![r] = "change"]
            /\ to # "launch" /\ (to = "spawn" => from = "launch")
        BY <3>1 DEF Move, WorkerChange, Change
      <3>3. Pending' => Pending
        BY <1>0, <3>2 DEF Pending
      <3>4. /\ \A a \in Actors : io'[a] = "snapshot" => io[a] = "snapshot"
            /\ \A s \in RunIds : io'[s] = "none" => s # r /\ io[s] = "none" /\ wpc'[s] = wpc[s]
        BY <1>0, <3>2, PCs
      <3>5. QED
        BY <3>2, <3>3, <3>4, CoolingKept
    <2>2. CASE Spawn(r)
      <3>1. /\ wpc[r] = "spawn" /\ io[r] = "none" /\ launchedAt' = lastAt
            /\ UNCHANGED <<now, lastAt, disk, io, snap, hpc>>
            /\ wpc' = [wpc EXCEPT ![r] = "reading"]
        BY <2>2 DEF Spawn
      <3>2. disk.lastAt = lastAt
        BY <3>1 DEF Cooling
      <3>3. \A s \in RunIds : wpc'[s] \notin {"launch", "spawn"}
        BY <1>0, <3>1 DEF Ownership
      <3>4. ~Pending'
        BY <3>1, <3>3 DEF Pending, Ownership
      <3>5. QED
        BY <1>0, <3>1, <3>2, <3>3, <3>4 DEF Cooling
    <2>3. CASE SpawnRaises(r) \/ Release(r) \/ ChildExits(r)
      <3>1. /\ UNCHANGED <<now, lastAt, launchedAt, disk, io, snap, hpc>>
            /\ \A s \in RunIds : wpc'[s] \in {"launch", "spawn"} => wpc'[s] = wpc[s]
        BY <1>0, <2>3 DEF SpawnRaises, Release, ChildExits
      <3>2. Pending' => Pending
        BY <3>1 DEF Pending
      <3>3. QED
        BY <3>1, <3>2, CoolingKept
    <2>4. CASE WorkerSaveRaises(r)
      <3>1. /\ r \in Actors /\ DropSnapshot(r) /\ io[r] = "snapshot"
            /\ UNCHANGED <<now, lastAt, launchedAt, disk, hpc>>
        BY <2>4, PCs DEF WorkerSaveRaises
      <3>2. \A s \in RunIds : wpc'[s] \in {"launch", "spawn"} => s # r /\ wpc'[s] = wpc[s]
        BY <1>0, <2>4 DEF WorkerSaveRaises, AfterRaise
      <3>3. Pending' => Pending
        BY <3>1, <3>2 DEF Pending
      <3>4. QED
        BY <1>4, <3>1, <3>2, <3>3
    <2>5. QED
      BY <1>8, <2>1, <2>2, <2>3, <2>4, WorkerStepKinds
  <1>9. CASE Boot
    <2>1. /\ lastAt' = disk.lastAt /\ disk'.lastAt = disk.lastAt
          /\ UNCHANGED <<now, launchedAt, io, snap, hpc, wpc>>
          /\ server = "down"
      BY <1>9 DEF Boot, RecoveredLastAt
    <2>2. hpc = "idle" /\ \A r \in RunIds : wpc[r] = "off"
      BY <2>1 DEF Ownership
    <2>3. \A a \in Actors : io[a] = "none"
      BY <1>0, <2>2 DEF Ownership, Actors
    <2>4. ~Pending'
      BY <2>1, <2>2 DEF Pending
    <2>5. QED
      BY <1>0, <2>1, <2>2, <2>3, <2>4 DEF Cooling
  <1>10. CASE Crash
    <2>1. /\ UNCHANGED <<now, lastAt, launchedAt, disk>> /\ hpc' = "idle"
          /\ \A r \in RunIds : wpc'[r] = "off"
          /\ \A a \in Actors : io'[a] = "none"
      BY <1>10 DEF Crash
    <2>2. ~Pending'
      BY <2>1 DEF Pending
    <2>3. QED
      BY <2>1, <2>2, CoolingKept
  <1>11. CASE Tick
    <2>1. /\ UNCHANGED <<lastAt, launchedAt, disk, io, snap, hpc, wpc>> /\ now' = now + 1
      BY <1>11 DEF Tick
    <2>2. Pending' <=> Pending
      BY <2>1 DEF Pending
    <2>3. QED
      BY <1>0, <2>1, <2>2 DEF Cooling
  <1>12. CASE UNCHANGED vars
    BY <1>12, CoolingKept DEF vars, Pending
  <1>13. QED
    BY <1>1, <1>2, <1>3, <1>5, <1>6, <1>7, <1>8, <1>9, <1>10, <1>11, <1>12
       DEF Next, HandlerStep, Persist

LEMMA LaunchedApart ==
    IInv /\ Cooling /\ [Next]_vars => launchedAt' - launchedAt > Gap \/ UNCHANGED launchedAt
  <1> SUFFICES ASSUME IInv, Cooling, [Next]_vars
               PROVE  launchedAt' - launchedAt > Gap \/ UNCHANGED launchedAt
    OBVIOUS
  <1>1. ASSUME NEW r \in RunIds, Spawn(r) PROVE launchedAt' - launchedAt > Gap
    BY <1>1 DEF Spawn, Cooling, Pending
  <1>2. ASSUME NEW r \in RunIds, WorkerStep(r), ~Spawn(r) PROVE UNCHANGED launchedAt
    <2>1. CASE WorkerMoves(r)
      BY <2>1 DEF WorkerMoves, Move, WorkerChange
    <2>2. CASE SpawnRaises(r) \/ Release(r) \/ WorkerSaveRaises(r) \/ ChildExits(r)
      BY <2>2 DEF SpawnRaises, Release, WorkerSaveRaises, ChildExits
    <2>3. QED
      BY <1>2, <2>1, <2>2, WorkerStepKinds DEF IInv
  <1>3. CASE AcceptRun \/ HandlerStep \/ HandlerSaveRaises \/ Boot \/ Crash \/ Tick
               \/ UNCHANGED vars
    BY <1>3 DEF AcceptRun, HandlerStep, BeginRun, StartThread, ThreadStartRaises, UndoRun,
                AnswerUndone, HandlerSaveRaises, Boot, Crash, Tick, vars
  <1>4. ASSUME NEW a \in Actors, Persist(a) PROVE UNCHANGED launchedAt
    BY <1>4 DEF Persist, Snapshot, Save
  <1>5. QED
    BY <1>1, <1>2, <1>3, <1>4 DEF Next

\* No two tests are launched within the cooldown (less the second int() drops),
\* however often the dashboard dies in between and whatever fails to be saved.
THEOREM CooldownSurvivesRestartHolds == Spec => CooldownSurvivesRestart
  <1>1. Spec => []Cooling
    BY CoolingInit, CoolingStep, Inductive, PTL DEF Spec
  <1>2. Spec => [][launchedAt' - launchedAt > Gap]_launchedAt
    BY <1>1, LaunchedApart, Inductive, PTL DEF Spec
  <1>3. QED
    BY <1>2, PTL DEF CooldownSurvivesRestart, Gap

-----------------------------------------------------------------------------
(* ManualRun implements RunSlot *)

ShownRun == [run |-> mem.run, status |-> mem.status]

LEMMA SlotInitHolds == Init => Slot!SlotInit
  BY DEF Init, DEFAULT_MANUAL_RUN_STATE, Slot!SlotInit, SlotHolder

\* A step that leaves the lock, the count of runs, what is shown and the handler's
\* way out of a failed start alone is no step of the slot.
LEMMA SlotStutters ==
    ASSUME UNCHANGED <<lock, runs, mem>>,
           hpc' \in {"undo", "undone"} <=> hpc \in {"undo", "undone"}
    PROVE  UNCHANGED Slot!slotVars
  BY DEF SlotHolder, Slot!slotVars

LEMMA SlotShows ==
    ASSUME TypeOK, SlotHolder = runs, SlotHolder' = runs, runs # 0, runs' = runs,
           mem'.run = runs, mem'.status \in {"running", "completed", "failed"},
           mem.run = runs /\ mem.status \in EndedStatus => mem'.status \in EndedStatus
    PROVE  Slot!Show
  BY DEF Slot!Show, Slot!Ended, EndedStatus

LEMMA SlotLeaves ==
    ASSUME lock' = "free", hpc' = "idle", UNCHANGED <<runs, mem>>
    PROVE  Slot!Leave \/ UNCHANGED Slot!slotVars
  BY DEF Slot!Leave, Slot!slotVars, SlotHolder

LEMMA SlotStep == IInv /\ [Next]_vars => [Slot!SlotNext]_(Slot!slotVars)
  <1> SUFFICES ASSUME IInv, [Next]_vars PROVE Slot!SlotNext \/ UNCHANGED Slot!slotVars
    OBVIOUS
  <1> USE DEF IInv
  <1>0. /\ runs \in Int /\ mem \in RunState /\ disk.state \in RunState
        /\ \A r \in RunIds : r # 0
    BY ConstantsAssumption DEF TypeOK, Row, RunIds
  <1>1. CASE AcceptRun
    <2>1. /\ lock = "free" /\ hpc = "idle" /\ lock' = "held"
          /\ runs' = runs + 1 /\ mem' = mem
      BY <1>1 DEF AcceptRun, Acquire
    <2>2. SlotHolder = 0 /\ SlotHolder' = runs + 1
      BY <2>1 DEF SlotHolder
    <2>3. QED
      BY <2>1, <2>2 DEF Slot!SlotNext, Slot!Take
  <1>2. CASE BeginRun
    <2>1. /\ hpc = "begin" /\ lock = "held" /\ lock' = "held" /\ runs' = runs
          /\ runs \in RunIds /\ mem.run < runs
          /\ mem'.run = runs /\ mem'.status = "running"
      BY <1>2 DEF BeginRun, Change, Ownership
    <2>2. SlotHolder = runs /\ SlotHolder' = runs
      BY <2>1 DEF SlotHolder
    <2>3. ~(mem.run = runs)
      BY <1>0, <2>1 DEF RunState
    <2>4. QED
      BY <1>0, <2>1, <2>2, <2>3, SlotShows DEF Slot!SlotNext
  <1>3. CASE UndoRun
    <2>1. /\ hpc = "undo" /\ hpc' = "undone" /\ runs \in RunIds /\ runs' = runs
          /\ mem.run = runs /\ mem' = Failed(mem)
      BY <1>3 DEF UndoRun, Change, Ownership
    <2>2. mem'.run = runs /\ mem'.status = "failed"
      BY <1>0, <2>1, StateTypes
    <2>3. SlotHolder = runs /\ SlotHolder' = runs
      BY <2>1 DEF SlotHolder
    <2>4. QED
      BY <1>0, <2>1, <2>2, <2>3, SlotShows DEF Slot!SlotNext, EndedStatus
  <1>4. CASE StartThread
    BY <1>4, SlotStutters DEF StartThread
  <1>5. CASE ThreadStartRaises
    <2>1. /\ lock = "held" /\ lock' = "free" /\ hpc' = "undo" /\ UNCHANGED <<runs, mem>>
      BY <1>5 DEF ThreadStartRaises, Ownership
    <2>2. QED
      BY <2>1 DEF SlotHolder, Slot!slotVars
  <1>6. CASE AnswerUndone
    <2>1. lock' = "free" /\ hpc' = "idle" /\ UNCHANGED <<runs, mem>>
      BY <1>6 DEF AnswerUndone, Ownership
    <2>2. QED
      BY <2>1, SlotLeaves DEF Slot!SlotNext
  <1>7. CASE HandlerSaveRaises
    <2>1. hpc' = "idle" /\ UNCHANGED <<lock, runs, mem>> /\ hpc \in {"begun", "undone"}
      BY <1>7 DEF HandlerSaveRaises, Ownership
    <2>2. CASE hpc = "begun"
      BY <2>1, <2>2, SlotStutters
    <2>3. CASE hpc = "undone"
      BY <2>1, <2>3, SlotLeaves DEF Ownership, Slot!SlotNext
    <2>4. QED
      BY <2>1, <2>2, <2>3
  <1>8. ASSUME NEW a \in Actors, Snapshot(a) \/ Save(a) PROVE UNCHANGED Slot!slotVars
    BY <1>8, SlotStutters DEF Snapshot, Save
  <1>9. ASSUME NEW r \in RunIds, WorkerStep(r)
        PROVE  Slot!SlotNext \/ UNCHANGED Slot!slotVars
    <2>1. CASE WorkerMoves(r)
      <3>1. PICK from, to, state : Move(r, from, to, state)
        BY <2>1 DEF WorkerMoves
      <3>2. /\ lock = "held" /\ UNCHANGED <<lock, hpc, runs>> /\ r = runs /\ mem.run = runs
            /\ mem.status # "idle" /\ mem' = state /\ state \in RunState
            /\ state.run = mem.run /\ state.status # "idle"
            /\ mem.status \in EndedStatus => state.status \in EndedStatus
        BY <3>1 DEF Move, WorkerChange, Change, Ownership
      <3>3. state.status \in {"running", "completed", "failed"}
        BY <3>2 DEF RunState, Status
      <3>4. SlotHolder = runs /\ SlotHolder' = runs
        BY <3>2 DEF SlotHolder
      <3>5. QED
        BY <1>0, <3>2, <3>3, <3>4, SlotShows DEF Slot!SlotNext
    <2>2. CASE Spawn(r) \/ SpawnRaises(r) \/ WorkerSaveRaises(r) \/ ChildExits(r)
      BY <2>2, SlotStutters DEF Spawn, SpawnRaises, WorkerSaveRaises, ChildExits
    <2>3. CASE Release(r)
      <3>1. lock' = "free" /\ hpc' = "idle" /\ UNCHANGED <<runs, mem>>
        BY <2>3 DEF Release, AtFinally, Ownership
      <3>2. QED
        BY <3>1, SlotLeaves DEF Slot!SlotNext
    <2>4. QED
      BY <1>9, <2>1, <2>2, <2>3, WorkerStepKinds
  <1>10. CASE Boot
    <2>1. /\ lock = "free" /\ hpc = "idle" /\ UNCHANGED <<lock, hpc, runs>>
          /\ mem' = Recovered(disk.state)
      BY <1>10 DEF Boot, Ownership
    <2>2. SlotHolder = 0 /\ SlotHolder' = 0
      BY <2>1 DEF SlotHolder
    <2>3. /\ Recovered(disk.state).run = disk.state.run
          /\ Recovered(disk.state).status \in Status \ {"running"}
      BY <1>0, StateTypes DEF RunState, Status
    <2>4. disk.state.run \in 0 .. runs
      BY <1>0 DEF SaveOrder, NotAfter, Ownership, RunState
    <2>5. QED
      BY <2>1, <2>2, <2>3, <2>4
         DEF Slot!SlotNext, Slot!Restarted, Slot!ShownStatus, Status
  <1>11. CASE Crash
    BY <1>11, SlotLeaves DEF Crash, Slot!SlotNext
  <1>12. CASE Tick \/ UNCHANGED vars
    BY <1>12, SlotStutters DEF Tick, vars
  <1>13. QED
    BY <1>1, <1>2, <1>3, <1>4, <1>5, <1>6, <1>7, <1>8, <1>9, <1>10, <1>11, <1>12
       DEF Next, HandlerStep, Persist

\* The handler, the workers, the failures and the restarts together are RunSlot:
\* one holder at a time, and only it changes what is shown.
THEOREM ImplementsSlot == Spec => SlotSpec
  <1>1. Spec => [][Slot!SlotNext]_(Slot!slotVars)
    BY SlotStep, Inductive, PTL DEF Spec
  <1>2. QED
    BY <1>1, SlotInitHolds, PTL DEF Spec, SlotSpec, Slot!SlotSpec

-----------------------------------------------------------------------------
(* Children nobody reads *)

LEMMA UnattendedIsFinite == TypeOK => IsFiniteSet(Unattended)
  <1>1. IsFiniteSet(RunIds)
    BY FS_Interval, ConstantsAssumption DEF RunIds
  <1>2. Unattended \subseteq RunIds
    BY DEF Unattended
  <1>3. QED
    BY <1>1, <1>2, FS_Subset

\* A step makes at most one child unattended, and then a save has failed.
LEMMA UnattendedMoves ==
    ASSUME TypeOK, Ownership, [Next]_vars
    PROVE  \/ Unattended' \subseteq Unattended /\ faults' >= faults
           \/ \E r \in RunIds : Unattended' \subseteq Unattended \cup {r} /\ faults' = faults + 1
  <1>0. /\ wpc \in [RunIds -> WorkerPC] /\ child \in [RunIds -> ChildState]
        /\ faults \in Nat
    BY ConstantsAssumption DEF TypeOK
  <1> USE DEF Unattended
  <1>1. ASSUME UNCHANGED <<wpc, child, faults>> PROVE Unattended' \subseteq Unattended /\ faults' >= faults
    BY <1>0, <1>1
  <1>2. CASE StartThread
    <2>1. /\ runs \in RunIds /\ wpc[runs] = "off" /\ wpc' = [wpc EXCEPT ![runs] = "launch"]
          /\ UNCHANGED <<child, faults>>
      BY <1>2 DEF StartThread, Ownership
    <2>2. QED
      BY <1>0, <2>1
  <1>3. CASE ThreadStartRaises \/ HandlerSaveRaises
    BY <1>0, <1>3 DEF ThreadStartRaises, HandlerSaveRaises, Fault
  <1>4. ASSUME NEW r \in RunIds, WorkerStep(r)
        PROVE  \/ Unattended' \subseteq Unattended /\ faults' >= faults
               \/ Unattended' \subseteq Unattended \cup {r} /\ faults' = faults + 1
    <2>1. ASSUME NEW from, NEW to, NEW state, WorkerChange(r, from, to, state),
                 from \in {"reading", "noting"} => to \in {"reading", "noting"} \/ child[r] # "alive"
          PROVE  Unattended' \subseteq Unattended /\ faults' >= faults
      BY <1>0, <2>1 DEF WorkerChange
    <2>2. CASE Launch(r) \/ LogCrash(r) \/ EndCrashed(r)
      BY <2>1, <2>2 DEF Launch, LogCrash, EndCrashed
    <2>3. ASSUME NEW line \in ChildLines, ReadLine(r, line)
          PROVE  Unattended' \subseteq Unattended /\ faults' >= faults
      BY <2>1, <2>3 DEF ReadLine
    <2>4. CASE NoteLine(r)
      BY <2>1, <2>4 DEF NoteLine
    <2>5. CASE Finish(r)
      BY <2>1, <2>5 DEF Finish, Awaited
    <2>6. CASE Spawn(r) \/ Release(r) \/ ChildExits(r)
      BY <1>0, <2>6 DEF Spawn, Release, AtFinally, ChildExits
    <2>7. CASE SpawnRaises(r) \/ WorkerSaveRaises(r)
      BY <1>0, <2>7 DEF SpawnRaises, WorkerSaveRaises, Fault
    <2>8. QED
      BY <1>4, <2>2, <2>3, <2>4, <2>5, <2>6, <2>7 DEF WorkerStep
  <1>5. CASE Crash
    BY <1>0, <1>5 DEF Crash
  <1>6. ASSUME NEW a \in Actors, Persist(a) PROVE UNCHANGED <<wpc, child, faults>>
    BY <1>6 DEF Persist, Snapshot, Save
  <1>7. CASE AcceptRun \/ BeginRun \/ UndoRun \/ AnswerUndone \/ Boot \/ Tick \/ UNCHANGED vars
    BY <1>1, <1>7 DEF AcceptRun, BeginRun, UndoRun, AnswerUndone, Boot, Tick, vars
  <1>8. QED
    BY <1>1, <1>2, <1>3, <1>4, <1>5, <1>6, <1>7 DEF Next, HandlerStep

\* There is no more than one CheckSpeed.py left to itself for each failed write.
THEOREM UnattendedFollowFaultsHolds == Spec => []UnattendedFollowFaults
  <1>1. Init => UnattendedFollowFaults
    <2>1. Init => Unattended = {}
      BY DEF Init, Unattended
    <2>2. QED
      BY <2>1, FS_EmptySet DEF Init, UnattendedFollowFaults
  <1>2. TypeOK /\ TypeOK' /\ Ownership /\ UnattendedFollowFaults /\ [Next]_vars
          => UnattendedFollowFaults'
    <2> SUFFICES ASSUME TypeOK, TypeOK', Ownership, UnattendedFollowFaults, [Next]_vars
                 PROVE  Cardinality(Unattended') <= faults'
      BY DEF UnattendedFollowFaults
    <2>1. IsFiniteSet(Unattended) /\ Cardinality(Unattended) \in Nat
      BY UnattendedIsFinite, FS_CardinalityType
    <2>2. IsFiniteSet(Unattended') /\ Cardinality(Unattended') \in Nat
      <3>1. IsFiniteSet(RunIds) /\ Unattended' \subseteq RunIds
        BY FS_Interval, ConstantsAssumption DEF RunIds, Unattended
      <3>2. QED
        BY <3>1, FS_Subset, FS_CardinalityType
    <2>3. faults \in Nat /\ faults' \in Nat /\ Cardinality(Unattended) <= faults
      BY ConstantsAssumption DEF TypeOK, UnattendedFollowFaults
    <2>4. CASE Unattended' \subseteq Unattended /\ faults' >= faults
      <3>1. Cardinality(Unattended') <= Cardinality(Unattended)
        BY <2>1, <2>4, FS_Subset
      <3>2. QED
        BY <2>1, <2>2, <2>3, <2>4, <3>1
    <2>5. ASSUME NEW r \in RunIds, Unattended' \subseteq Unattended \cup {r}, faults' = faults + 1
          PROVE  Cardinality(Unattended') <= faults'
      <3> DEFINE U == Unattended
      <3> HIDE DEF U
      <3>a. IsFiniteSet(U \cup {r}) /\ Cardinality(U) \in Nat
            /\ Cardinality(U \cup {r}) = IF r \in U THEN Cardinality(U) ELSE Cardinality(U) + 1
        BY <2>1, FS_AddElement DEF U
      <3>1. /\ IsFiniteSet(Unattended \cup {r})
            /\ Cardinality(Unattended \cup {r}) \in Nat
            /\ Cardinality(Unattended \cup {r}) <= Cardinality(Unattended) + 1
        BY <3>a DEF U
      <3>2. Cardinality(Unattended') <= Cardinality(Unattended \cup {r})
        BY <2>5, <3>1, FS_Subset
      <3>3. QED
        BY <2>1, <2>2, <2>3, <2>5, <3>1, <3>2
    <2>6. QED
      BY <2>4, <2>5, UnattendedMoves
  <1>3. IInv => TypeOK /\ Ownership
    BY DEF IInv
  <1>4. QED
    BY <1>1, <1>2, <1>3, Inductive, PTL DEF Spec

-----------------------------------------------------------------------------
(* What is shown is saved *)

\* A snapshot about to be written is what is shown, and while nothing failed, what nobody
\* has still to save is in the row, and nobody who is done leaves a run in progress.
Saved ==
    /\ \A a \in Actors : io[a] = "snapshot" => snap[a].state = mem
    /\ faults = 0 =>
         /\ hpc \notin {"undo", "undone"}
         /\ \A r \in RunIds :
              /\ wpc[r] \notin {"raised", "crash logged", "ended", "closing"}
              /\ wpc[r] = "finished" => mem.status \in EndedStatus
         /\ server = "serving" /\ (\A a \in Actors : io[a] = "none") => disk.state = mem
         /\ server = "serving" /\ hpc = "idle" /\ Working = {} => mem.status # "running"

LEMMA SavedInit == Init => Saved
  BY PCs DEF Init, Saved, Actors

LEMMA SavedStep == TypeOK /\ Ownership /\ Saved /\ [Next]_vars => Saved'
  <1> SUFFICES ASSUME TypeOK, Ownership, Saved, [Next]_vars PROVE Saved'
    OBVIOUS
  <1>0. /\ wpc \in [RunIds -> WorkerPC]
        /\ io \in [Actors -> {"none", "change", "snapshot"}]
        /\ snap \in [Actors -> Row] /\ mem \in RunState /\ disk \in Row
        /\ faults \in Nat
    BY ConstantsAssumption DEF TypeOK
  \* A step that fails.
  <1>b. ASSUME faults' = faults + 1, mem' = mem,
               \A a \in Actors : io'[a] = "snapshot" => io[a] = "snapshot" /\ snap'[a] = snap[a]
        PROVE  Saved'
    <2>1. faults' # 0
      BY <1>0, <1>b
    <2>2. QED
      BY <1>b, <2>1 DEF Saved
  <1>1. CASE AcceptRun
    BY <1>0, <1>1 DEF AcceptRun, Saved, Working
  <1>2. CASE BeginRun
    <2>1. /\ hpc = "begin" /\ hpc' = "begun" /\ io[Handler] = "none"
          /\ io' = [io EXCEPT ![Handler] = "change"]
          /\ UNCHANGED <<server, disk, wpc, snap, faults>>
      BY <1>2 DEF BeginRun, Change
    <2>2. /\ \A r \in RunIds : wpc[r] = "off" /\ io[r] = "none"
      BY <1>0, <2>1, PCs DEF Ownership
    <2>3. io'[Handler] = "change" /\ \A r \in RunIds : io'[r] = "none"
      BY <1>0, <2>1, <2>2, PCs
    <2>4. QED
      BY <1>0, <2>1, <2>2, <2>3, PCs DEF Saved, Actors
  <1>3. CASE StartThread
    <2>1. runs \in RunIds /\ hpc' = "idle" /\ wpc' = [wpc EXCEPT ![runs] = "launch"]
          /\ UNCHANGED <<server, mem, disk, io, snap, faults>> /\ hpc = "begun"
      BY <1>3 DEF StartThread, Ownership
    <2>2. runs \in Working'
      BY <1>0, <2>1 DEF Working
    <2>3. QED
      BY <1>0, <2>1, <2>2 DEF Saved
  <1>4. CASE ThreadStartRaises
    BY <1>4, <1>b DEF ThreadStartRaises, Fault
  <1>5. CASE UndoRun
    <2>1. faults # 0 /\ faults' = faults /\ snap' = snap /\ io' = [io EXCEPT ![Handler] = "change"]
          /\ io[Handler] = "none" /\ hpc = "undo"
      BY <1>5 DEF UndoRun, Change, Saved
    <2>2. \A r \in RunIds : io[r] = "none"
      BY <1>0, <2>1, PCs DEF Ownership
    <2>3. \A a \in Actors : io'[a] # "snapshot"
      BY <1>0, <2>1, <2>2, PCs DEF Actors
    <2>4. QED
      BY <2>1, <2>3 DEF Saved
  <1>6. CASE AnswerUndone
    BY <1>0, <1>6 DEF AnswerUndone, Saved
  <1>7. CASE HandlerSaveRaises
    BY <1>0, <1>7, <1>b, PCs DEF HandlerSaveRaises, Fault, DropSnapshot
  <1>8. ASSUME NEW a \in Actors, Snapshot(a) PROVE Saved'
    <2>1. /\ snap'[a].state = mem /\ io'[a] = "snapshot"
          /\ \A b \in Actors \ {a} : snap'[b] = snap[b] /\ io'[b] = io[b]
          /\ UNCHANGED <<server, mem, disk, hpc, wpc, faults>>
      BY <1>0, <1>8 DEF Snapshot
    <2>2. QED
      BY <2>1 DEF Saved, Working
  <1>9. ASSUME NEW a \in Actors, Save(a) PROVE Saved'
    <2>1. /\ disk'.state = mem /\ UNCHANGED <<server, mem, hpc, wpc, faults>>
          /\ io' = [io EXCEPT ![a] = "none"] /\ snap' = [snap EXCEPT ![a] = FirstRow]
      BY <1>9 DEF Save, DropSnapshot, Saved
    <2>2. \A b \in Actors : io'[b] = "snapshot" => b # a /\ snap'[b] = snap[b] /\ io'[b] = io[b]
      BY <1>0, <2>1
    <2>3. QED
      BY <2>1, <2>2 DEF Saved, Working
  <1>10. ASSUME NEW r \in RunIds, WorkerStep(r) PROVE Saved'
    <2>1. CASE WorkerMoves(r)
      <3>1. PICK from, to, state : Move(r, from, to, state)
        BY <2>1 DEF WorkerMoves
      <3>2. /\ io[r] = "none" /\ io' = [io EXCEPT ![r] = "change"] /\ mem' = state
            /\ wpc[r] = from /\ wpc' = [wpc EXCEPT ![r] = to]
            /\ UNCHANGED <<server, disk, hpc, snap, faults>>
            /\ from # "off" /\ to # "off" /\ to # "closing"
            /\ to = "finished" => state.status \in EndedStatus
            /\ to \in {"raised", "crash logged", "ended"} => from \in {"raised", "crash logged"}
        BY <3>1 DEF Move, WorkerChange, Change
      <3>3. /\ \A s \in RunIds \ {r} : wpc[s] = "off" /\ io[s] = "none"
            /\ io[Handler] = "none"
        BY <1>0, <3>2, PCs DEF Ownership
      <3>4. \A a \in Actors : io'[a] # "snapshot"
        BY <1>0, <3>2, <3>3, PCs DEF Actors
      <3>5. io'[r] = "change" /\ r \in Working'
        BY <1>0, <3>2, PCs DEF Working
      <3>6. \A s \in RunIds \ {r} : wpc'[s] = "off"
        BY <1>0, <3>2, <3>3
      <3>7. wpc'[r] = to
        BY <1>0, <3>2
      <3>8. QED
        BY <3>2, <3>4, <3>5, <3>6, <3>7, PCs DEF Saved
    <2>2. CASE Spawn(r)
      <3>1. /\ wpc' = [wpc EXCEPT ![r] = "reading"] /\ wpc[r] = "spawn"
            /\ UNCHANGED <<server, mem, disk, hpc, io, snap, faults>>
        BY <2>2 DEF Spawn
      <3>2. r \in Working'
        BY <1>0, <3>1 DEF Working
      <3>3. QED
        BY <1>0, <3>1, <3>2 DEF Saved
    <2>3. CASE SpawnRaises(r)
      BY <2>3, <1>b DEF SpawnRaises, Fault
    <2>4. CASE Release(r)
      <3>1. /\ wpc[r] \in {"finished", "ended", "closing"} /\ wpc' = [wpc EXCEPT ![r] = "off"]
            /\ UNCHANGED <<server, mem, disk, hpc, io, snap, faults>>
        BY <2>4 DEF Release, AtFinally
      <3>2. faults = 0 => mem.status # "running"
        BY <3>1 DEF Saved, EndedStatus
      <3>3. QED
        BY <1>0, <3>1, <3>2 DEF Saved
    <2>5. CASE WorkerSaveRaises(r)
      BY <1>0, <2>5, <1>b, PCs DEF WorkerSaveRaises, Fault, DropSnapshot
    <2>6. CASE ChildExits(r)
      BY <2>6 DEF ChildExits, Saved, Working
    <2>7. QED
      BY <1>10, <2>1, <2>2, <2>3, <2>4, <2>5, <2>6, WorkerStepKinds
  <1>11. CASE Boot
    <2>1. disk'.state = mem' /\ mem'.status # "running" /\ server = "down"
      BY <1>0, <1>11, StateTypes DEF Boot, Row
    <2>2. hpc' = "idle" /\ wpc' = wpc /\ io' = io /\ faults' = faults
      BY <1>11 DEF Boot, Ownership
    <2>3. \A r \in RunIds : wpc[r] = "off" /\ io[r] = "none"
      BY <1>0, <2>1, PCs DEF Ownership
    <2>4. io[Handler] = "none"
      BY <1>0, <2>1, PCs DEF Ownership
    <2>5. QED
      BY <2>1, <2>2, <2>3, <2>4 DEF Saved, Actors
  <1>12. CASE Crash
    <2>1. /\ \A a \in Actors : io'[a] = "none"
          /\ \A r \in RunIds : wpc'[r] = "off"
          /\ server' = "down" /\ hpc' = "idle"
      BY <1>12 DEF Crash
    <2>2. QED
      BY <2>1 DEF Saved
  <1>13. CASE Tick \/ UNCHANGED vars
    BY <1>13 DEF Tick, vars, Saved, Working
  <1>14. QED
    BY <1>1, <1>2, <1>3, <1>4, <1>5, <1>6, <1>7, <1>8, <1>9, <1>10, <1>11, <1>12, <1>13
       DEF Next, HandlerStep, Persist

\* Unless a write failed, whoever looks while nobody works sees no run in progress, what
\* they see is what a restart would show, and the next run can start.
THEOREM QuietMeansSavedHolds == Spec => []QuietMeansSaved
  <1>1. Spec => []Saved
    <2>1. IInv => TypeOK /\ Ownership
      BY DEF IInv
    <2>2. QED
      BY <2>1, SavedInit, SavedStep, Inductive, PTL DEF Spec
  <1>2. IInv /\ Saved => QuietMeansSaved
    <2> SUFFICES ASSUME IInv, Saved, server = "serving", faults = 0, hpc = "idle", Working = {}
                 PROVE  lock = "free" /\ mem.status # "running" /\ disk.state = mem
      BY DEF QuietMeansSaved
    <2>1. lock # "held"
      BY DEF IInv, Leak, LockLeaksOnlyAtStart
    <2>2. \A r \in RunIds : io[r] = "none"
      BY DEF IInv, Ownership, Working
    <2>3. io[Handler] = "none"
      BY DEF IInv, Ownership
    <2>4. lock \in {"free", "held"}
      BY DEF IInv, TypeOK
    <2>5. QED
      BY <2>1, <2>2, <2>3, <2>4 DEF Saved, Actors
  <1>3. QED
    BY <1>1, <1>2, Inductive, PTL
==============================================================================
