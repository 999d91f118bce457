---------------------------- MODULE CompletionFeed ----------------------------
(***************************************************************************)
(* How a finished speed test reaches an open dashboard page.  Every test   *)
(* is a CheckSpeed.py process of its own: it stores its measurement, then  *)
(* bumps the completion sequence with a SELECT and an UPDATE               *)
(* (state_store.py; its lock is of one process, and neither database keeps *)
(* a second process out between the two).  The page (dashboard.js) polls   *)
(* the sequence and loads its metrics again when it has grown.  When a     *)
(* test the page follows is over (RunButton) it loads them too, and takes  *)
(* the sequence it then finds for its new baseline.                        *)
(***************************************************************************)
EXTENDS Naturals

CONSTANTS
    Scheduled,  \* the scheduler's test jobs, which may run at the same time
    Earlier,    \* bound: completions before the page was opened
    MaxTests,   \* bound: tests started
    MaxFaults   \* bound: failed metrics requests and failed completion records

Runner == {"manual"} \cup Scheduled
Loader == {"page", "watcher", "final"}

\* The ways a page can come to miss a test in one life of the sequence (a restore puts it back).
Cause  == {"baseline", "collision", "unrecorded", "load failed", "overtaken"}

ASSUME FeedAssumption ==
    /\ "manual" \notin Scheduled
    /\ Earlier \in Nat /\ MaxTests \in Nat /\ MaxFaults \in Nat

VARIABLES
    sequence,  \* speedtest_completion_state.sequence
    stored,    \* how many measurements were stored
    pc,        \* where each CheckSpeed.py is
    seen,      \* the sequence each of them read
    lastSeen,  \* lastSeenCompletionSequence
    shown,     \* how many of the measurements the page shows
    watch,     \* the watcher's request: where it is, rebaselineOnly, the answer
    loads,     \* the loadMetrics calls under way, and what they were answered
    tests,     \* how many tests were started
    faults,    \* how many requests or records failed
    gap        \* the first thing that may have put the page behind (history)

server == <<sequence, stored, pc, seen, tests>>
table  == <<shown, loads>>
vars   == <<server, lastSeen, watch, table, faults, gap>>

NoLoad  == [at |-> "none", data |-> 0]
Asked   == [at |-> "asked", data |-> 0]
NoWatch == [at |-> "none", rebaseline |-> FALSE, seq |-> 0]

\* The page as its script leaves it: its first metrics and its first baseline are
\* on their way.
Init ==
    /\ sequence \in 0 .. Earlier /\ stored = sequence
    /\ pc = [r \in Runner |-> "idle"]
    /\ seen = [r \in Runner |-> 0]
    /\ lastSeen = 0 /\ shown = 0
    /\ watch = [NoWatch EXCEPT !.at = "asked", !.rebaseline = TRUE]
    /\ loads = [l \in Loader |-> IF l = "page" THEN Asked ELSE NoLoad]
    /\ tests = 0 /\ faults = 0
    /\ gap = "none"

Fault == faults < MaxFaults /\ faults' = faults + 1

Missed(cause) == gap' = IF gap = "none" THEN cause ELSE gap

-----------------------------------------------------------------------------
(* CheckSpeed.py *)

Start(r) ==
    /\ pc[r] = "idle"
    /\ tests < MaxTests
    /\ tests' = tests + 1
    /\ pc' = [pc EXCEPT ![r] = "measuring"]
    /\ UNCHANGED <<sequence, stored, seen, lastSeen, watch, table, faults, gap>>

\* log_result stores the measurement, or every attempt failed.
Measure(r) ==
    /\ pc[r] = "measuring"
    /\ pc' = [pc EXCEPT ![r] = "measured"]
    /\ stored' \in {stored, stored + 1}
    /\ UNCHANGED <<sequence, seen, tests, lastSeen, watch, table, faults, gap>>

\* A test of the page leaves its end to be presented (see FinalLoad).
Exit(r) ==
    /\ pc' = [pc EXCEPT ![r] = IF r = "manual" THEN "over" ELSE "idle"]
    /\ seen' = [seen EXCEPT ![r] = 0]

\* record_speedtest_completion, its SELECT and its UPDATE
ReadSequence(r) ==
    /\ pc[r] = "measured"
    /\ pc' = [pc EXCEPT ![r] = "recording"]
    /\ seen' = [seen EXCEPT ![r] = sequence]
    /\ UNCHANGED <<sequence, stored, tests, lastSeen, watch, table, faults, gap>>

SameSequence(s) == s
NextSequence(s) == s + 1

WriteSequence(r) ==
    /\ pc[r] = "recording"
    /\ sequence' = NextSequence(seen[r])
    /\ Exit(r)
    /\ IF sequence # seen[r] THEN Missed("collision") ELSE UNCHANGED gap
    /\ UNCHANGED <<stored, tests, lastSeen, watch, table, faults>>

\* persist_completion_event only warns.
RecordRaises(r) ==
    /\ pc[r] \in {"measured", "recording"}
    /\ Fault
    /\ Exit(r)
    /\ Missed("unrecorded")
    /\ UNCHANGED <<sequence, stored, tests, lastSeen, watch, table>>

-----------------------------------------------------------------------------
(* loadMetrics *)

LoadAnswered(l) ==
    /\ loads[l].at = "asked"
    /\ loads' = [loads EXCEPT ![l] = [at |-> "answered", data |-> stored]]
    /\ UNCHANGED <<server, lastSeen, watch, shown, faults, gap>>

\* What its callers do once it is over, rendered or not: syncCompletionWatcher is
\* done, and syncRunStatus asks for a baseline, unless a request is under way.
AfterLoadForgets(l) ==
    watch' = CASE l = "final" /\ watch.at = "none" ->
                    [NoWatch EXCEPT !.at = "asked", !.rebaseline = TRUE]
               [] OTHER -> watch

AfterLoad(l) ==
    watch' = CASE l = "watcher" -> NoWatch
               [] l = "final" /\ watch.at = "none" ->
                    [NoWatch EXCEPT !.at = "asked", !.rebaseline = TRUE]
               [] OTHER -> watch

LoadRendered(l) ==
    /\ loads[l].at = "answered"
    /\ shown' = loads[l].data
    /\ loads' = [loads EXCEPT ![l] = NoLoad]
    /\ AfterLoad(l)
    /\ IF loads[l].data < shown THEN Missed("overtaken") ELSE UNCHANGED gap
    /\ UNCHANGED <<server, lastSeen, faults>>

LoadFails(l) ==
    /\ loads[l].at = "asked"
    /\ Fault
    /\ loads' = [loads EXCEPT ![l] = NoLoad]
    /\ AfterLoad(l)
    /\ Missed("load failed")
    /\ UNCHANGED <<server, lastSeen, shown>>

\* syncRunStatus sees the end of the run the page follows.  The worker publishes it
\* when the process is gone.  A page that does not follow the run sees nothing.
FinalLoad ==
    /\ pc["manual"] = "over" /\ loads["final"].at = "none"
    /\ pc' = [pc EXCEPT !["manual"] = "idle"]
    /\ loads' \in {loads, [loads EXCEPT !["final"] = Asked]}
    /\ UNCHANGED <<sequence, stored, seen, tests, lastSeen, watch, shown, faults, gap>>

-----------------------------------------------------------------------------
(* syncCompletionWatcher *)

WatchTimer ==
    /\ watch.at = "none"
    /\ watch' = [NoWatch EXCEPT !.at = "asked"]
    /\ UNCHANGED <<server, lastSeen, table, faults, gap>>

WatchAnswered ==
    /\ watch.at = "asked"
    /\ watch' = [watch EXCEPT !.at = "answered", !.seq = sequence]
    /\ UNCHANGED <<server, lastSeen, table, faults, gap>>

\* The next timer tries again.
WatchFails ==
    /\ watch.at = "asked"
    /\ Fault
    /\ watch' = NoWatch
    /\ UNCHANGED <<server, lastSeen, table, gap>>

Rebaselines == watch.rebaseline \/ lastSeen = 0

\* Some load has, or will be answered with, every measurement there is.
Covered ==
    \/ shown = stored
    \/ \E l \in Loader :
        \/ loads[l].at = "asked"
        \/ loads[l].at = "answered" /\ loads[l].data = stored

Rebaseline ==
    /\ watch.at = "answered" /\ Rebaselines
    /\ lastSeen' = watch.seq
    /\ watch' = NoWatch
    /\ IF watch.seq > lastSeen /\ ~Covered THEN Missed("baseline") ELSE UNCHANGED gap
    /\ UNCHANGED <<server, table, faults>>

News == watch.seq > lastSeen

LoadsNews ==
    /\ watch.at = "answered" /\ ~Rebaselines
    /\ News
    /\ lastSeen' = watch.seq
    /\ watch' = [watch EXCEPT !.at = "loading"]
    /\ loads' = [loads EXCEPT !["watcher"] = Asked]
    /\ UNCHANGED <<server, shown, faults, gap>>

NoNews ==
    /\ watch.at = "answered" /\ ~Rebaselines
    /\ ~News
    /\ watch' = NoWatch
    /\ UNCHANGED <<server, lastSeen, table, faults, gap>>

Check(r) == Measure(r) \/ ReadSequence(r) \/ WriteSequence(r) \/ RecordRaises(r)
Load(l)  == LoadAnswered(l) \/ LoadRendered(l) \/ LoadFails(l)
Handle   == Rebaseline \/ LoadsNews \/ NoNews

Next ==
    \/ \E r \in Runner : Start(r) \/ Check(r)
    \/ \E l \in Loader : Load(l)
    \/ FinalLoad
    \/ WatchTimer \/ WatchAnswered \/ WatchFails \/ Handle

Spec == Init /\ [][Next]_vars

(* Fairness: processes end, requests are answered and handled, the interval fires.
   No test has to start. *)
FairSpec ==
    /\ Spec
    /\ \A r \in Runner : WF_vars(Check(r))
    /\ \A l \in Loader : WF_vars(Load(l))
    /\ WF_vars(FinalLoad)
    /\ WF_vars(WatchTimer) /\ WF_vars(WatchAnswered \/ WatchFails) /\ WF_vars(Handle)

-----------------------------------------------------------------------------
(* Properties *)

\* No test bumps the sequence by more than one, and no page shows more than there is.
TypeOK ==
    /\ sequence \in 0 .. Earlier + tests /\ lastSeen \in 0 .. Earlier + tests
    /\ stored \in Nat /\ shown \in 0 .. stored
    /\ pc \in [Runner -> {"idle", "measuring", "measured", "recording", "over"}]
    /\ seen \in [Runner -> Nat]
    /\ watch \in [at : {"none", "asked", "answered", "loading"}, rebaseline : BOOLEAN,
                  seq : Nat]
    /\ loads \in [Loader -> [at : {"none", "asked", "answered"}, data : 0 .. stored]]
    /\ tests \in 0 .. MaxTests /\ faults \in 0 .. MaxFaults
    /\ gap \in Cause \cup {"none"}

\* Every request that could still show something is over, and every test recorded.
Quiet ==
    /\ watch.at = "none" /\ lastSeen = sequence
    /\ \A l \in Loader : loads[l].at = "none"
    /\ \A r \in Runner : pc[r] \notin {"measured", "recording", "over"}

\* A page with nothing left to ask for shows every stored measurement, unless it
\* took a baseline over a completion it had not loaded, two tests recorded their
\* completion at once, one could not record it, or its metrics failed or overtook
\* each other: tests and requests have no sixth way to pass it by.
QuietMeansShown == Quiet => shown = stored \/ gap # "none"

\* A stored measurement is shown in the end, but for the same causes.
PageCatchesUp == shown # stored ~> (shown = stored \/ gap # "none")
==============================================================================
