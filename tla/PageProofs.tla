------------------------------ MODULE PageProofs -------------------------------
(***************************************************************************)
(* Theorems about the two halves of a dashboard page.  Of CompletionFeed:  *)
(* that tests and requests have no sixth way to pass a page by             *)
(* (QuietMeansShown), and that the sequence grows no faster than tests are *)
(* started (TypeOK), for any number of test jobs, tests and failures.  Of  *)
(* RunButton: when the button is off, for any number of runs.              *)
(***************************************************************************)
EXTENDS CompletionFeed, RunButton, FiniteSetTheorems, TLAPS

-----------------------------------------------------------------------------
(* What the page has noticed of the tests *)


\* As much of the types as the argument needs.
Counts ==
    /\ sequence \in Nat /\ stored \in Nat /\ lastSeen \in Nat /\ shown \in 0 .. stored
    /\ seen \in [Runner -> Nat] /\ watch.seq \in Nat
    /\ pc = [r \in Runner |-> pc[r]]
    /\ loads = [l \in Loader |-> loads[l]]
    /\ \A l \in Loader : loads[l].data \in 0 .. stored

Recording == \E r \in Runner : pc[r] \in {"measured", "recording"}

\* As long as nothing went wrong, a measurement that no load covers is one that
\* is still to be recorded, or that the watcher has not seen the sequence of.
Noticed ==
    gap = "none" =>
        /\ lastSeen <= sequence
        /\ watch.at = "answered" => watch.seq <= sequence
        /\ Covered \/ lastSeen < sequence \/ Recording

IInv == Counts /\ Noticed

-----------------------------------------------------------------------------
LEMMA InductiveInit == Init => IInv
  <1> SUFFICES ASSUME Init PROVE IInv
    OBVIOUS
  <1>1. "page" \in Loader
    BY DEF Loader
  <1>2. loads["page"].at = "asked" /\ \A l \in Loader : loads[l].data = 0
    BY <1>1 DEF Init, Asked, NoLoad
  <1>3. watch.at = "asked" /\ watch.seq = 0
    BY DEF Init, NoWatch
  <1>4. sequence \in Nat
    BY FeedAssumption DEF Init
  <1>5. Counts
    BY <1>2, <1>3, <1>4 DEF Init, Counts
  <1>6. QED
    BY <1>1, <1>2, <1>3, <1>4, <1>5 DEF Init, IInv, Noticed, Covered

\* What loads there are, and what is shown, matters only to Covered.
LEMMA StepsOfTests ==
    ASSUME IInv, NEW r \in Runner, Start(r) \/ Check(r)
    PROVE  IInv'
  <1> USE DEF IInv, Counts, Noticed
  <1>1. CASE Start(r)
    <2>1. pc'[r] = "measuring" /\ \A q \in Runner \ {r} : pc'[q] = pc[q]
      BY <1>1 DEF Start
    <2>2. Recording => Recording'
      BY <1>1, <2>1 DEF Start, Recording
    <2>3. QED
      BY <1>1, <2>2 DEF Start, Covered, table
  <1>2. CASE Measure(r)
    <2>1. pc'[r] = "measured"
      BY <1>2 DEF Measure
    <2>2. QED
      BY <1>2, <2>1 DEF Measure, Recording, table
  <1>3. CASE ReadSequence(r)
    <2>1. pc'[r] = "recording"
      BY <1>3 DEF ReadSequence
    <2>2. QED
      BY <1>3, <2>1 DEF ReadSequence, Recording, table
  <1>4. CASE WriteSequence(r)
    <2>1. sequence' = seen[r] + 1 /\ UNCHANGED <<stored, lastSeen, watch, shown, loads>>
      BY <1>4 DEF WriteSequence, NextSequence, table
    <2>2. Counts'
      BY <1>4, <2>1 DEF WriteSequence, Exit
    <2>3. gap' = "none" => gap = "none" /\ sequence = seen[r]
      BY <1>4 DEF WriteSequence, Missed
    <2>4. QED
      BY <2>1, <2>2, <2>3
  <1>5. CASE RecordRaises(r)
    <2>1. gap' # "none"
      BY <1>5 DEF RecordRaises, Missed
    <2>2. Counts'
      BY <1>5 DEF RecordRaises, Exit, table
    <2>3. QED
      BY <2>1, <2>2
  <1>6. QED
    BY <1>1, <1>2, <1>3, <1>4, <1>5 DEF Check

LEMMA StepsOfLoads ==
    ASSUME IInv, NEW l \in Loader, Load(l)
    PROVE  IInv'
  <1> USE DEF IInv, Counts, Noticed
  <1>1. CASE LoadAnswered(l)
    <2>1. /\ loads'[l] = [at |-> "answered", data |-> stored]
          /\ \A k \in Loader \ {l} : loads'[k] = loads[k]
      BY <1>1 DEF LoadAnswered
    <2>2. UNCHANGED <<sequence, stored, pc, seen, lastSeen, watch, shown, gap>>
      BY <1>1 DEF LoadAnswered, server
    <2>3. Covered => Covered'
      BY <2>1, <2>2 DEF Covered
    <2>4. Recording => Recording'
      BY <2>2 DEF Recording
    <2>5. Counts'
      BY <1>1, <2>1, <2>2 DEF LoadAnswered
    <2>6. QED
      BY <2>2, <2>3, <2>4, <2>5
  <1>2. CASE LoadRendered(l)
    <2>1. /\ loads[l].at = "answered" /\ shown' = loads[l].data
          /\ loads' = [loads EXCEPT ![l] = NoLoad]
          /\ UNCHANGED <<sequence, stored, pc, seen, lastSeen>>
      BY <1>2 DEF LoadRendered, server
    <2>2. \A k \in Loader \ {l} : loads'[k] = loads[k]
      BY <2>1
    <2>3. watch'.seq \in Nat /\ (watch'.at = "answered" => watch' = watch)
      BY <1>2 DEF LoadRendered, AfterLoad, NoWatch
    <2>4. gap' = "none" => gap = "none" /\ shown <= shown'
      BY <1>2, <2>1 DEF LoadRendered, Missed
    <2>5. gap' = "none" /\ Covered => Covered'
      <3>1. CASE shown = stored
        <4>1. gap' = "none" => shown' = stored'
          BY <2>1, <2>4, <3>1
        <4>2. QED
          BY <4>1 DEF Covered
      <3>2. CASE loads[l].data = stored
        BY <2>1, <3>2 DEF Covered
      <3>3. ASSUME NEW k \in Loader \ {l},
                   loads[k].at = "asked" \/ (loads[k].at = "answered" /\ loads[k].data = stored)
            PROVE  Covered'
        BY <2>1, <2>2, <3>3 DEF Covered
      <3>4. QED
        BY <2>1, <3>1, <3>2, <3>3 DEF Covered
    <2>6. QED
      <3>1. Counts'
        BY <2>1, <2>3 DEF NoLoad
      <3>2. Noticed'
        BY <2>1, <2>3, <2>4, <2>5 DEF Recording
      <3>3. QED
        BY <3>1, <3>2
  <1>3. CASE LoadFails(l)
    <2>1. gap' # "none"
      BY <1>3 DEF LoadFails, Missed
    <2>2. watch'.seq \in Nat
      BY <1>3 DEF LoadFails, AfterLoad, NoWatch
    <2>3. loads' = [loads EXCEPT ![l] = NoLoad]
      BY <1>3 DEF LoadFails
    <2>4. UNCHANGED <<sequence, stored, pc, seen, lastSeen, shown>>
      BY <1>3 DEF LoadFails, server
    <2>5. QED
      BY <2>1, <2>2, <2>3, <2>4 DEF NoLoad
  <1>4. QED
    BY <1>1, <1>2, <1>3 DEF Load

LEMMA StepsOfPage ==
    ASSUME IInv, FinalLoad \/ WatchTimer \/ WatchAnswered \/ WatchFails \/ Handle
    PROVE  IInv'
  <1> USE DEF IInv, Counts, Noticed
  <1>1. CASE FinalLoad
    <2>1. /\ pc' = [pc EXCEPT !["manual"] = "idle"] /\ pc["manual"] = "over"
          /\ loads' = loads \/ loads' = [loads EXCEPT !["final"] = Asked]
          /\ UNCHANGED <<sequence, stored, seen, lastSeen, watch, shown, gap>>
      BY <1>1 DEF FinalLoad
    <2>2. Recording => Recording'
      BY <2>1 DEF Recording
    <2>3. Covered => Covered'
      BY <2>1 DEF Covered, Asked
    <2>4. Counts'
      BY <2>1 DEF Asked
    <2>5. QED
      BY <2>1, <2>2, <2>3, <2>4
  <1>2. CASE WatchTimer
    BY <1>2 DEF WatchTimer, server, table, NoWatch, Covered, Recording
  <1>3. CASE WatchAnswered
    BY <1>3 DEF WatchAnswered, server, table, Covered, Recording
  <1>4. CASE WatchFails
    BY <1>4 DEF WatchFails, server, table, NoWatch, Covered, Recording
  <1>5. CASE Rebaseline
    <2>1. /\ UNCHANGED <<sequence, stored, pc, seen, shown, loads>>
          /\ watch.at = "answered" /\ lastSeen' = watch.seq /\ watch' = NoWatch
      BY <1>5 DEF Rebaseline, server, table
    <2>2. gap' = "none" => gap = "none" /\ (Covered \/ ~(watch.seq > lastSeen))
      BY <1>5 DEF Rebaseline, Missed
    <2>3. QED
      BY <2>1, <2>2 DEF NoWatch, Covered, Recording
  <1>6. CASE LoadsNews
    <2>1. /\ UNCHANGED <<sequence, stored, pc, seen, shown, gap>>
          /\ watch.at = "answered" /\ lastSeen' = watch.seq
          /\ watch' = [watch EXCEPT !.at = "loading"]
          /\ loads' = [loads EXCEPT !["watcher"] = Asked]
      BY <1>6 DEF LoadsNews, server
    <2>2. "watcher" \in Loader
      BY DEF Loader
    <2>3. Counts' /\ Covered'
      BY <2>1, <2>2 DEF Asked, Covered
    <2>4. watch'.at # "answered"
      BY <1>6, <2>1 DEF LoadsNews
    <2>5. QED
      BY <2>1, <2>3, <2>4
  <1>7. CASE NoNews
    BY <1>7 DEF NoNews, server, table, NoWatch, Covered, Recording
  <1>8. QED
    BY <1>1, <1>2, <1>3, <1>4, <1>5, <1>6, <1>7 DEF Handle

LEMMA Inductive == Spec => []IInv
  <1>1. IInv /\ [Next]_vars => IInv'
    <2> SUFFICES ASSUME IInv, [Next]_vars PROVE IInv'
      OBVIOUS
    <2>1. CASE UNCHANGED vars
      BY <2>1 DEF vars, server, table, IInv, Counts, Noticed, Covered, Recording
    <2>2. QED
      BY <2>1, StepsOfTests, StepsOfLoads, StepsOfPage DEF Next
  <1>2. QED
    BY <1>1, InductiveInit, PTL DEF Spec

\* A quiet page shows every stored measurement, or one of the five causes did
\* occur, whatever number of tests ran at once and however requests overtook each
\* other.
THEOREM QuietMeansShownHolds == Spec => []QuietMeansShown
  <1>1. IInv => QuietMeansShown
    <2> SUFFICES ASSUME IInv, Quiet, gap = "none" PROVE shown = stored
      BY DEF QuietMeansShown
    <2>1. ~Recording
      BY DEF Quiet, Recording
    <2>2. Covered
      BY <2>1 DEF IInv, Counts, Noticed, Quiet
    <2>3. QED
      BY <2>2 DEF Covered, Quiet
  <1>2. QED
    BY <1>1, Inductive, PTL

-----------------------------------------------------------------------------
(* The sequence and the tests *)

Busy == {r \in Runner : pc[r] \in {"measuring", "measured", "recording"}}

\* Every test under way still has its one step of the sequence to come, whatever it read.
Bumps ==
    /\ IsFiniteSet(Busy) /\ watch.seq <= Earlier + tests
    /\ sequence + Cardinality(Busy) <= Earlier + tests
    /\ \A r \in Runner : pc[r] = "recording" => seen[r] + Cardinality(Busy) <= Earlier + tests

Typed == TypeOK /\ Bumps

LEMMA TypedInit == Init => Typed
  <1> SUFFICES ASSUME Init PROVE Typed
    OBVIOUS
  <1>1. Busy = {} /\ IsFiniteSet(Busy) /\ Cardinality(Busy) = 0
    BY FS_EmptySet DEF Init, Busy
  <1>2. Bumps
    BY <1>1, FeedAssumption DEF Init, Bumps, NoWatch
  <1>3. loads \in [Loader -> [at : {"none", "asked", "answered"}, data : 0 .. stored]]
    BY FeedAssumption DEF Init, Asked, NoLoad
  <1>4. watch \in [at : {"none", "asked", "answered", "loading"}, rebaseline : BOOLEAN, seq : Nat]
    BY DEF Init, NoWatch
  <1>5. QED
    BY <1>2, <1>3, <1>4, FeedAssumption DEF Init, Typed, TypeOK

\* A step that leaves the tests and the sequence alone.
LEMMA BumpsFrame ==
    ASSUME Bumps, UNCHANGED <<sequence, seen, tests>>, Busy' = Busy,
           watch'.seq <= Earlier + tests,
           \A r \in Runner : pc'[r] = "recording" => pc[r] = "recording"
    PROVE  Bumps'
  BY DEF Bumps

LEMMA Noted ==
    ASSUME TypeOK
    PROVE  /\ Fault => faults' \in 0 .. MaxFaults
           /\ \A cause \in Cause : Missed(cause) => gap' \in Cause \cup {"none"}
  BY FeedAssumption DEF TypeOK, Fault, Missed

LEMMA TypedTests ==
    ASSUME Typed, NEW r \in Runner, Start(r) \/ Check(r)
    PROVE  Typed'
  <1>0. /\ sequence \in Nat /\ tests \in Nat /\ Earlier \in Nat /\ MaxTests \in Nat /\ MaxFaults \in Nat
        /\ seen \in [Runner -> Nat] /\ stored \in Nat /\ faults \in 0 .. MaxFaults
        /\ pc \in [Runner -> {"idle", "measuring", "measured", "recording", "over"}]
        /\ IsFiniteSet(Busy) /\ Cardinality(Busy) \in Nat
        /\ watch.seq \in Nat
    BY FeedAssumption, FS_CardinalityType DEF Typed, TypeOK, Bumps
  <1>1. CASE Start(r)
    <2>1. /\ pc' = [pc EXCEPT ![r] = "measuring"] /\ r \notin Busy
          /\ tests' = tests + 1 /\ tests' \in 0 .. MaxTests
          /\ UNCHANGED <<sequence, stored, seen, lastSeen, watch, shown, loads, faults, gap>>
      BY <1>0, <1>1 DEF Start, table, Busy
    <2>2. Busy' = Busy \cup {r}
      BY <1>0, <2>1 DEF Busy
    <2>3. IsFiniteSet(Busy') /\ Cardinality(Busy') = Cardinality(Busy) + 1
      BY <1>0, <2>1, <2>2, FS_AddElement
    <2>4. Bumps'
      BY <1>0, <2>1, <2>3 DEF Typed, Bumps
    <2>5. TypeOK'
      BY <1>0, <2>1 DEF Typed, TypeOK
    <2>6. QED
      BY <2>4, <2>5 DEF Typed
  <1>2. CASE Measure(r)
    <2>1. /\ pc[r] = "measuring" /\ pc' = [pc EXCEPT ![r] = "measured"]
          /\ stored' \in {stored, stored + 1}
          /\ UNCHANGED <<sequence, seen, tests, lastSeen, watch, shown, loads, faults, gap>>
      BY <1>2 DEF Measure, table
    <2>2. Busy' = Busy
      BY <1>0, <2>1 DEF Busy
    <2>3. Bumps'
      BY <1>0, <2>1, <2>2 DEF Typed, Bumps
    <2>4. loads' \in [Loader -> [at : {"none", "asked", "answered"}, data : 0 .. stored']]
      BY <1>0, <2>1 DEF Typed, TypeOK
    <2>5. TypeOK'
      BY <1>0, <2>1, <2>4 DEF Typed, TypeOK
    <2>6. QED
      BY <2>3, <2>5 DEF Typed
  <1>3. CASE ReadSequence(r)
    <2>1. /\ pc[r] = "measured" /\ pc' = [pc EXCEPT ![r] = "recording"]
          /\ seen' = [seen EXCEPT ![r] = sequence]
          /\ UNCHANGED <<sequence, stored, tests, lastSeen, watch, shown, loads, faults, gap>>
      BY <1>3 DEF ReadSequence, table
    <2>2. Busy' = Busy
      BY <1>0, <2>1 DEF Busy
    <2>3. Bumps'
      BY <1>0, <2>1, <2>2 DEF Typed, Bumps
    <2>4. TypeOK'
      BY <1>0, <2>1 DEF Typed, TypeOK
    <2>5. QED
      BY <2>3, <2>4 DEF Typed
  <1>4. ASSUME WriteSequence(r) \/ RecordRaises(r) PROVE Typed'
    <2>1. /\ r \in Busy /\ pc'[r] \in {"idle", "over"}
          /\ pc' \in [Runner -> {"idle", "measuring", "measured", "recording", "over"}]
          /\ \A q \in Runner \ {r} : pc'[q] = pc[q]
          /\ seen' = [seen EXCEPT ![r] = 0]
          /\ UNCHANGED <<stored, tests, lastSeen, watch, shown, loads>>
      BY <1>0, <1>4 DEF WriteSequence, RecordRaises, Exit, table, Busy
    <2>2. Busy' = Busy \ {r}
      BY <1>0, <2>1 DEF Busy
    <2>3. IsFiniteSet(Busy') /\ Cardinality(Busy') = Cardinality(Busy) - 1
      BY <1>0, <2>1, <2>2, FS_RemoveElement
    <2>4. sequence' \in Nat /\ sequence' + Cardinality(Busy') <= Earlier + tests
      BY <1>0, <1>4, <2>3 DEF WriteSequence, RecordRaises, NextSequence, Typed, Bumps
    <2>5. Cardinality(Busy') \in Nat
      BY <2>3, FS_CardinalityType
    <2>6. Bumps'
      BY <1>0, <2>1, <2>3, <2>4 DEF Typed, Bumps
    <2>7. faults' \in 0 .. MaxFaults /\ gap' \in Cause \cup {"none"}
      <3>1. TypeOK /\ faults \in 0 .. MaxFaults /\ gap \in Cause \cup {"none"}
            /\ "collision" \in Cause /\ "unrecorded" \in Cause
        BY DEF Typed, TypeOK, Cause
      <3>2. CASE WriteSequence(r)
        BY <3>1, <3>2, Noted DEF WriteSequence
      <3>3. CASE RecordRaises(r)
        BY <3>1, <3>3, Noted DEF RecordRaises
      <3>4. QED
        BY <1>4, <3>2, <3>3
    <2>8. sequence' \in 0 .. Earlier + tests'
      BY <1>0, <2>1, <2>4, <2>5
    <2>9. TypeOK'
      BY <1>0, <2>1, <2>7, <2>8 DEF Typed, TypeOK
    <2>10. QED
      BY <2>6, <2>9 DEF Typed
  <1>5. QED
    BY <1>1, <1>2, <1>3, <1>4 DEF Check

LEMMA TypedPage ==
    ASSUME Typed,
           \/ \E l \in Loader : Load(l)
           \/ FinalLoad \/ WatchTimer \/ WatchAnswered \/ WatchFails \/ Handle \/ UNCHANGED vars
    PROVE  Typed'
  <1> DEFINE Loads(n) == [Loader -> [at : {"none", "asked", "answered"}, data : 0 .. n]]
             Watches == [at : {"none", "asked", "answered", "loading"}, rebaseline : BOOLEAN, seq : Nat]
  <1>0. /\ sequence \in 0 .. Earlier + tests /\ tests \in Nat /\ Earlier \in Nat /\ MaxFaults \in Nat
        /\ stored \in Nat /\ faults \in 0 .. MaxFaults /\ loads \in Loads(stored) /\ watch \in Watches
        /\ watch.seq \in 0 .. Earlier + tests /\ gap \in Cause \cup {"none"}
        /\ lastSeen \in 0 .. Earlier + tests /\ shown \in 0 .. stored
        /\ pc \in [Runner -> {"idle", "measuring", "measured", "recording", "over"}]
    BY FeedAssumption DEF Typed, TypeOK, Bumps
  <1>1. UNCHANGED <<sequence, stored, seen, tests>>
    BY DEF Load, LoadAnswered, LoadRendered, LoadFails, FinalLoad, WatchTimer, WatchAnswered,
           WatchFails, Handle, Rebaseline, LoadsNews, NoNews, server, vars
  <1>2. faults' \in 0 .. MaxFaults /\ gap' \in Cause \cup {"none"}
    <2>1. TypeOK /\ "overtaken" \in Cause /\ "load failed" \in Cause /\ "baseline" \in Cause
      BY DEF Typed, Cause
    <2>2. ASSUME NEW l \in Loader, Load(l)
          PROVE  faults' \in 0 .. MaxFaults /\ gap' \in Cause \cup {"none"}
      BY <1>0, <2>1, <2>2, Noted DEF Load, LoadAnswered, LoadRendered, LoadFails
    <2>3. QED
      BY <1>0, <2>1, <2>2, Noted
         DEF FinalLoad, WatchTimer, WatchAnswered, WatchFails, Handle, Rebaseline, LoadsNews, NoNews, vars
  <1>3. NoWatch \in Watches /\ NoWatch.seq = 0 /\ NoLoad \in [at : {"none", "asked", "answered"}, data : 0 .. stored]
        /\ Asked \in [at : {"none", "asked", "answered"}, data : 0 .. stored]
    BY <1>0 DEF NoWatch, NoLoad, Asked
  <1>4. \A b \in BOOLEAN : LET w == [at |-> "asked", rebaseline |-> b, seq |-> 0]
                            IN  w \in Watches /\ w.seq = 0
    OBVIOUS
  <1>5. 0 \in 0 .. Earlier + tests
    BY <1>0
  <1>6. ASSUME NEW l \in Loader, Load(l)
        PROVE  /\ loads' \in Loads(stored) /\ shown' \in 0 .. stored
               /\ watch' \in Watches /\ watch'.seq \in 0 .. Earlier + tests
    <2>1. loads' \in Loads(stored)
      <3>1. CASE LoadAnswered(l)
        BY <1>0, <3>1 DEF LoadAnswered
      <3>2. CASE LoadRendered(l) \/ LoadFails(l)
        BY <1>0, <1>3, <3>2 DEF LoadRendered, LoadFails
      <3>3. QED
        BY <1>6, <3>1, <3>2 DEF Load
    <2>2. shown' \in 0 .. stored
      <3>1. CASE LoadRendered(l)
        BY <1>0, <3>1 DEF LoadRendered
      <3>2. CASE LoadAnswered(l) \/ LoadFails(l)
        BY <1>0, <3>2 DEF LoadAnswered, LoadFails
      <3>3. QED
        BY <1>6, <3>1, <3>2 DEF Load
    <2>3. watch' = watch \/ watch' = NoWatch \/ watch' = [at |-> "asked", rebaseline |-> TRUE, seq |-> 0]
      BY <1>6 DEF Load, LoadAnswered, LoadRendered, LoadFails, AfterLoad, NoWatch
    <2>4. watch' \in Watches /\ watch'.seq \in 0 .. Earlier + tests
      BY <1>0, <1>3, <1>4, <1>5, <2>3
    <2>5. QED
      BY <2>1, <2>2, <2>4
  <1>7. ASSUME WatchTimer \/ WatchAnswered \/ WatchFails \/ Handle \/ UNCHANGED vars
        PROVE  /\ loads' \in Loads(stored) /\ shown' = shown
               /\ watch' \in Watches /\ watch'.seq \in 0 .. Earlier + tests
    <2>1. loads' \in Loads(stored) /\ shown' = shown
      BY <1>0, <1>3, <1>7 DEF WatchTimer, WatchAnswered, WatchFails, Handle, Rebaseline, LoadsNews,
                              NoNews, table, vars
    <2>2. \/ watch' = watch \/ watch' = NoWatch
          \/ watch' = [watch EXCEPT !.at = "loading"]
          \/ watch' = [at |-> "asked", rebaseline |-> FALSE, seq |-> 0]
          \/ watch' = [watch EXCEPT !.at = "answered", !.seq = sequence]
      BY <1>7 DEF WatchTimer, WatchAnswered, WatchFails, Handle, Rebaseline, LoadsNews, NoNews, vars, NoWatch
    <2>3. /\ [watch EXCEPT !.at = "loading"] \in Watches
          /\ [watch EXCEPT !.at = "loading"].seq = watch.seq
      BY <1>0
    <2>4. /\ [watch EXCEPT !.at = "answered", !.seq = sequence] \in Watches
          /\ [watch EXCEPT !.at = "answered", !.seq = sequence].seq = sequence
      <3>1. sequence \in Nat /\ watch \in Watches
        BY <1>0
      <3>2. QED
        BY <3>1
    <2>5. watch' \in Watches /\ watch'.seq \in 0 .. Earlier + tests
      BY <1>0, <1>3, <1>4, <1>5, <2>2, <2>3, <2>4
    <2>6. QED
      BY <2>1, <2>5
  <1>8. ASSUME FinalLoad
        PROVE  /\ loads' \in Loads(stored) /\ UNCHANGED <<shown, watch>>
    BY <1>0, <1>3, <1>8 DEF FinalLoad, Loader
  <1>9. /\ loads' \in Loads(stored) /\ shown' \in 0 .. stored
        /\ watch' \in Watches /\ watch'.seq \in 0 .. Earlier + tests
    BY <1>0, <1>6, <1>7, <1>8
  <1>10. lastSeen' \in 0 .. Earlier + tests
    BY <1>0 DEF Load, LoadAnswered, LoadRendered, LoadFails, FinalLoad, WatchTimer, WatchAnswered,
                WatchFails, Handle, Rebaseline, LoadsNews, NoNews, vars
  <1>11. pc' = pc \/ (pc["manual"] = "over" /\ pc' = [pc EXCEPT !["manual"] = "idle"])
    BY DEF Load, LoadAnswered, LoadRendered, LoadFails, FinalLoad, WatchTimer, WatchAnswered,
           WatchFails, Handle, Rebaseline, LoadsNews, NoNews, server, vars
  <1>12. /\ pc' \in [Runner -> {"idle", "measuring", "measured", "recording", "over"}]
         /\ Busy' = Busy
         /\ \A r \in Runner : pc'[r] = "recording" => pc[r] = "recording"
    BY <1>0, <1>11 DEF Busy
  <1>13. Bumps'
    BY <1>0, <1>1, <1>9, <1>12, BumpsFrame DEF Typed
  <1>14. TypeOK'
    BY <1>0, <1>1, <1>2, <1>9, <1>10, <1>12 DEF Typed, TypeOK
  <1>15. QED
    BY <1>13, <1>14 DEF Typed

\* Completions of several processes at once may lose a step of the sequence and never add
\* one: it is at most what was there when the page was opened and one for each test started.
\* What the page saw and shows is within what there is.
THEOREM TypeCorrect == Spec => []TypeOK
  <1>1. Typed /\ [Next]_vars => Typed'
    BY TypedTests, TypedPage DEF Next
  <1>2. Typed => TypeOK
    BY DEF Typed
  <1>3. QED
    BY <1>1, <1>2, TypedInit, PTL DEF Spec

-----------------------------------------------------------------------------
(* The run button *)

InFlight == poll.at \in {"asked", "answered"}

\* The button is off while the page polls; only the first request does not
\* announce, and it is the first that joins.
Following ==
    /\ polling => busy /\ post = "none"
    /\ InFlight /\ poll.announce => polling
    /\ InFlight /\ ~poll.announce => ~joined
    /\ StuckOnlyFromFirstAnswer

\* What an answer says of the run on the server.
Answers ==
    /\ awaited <= run.n
    /\ poll.at = "answered" =>
          /\ poll.n <= run.n
          /\ poll.status = "ended" /\ poll.n = run.n => run.status = "ended"
          /\ poll.announce => awaited <= poll.n

\* OffWhileFollowed, also while a second POST is on its way.
Off ==
    run.status = "running" /\ awaited = run.n /\ post # "follow"
        => busy \/ dropped = awaited

ButtonInv == ButtonTypeOK /\ Following /\ Answers /\ Off

-----------------------------------------------------------------------------
LEMMA ButtonInvInit == ButtonInit => ButtonInv
  <1> SUFFICES ASSUME ButtonInit PROVE ButtonInv
    OBVIOUS
  <1>1. /\ run \in [n : Nat, status : {"idle", "running", "ended"}, locked : BOOLEAN]
        /\ run.status = "running" => run.locked
    <2>1. CASE run = [n |-> 0, status |-> "idle", locked |-> FALSE]
      BY <2>1
    <2>2. CASE run = [n |-> 1, status |-> "running", locked |-> TRUE]
      BY <2>2
    <2>3. CASE run = [n |-> 1, status |-> "ended", locked |-> FALSE]
      BY <2>3
    <2>4. QED
      BY <2>1, <2>2, <2>3 DEF ButtonInit
  <1>2. poll \in [at : {"none", "asked", "answered", "presenting"}, announce : BOOLEAN,
                  n : Nat, status : {"idle", "running", "ended"}]
    BY DEF ButtonInit, NoPoll
  <1>3. poll.at = "asked" /\ ~poll.announce
    BY DEF ButtonInit, NoPoll
  <1>4. 0 <= run.n /\ (run.status = "running" => run.n = 1)
    BY DEF ButtonInit
  <1>5. QED
    BY <1>1, <1>2, <1>3, <1>4
       DEF ButtonInit, ButtonInv, ButtonTypeOK, Following, StuckOnlyFromFirstAnswer, InFlight,
           Answers, Off

LEMMA ButtonInvStep == ButtonInv /\ [ButtonNext]_buttonVars => ButtonInv'
  <1> SUFFICES ASSUME ButtonInv, [ButtonNext]_buttonVars PROVE ButtonInv'
    OBVIOUS
  <1> USE DEF ButtonInv, ButtonTypeOK, Following, StuckOnlyFromFirstAnswer, InFlight, Answers, Off
  <1>1. CASE OtherPageStarts
    BY <1>1 DEF OtherPageStarts, StartRun
  <1>2. CASE RunEnds
    BY <1>2 DEF RunEnds
  <1>3. CASE LockFreed
    BY <1>3 DEF LockFreed, Over
  <1>4. CASE Click
    BY <1>4 DEF Click
  <1>5. CASE PostAnswered
    <2>0. post = "sent" /\ UNCHANGED <<poll, polling, busy, handled, joined, dropped>>
      BY <1>5 DEF PostAnswered
    <2>1. CASE StartRun /\ Followed
      BY <2>0, <2>1 DEF StartRun, Followed
    <2>2. CASE run.status = "running" /\ UNCHANGED run /\ Followed
      BY <2>0, <2>2 DEF Followed
    <2>3. CASE Refused
      BY <2>0, <2>3 DEF Refused
    <2>4. QED
      BY <1>5, <2>1, <2>2, <2>3 DEF PostAnswered
  <1>6. CASE PostFollowed
    BY <1>6 DEF PostFollowed, Ask, NoPoll
  <1>7. CASE PostRefused
    BY <1>7 DEF PostRefused
  <1>8. CASE PollTimer
    BY <1>8 DEF PollTimer, Ask, NoPoll
  <1>9. CASE PollAnswered
    <2>1. /\ poll'.at = "answered" /\ poll'.n = run.n /\ poll'.status = run.status
          /\ poll'.announce = poll.announce
          /\ poll' \in [at : {"none", "asked", "answered", "presenting"},
                        announce : BOOLEAN, n : Nat,
                        status : {"idle", "running", "ended"}]
      BY <1>9 DEF PollAnswered
    <2>2. QED
      BY <1>9, <2>1 DEF PollAnswered
  <1>10. CASE PollFails
    BY <1>10 DEF PollFails, NoPoll
  <1>11. CASE PollRunning
    BY <1>11 DEF PollRunning, NoPoll
  <1>12. CASE PollIdle
    BY <1>12 DEF PollIdle, NoPoll
  <1>13. CASE PollEnded
    <2>1. /\ poll.at = "answered" /\ poll.status = "ended"
          /\ polling' = FALSE /\ busy' = FALSE /\ UNCHANGED <<run, post, awaited, joined>>
      BY <1>13 DEF PollEnded, BusyAfterEnd
    <2>2. CASE Presents
      <3>1. /\ poll' = [poll EXCEPT !.at = "presenting"] /\ handled' = poll.n
            /\ dropped' = dropped
        BY <1>13, <2>2 DEF PollEnded
      <3>2. /\ poll'.at = "presenting" /\ handled' \in Nat
            /\ poll' \in [at : {"none", "asked", "answered", "presenting"},
                          announce : BOOLEAN, n : Nat,
                          status : {"idle", "running", "ended"}]
        BY <3>1
      <3>3. ButtonTypeOK' /\ Following' /\ Answers'
        BY <2>1, <3>1, <3>2
      <3>4. Off'
        BY <2>1, <2>2, <3>1 DEF Presents
      <3>5. QED
        BY <3>3, <3>4
    <2>3. CASE ~Presents
      <3>1. /\ poll' = NoPoll /\ handled' = handled
            /\ dropped' = IF polling /\ ~poll.announce THEN awaited ELSE dropped
        BY <1>13, <2>3 DEF PollEnded
      <3>2. /\ poll'.at = "none" /\ dropped' \in Nat
            /\ poll' \in [at : {"none", "asked", "answered", "presenting"},
                          announce : BOOLEAN, n : Nat,
                          status : {"idle", "running", "ended"}]
        BY <3>1 DEF NoPoll
      <3>3. ButtonTypeOK' /\ Following' /\ Answers'
        BY <2>1, <3>1, <3>2
      <3>4. Off'
        BY <2>1, <3>1
      <3>5. QED
        BY <3>3, <3>4
    <2>4. QED
      BY <2>2, <2>3
  <1>14. CASE Presented
    BY <1>14 DEF Presented, NoPoll
  <1>15. CASE UNCHANGED buttonVars
    BY <1>15 DEF buttonVars
  <1>16. QED
    BY <1>1, <1>2, <1>3, <1>4, <1>5, <1>6, <1>7, <1>8, <1>9, <1>10, <1>11, <1>12,
       <1>13, <1>14, <1>15 DEF ButtonNext, HandleStatus

LEMMA ButtonInductive == ButtonSpec => []ButtonInv
  BY ButtonInvInit, ButtonInvStep, PTL DEF ButtonSpec

\* The lock is held as long as a run is in progress.
THEOREM ButtonTypeCorrect == ButtonSpec => []ButtonTypeOK
  <1>1. ButtonInv => ButtonTypeOK
    BY DEF ButtonInv
  <1>2. QED
    BY <1>1, ButtonInductive, PTL

\* A page that leaves its button off without polling for the end of the run is one
\* that was opened during a run; no order of clicks, answers and runs of other
\* pages brings any other page there.
THEOREM StuckOnlyFromFirstAnswerHolds == ButtonSpec => []StuckOnlyFromFirstAnswer
  <1>1. ButtonInv => StuckOnlyFromFirstAnswer
    BY DEF ButtonInv, Following
  <1>2. QED
    BY <1>1, ButtonInductive, PTL

\* The button is off during the run the page follows, whatever answers about
\* earlier runs are still on their way, but for that of its first request.
THEOREM OffWhileFollowedHolds == ButtonSpec => []OffWhileFollowed
  <1>1. ButtonInv => OffWhileFollowed
    BY DEF ButtonInv, Off, OffWhileFollowed
  <1>2. QED
    BY <1>1, ButtonInductive, PTL
==============================================================================
