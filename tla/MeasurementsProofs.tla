------------------------- MODULE MeasurementsProofs -------------------------
(***************************************************************************)
(* Theorems about Measurements, for any number of runs, retries and old    *)
(* tests, with or without a preferred server, and about Records, for any   *)
(* day, week, schedules, times a test may take and bounds.                 *)
(***************************************************************************)
EXTENDS Measurements, Records, FiniteSetTheorems, SequenceTheorems, WellFoundedInduction, TLAPS

-----------------------------------------------------------------------------
(* Types *)

LEMMA ServerOfType ==
    ASSUME NEW attempt
    PROVE  ServerOf(attempt) \in Server
  BY DEF ServerOf, Server

\* One more attempt is at the end of the sequence, and changes none before.
LEMMA OneMore ==
    ASSUME NEW seq \in Seq(Attempt), NEW ok \in BOOLEAN
    PROVE  LET more == Append(seq, [server |-> ServerOf(Len(seq) + 1), ok |-> ok])
           IN  /\ more \in Seq(Attempt)
               /\ Len(seq) \in Nat
               /\ Len(more) = Len(seq) + 1
               /\ \A i \in 1 .. Len(seq) : more[i] = seq[i]
               /\ more[Len(more)] = [server |-> ServerOf(Len(seq) + 1), ok |-> ok]
  <1>1. [server |-> ServerOf(Len(seq) + 1), ok |-> ok] \in Attempt
    BY ServerOfType DEF Attempt
  <1>2. QED
    BY <1>1, AppendProperties, LenProperties

LEMMA FingerprintTypes ==
    ASSUME NEW t \in Tests
    PROVE  OfRun(t) \in Fingerprint /\ OfLog(t) \in Fingerprint
  BY DEF OfRun, OfLog, Fingerprint

LEMMA StepKeepsTypes == TypeOK /\ [Next]_vars => TypeOK'
  <1> SUFFICES ASSUME TypeOK, [Next]_vars PROVE TypeOK'
    OBVIOUS
  <1> USE DEF TypeOK, stored, importing
  <1>1. ASSUME NEW r \in Runs, RunStep(r) PROVE TypeOK'
    <2>1. CASE Begin(r)
      BY <2>1 DEF Begin, Goto, RunPC
    <2>2. CASE SetupFails(r)
      BY <2>2 DEF SetupFails, Ends, Goto, RunPC
    <2>3. CASE GiveUp(r)
      BY <2>3 DEF GiveUp, Ends, Goto, RunPC
    <2>4. CASE WriteLog(r)
      BY <2>4 DEF WriteLog, Goto, RunPC, Tests
    <2>5. CASE WriteLogRaises(r)
      BY <2>5 DEF WriteLogRaises, Ends, Goto, RunPC
    <2>6. CASE Insert(r)
      BY <2>6, FingerprintTypes DEF Insert, Goto, RunPC, Tests
    <2>7. CASE InsertRaises(r)
      BY <2>7, FingerprintTypes DEF InsertRaises, Ends, Goto, RunPC, Tests
    <2>8. CASE AlertRaises(r)
      BY <2>8 DEF AlertRaises, Ends, Goto, RunPC
    <2>9. CASE Exit(r)
      BY <2>9 DEF Exit, Goto, RunPC
    <2>10. CASE Kill(r)
      BY <2>10 DEF Kill, RunPC
    <2>11. ASSUME NEW ok \in BOOLEAN, Try(r, ok) PROVE TypeOK'
      <3>1. tries' \in [Runs -> Seq(Attempt)] /\ \A s \in Runs : Len(tries'[s]) <= MaxRetries
        BY <2>11, OneMore, ConstantsAssumption DEF Try
      <3>2. QED
        BY <2>11, <3>1 DEF Try, RunPC
    <2>12. ASSUME NEW violations \in BOOLEAN, Alert(r, violations) PROVE TypeOK'
      BY <2>12 DEF Alert, Ends, Goto, RunPC
    <2>13. ASSUME NEW written \in BOOLEAN, Complete(r, written) PROVE TypeOK'
      <3>1. completion' \in [Runs -> {"none", "success", "failed"}]
        BY <2>13 DEF Complete
      <3>2. QED
        BY <2>13, <3>1 DEF Complete, Goto, RunPC
    <2>14. QED
      BY <1>1, <2>1, <2>2, <2>3, <2>4, <2>5, <2>6, <2>7, <2>8, <2>9, <2>10, <2>11, <2>12,
         <2>13 DEF RunStep
  <1>2. CASE Import
    <2>1. CASE ImportBegins
      BY <2>1 DEF ImportBegins, running
    <2>2. CASE ImportRaises
      BY <2>2, FingerprintTypes DEF ImportRaises, running
    <2>3. CASE ImportEnds
      BY <2>3 DEF ImportEnds, running
    <2>4. ASSUME NEW t \in todo, ImportEntry(t) PROVE TypeOK'
      BY <2>4, FingerprintTypes DEF ImportEntry, running
    <2>5. QED
      BY <1>2, <2>1, <2>2, <2>3, <2>4 DEF Import
  <1>3. CASE UNCHANGED vars
    BY <1>3 DEF vars
  <1>4. QED
    BY <1>1, <1>2, <1>3 DEF Next

\* The state stays in its types, and no run makes more attempts than are configured.
THEOREM TypeCorrect == Spec => []TypeOK
  <1>1. Init => TypeOK
    <2>1. <<>> \in Seq(Attempt) /\ Len(<<>>) = 0
      BY EmptySeq
    <2>2. ASSUME Init PROVE /\ tries \in [Runs -> Seq(Attempt)]
                            /\ \A r \in Runs : Len(tries[r]) <= MaxRetries
      BY <2>1, <2>2, ConstantsAssumption DEF Init
    <2>3. ASSUME Init
          PROVE  /\ pc \in [Runs -> RunPC]
                 /\ completion \in [Runs -> {"none", "success", "failed"}]
                 /\ exit \in [Runs -> {"none", "success", "failed"}]
      BY <2>3 DEF Init, RunPC
    <2>4. ASSUME Init
          PROVE  /\ log \subseteq Tests /\ rows \subseteq Fingerprint /\ alerted \subseteq Runs
                 /\ importer \in {"off", "importing", "ended", "failed"}
                 /\ todo \subseteq Tests /\ read \subseteq Tests /\ covered \subseteq Tests
                 /\ imports \in Nat /\ served \in BOOLEAN
      BY <2>4 DEF Init, Tests
    <2>5. QED
      BY <2>2, <2>3, <2>4 DEF TypeOK
  <1>2. QED
    BY <1>1, StepKeepsTypes, PTL DEF Spec

-----------------------------------------------------------------------------
(* What is reported is stored, what was imported is shown *)

\* A run that has come as far as the alert has its entry and its row.
Stored(r) == r \in log /\ OfRun(r) \in rows

StoredInv == \A r \in Runs : /\ pc[r] = "alerting" \/ Reported(r) => Stored(r)
                             /\ pc[r] = "inserting" => r \in log

\* Every old test, and what the imports have read and inserted, has its row.
ImportInv ==
    /\ \A t \in covered : OfLog(t) \in rows
    /\ served => log \cap OldTests \subseteq covered
    /\ importer = "importing" =>
           /\ log \cap OldTests \subseteq read
           /\ \A t \in read \ todo : OfLog(t) \in rows

\* Log and table only grow.
LEMMA StepGrows ==
    ASSUME [Next]_vars
    PROVE  log \subseteq log' /\ rows \subseteq rows'
  <1>1. ASSUME NEW r \in Runs, RunStep(r) PROVE log \subseteq log' /\ rows \subseteq rows'
    BY <1>1 DEF RunStep, Begin, SetupFails, GiveUp, WriteLog, WriteLogRaises, Insert,
         InsertRaises, AlertRaises, Exit, Kill, Try, Alert, Complete, stored
  <1>2. CASE Import
    BY <1>2 DEF Import, ImportBegins, ImportRaises, ImportEnds, ImportEntry, running
  <1>3. QED
    BY <1>1, <1>2 DEF Next, vars, stored

LEMMA StepKeepsStored == TypeOK /\ StoredInv /\ [Next]_vars => StoredInv'
  <1> SUFFICES ASSUME TypeOK, StoredInv, [Next]_vars PROVE StoredInv'
    OBVIOUS
  <1>0. log \subseteq log' /\ rows \subseteq rows'
    BY StepGrows
  <1> SUFFICES ASSUME NEW q \in Runs
               PROVE  /\ (pc[q] = "alerting" \/ Reported(q) => Stored(q))'
                      /\ (pc[q] = "inserting" => q \in log)'
    BY DEF StoredInv
  <1>1. /\ pc[q] = "alerting" \/ Reported(q) => Stored(q)
        /\ pc[q] = "inserting" => q \in log
    BY DEF StoredInv
  <1>2. Stored(q) => Stored(q)'
    BY <1>0 DEF Stored
  <1>3. CASE UNCHANGED <<pc, alerted, exit, completion>>
    BY <1>0, <1>1, <1>2, <1>3 DEF Reported
  <1>4. ASSUME NEW r \in Runs, RunStep(r), r # q PROVE UNCHANGED <<pc[q], exit[q], completion[q]>>
                                                    /\ (q \in alerted' => q \in alerted)
    BY <1>4 DEF TypeOK, RunStep, Begin, SetupFails, GiveUp, WriteLog, WriteLogRaises, Insert,
         InsertRaises, AlertRaises, Exit, Kill, Try, Alert, Complete, Ends, Goto
  <1>5. CASE RunStep(q)
    <2> USE <1>1, <1>2 DEF TypeOK, Reported
    <2>1. CASE Begin(q) \/ Exit(q)
      BY <2>1 DEF Begin, Exit, Goto
    <2>2. CASE SetupFails(q) \/ GiveUp(q) \/ WriteLogRaises(q)
      BY <2>2 DEF SetupFails, GiveUp, WriteLogRaises, Ends, Goto
    <2>3. CASE WriteLog(q)
      BY <2>3 DEF WriteLog, Goto
    <2>4. CASE Insert(q)
      BY <2>4 DEF Insert, Goto, Stored
    <2>5. CASE InsertRaises(q) \/ AlertRaises(q)
      BY <2>5 DEF InsertRaises, AlertRaises, Ends, Goto
    <2>6. CASE Kill(q)
      BY <2>6 DEF Kill
    <2>7. ASSUME NEW yes \in BOOLEAN, Try(q, yes) \/ Complete(q, yes)
          PROVE  /\ (pc[q] = "alerting" \/ Reported(q) => Stored(q))'
                 /\ (pc[q] = "inserting" => q \in log)'
      BY <2>7 DEF Try, Complete, Goto
    <2>8. ASSUME NEW yes \in BOOLEAN, Alert(q, yes)
          PROVE  /\ (pc[q] = "alerting" \/ Reported(q) => Stored(q))'
                 /\ (pc[q] = "inserting" => q \in log)'
      BY <2>8 DEF Alert, Ends, Goto
    <2>9. QED
      BY <1>5, <2>1, <2>2, <2>3, <2>4, <2>5, <2>6, <2>7, <2>8 DEF RunStep
  <1>6. CASE Import
    BY <1>3, <1>6 DEF Import, ImportBegins, ImportRaises, ImportEnds, ImportEntry, running
  <1>7. ASSUME NEW r \in Runs, RunStep(r), r # q
        PROVE  /\ (pc[q] = "alerting" \/ Reported(q) => Stored(q))'
               /\ (pc[q] = "inserting" => q \in log)'
    BY <1>0, <1>1, <1>2, <1>4, <1>7 DEF Reported
  <1>8. QED
    BY <1>3, <1>5, <1>6, <1>7 DEF Next, vars

LEMMA StepKeepsImport == TypeOK /\ ImportInv /\ [Next]_vars => ImportInv'
  <1> SUFFICES ASSUME TypeOK, ImportInv, [Next]_vars PROVE ImportInv'
    OBVIOUS
  <1>0. log \subseteq log' /\ rows \subseteq rows'
    BY StepGrows
  <1>1. ASSUME NEW r \in Runs, RunStep(r) PROVE ImportInv'
    <2>1. log' \cap OldTests = log \cap OldTests
      BY <1>1, ConstantsAssumption DEF RunStep, Begin, SetupFails, GiveUp, WriteLog,
         WriteLogRaises, Insert, InsertRaises, AlertRaises, Exit, Kill, Try, Alert, Complete, stored
    <2>2. UNCHANGED importing
      BY <1>1 DEF RunStep, Begin, SetupFails, GiveUp, WriteLog,
         WriteLogRaises, Insert, InsertRaises, AlertRaises, Exit, Kill, Try, Alert, Complete
    <2>3. QED
      BY <1>0, <2>1, <2>2 DEF ImportInv, importing
  <1>2. CASE ImportBegins
    BY <1>2 DEF ImportBegins, ImportInv, running
  <1>3. CASE ImportRaises
    BY <1>0, <1>3 DEF ImportRaises, ImportInv, running
  <1>4. CASE ImportEnds
    BY <1>4 DEF ImportEnds, ImportInv, running
  <1>5. ASSUME NEW t \in todo, ImportEntry(t) PROVE ImportInv'
    BY <1>0, <1>5 DEF ImportEntry, ImportInv, running
  <1>6. CASE UNCHANGED vars
    BY <1>6 DEF vars, stored, importing, ImportInv
  <1>7. QED
    BY <1>1, <1>2, <1>3, <1>4, <1>5, <1>6 DEF Next, Import

LEMMA Inductive == Spec => [](TypeOK /\ StoredInv /\ ImportInv)
  <1>1. Init => StoredInv /\ ImportInv
    BY DEF Init, StoredInv, ImportInv, Reported
  <1>2. QED
    BY <1>1, TypeCorrect, StepKeepsStored, StepKeepsImport, PTL DEF Spec

\* Whatever a run reports is in the log and in the table.
THEOREM ReportedIsStoredHolds == Spec => []ReportedIsStored
  <1>1. StoredInv => ReportedIsStored
    BY DEF StoredInv, ReportedIsStored, Stored
  <1>2. QED
    BY <1>1, Inductive, PTL

\* What an import has read is in the history for ever.
THEOREM ImportCoversHolds == Spec => []ImportCovers
  <1>1. ImportInv => ImportCovers
    <2>1. ASSUME ImportInv, NEW t \in covered PROVE t \in History
      <3>1. OfLog(t) \in rows /\ OfLog(t).test = t
        BY <2>1 DEF ImportInv, OfLog
      <3>2. QED
        BY <3>1 DEF History
    <2>2. QED
      BY <2>1 DEF ImportCovers
  <1>2. QED
    BY <1>1, Inductive, PTL

\* Only a test that was not stored vanishes from the history, and only when the table gets
\* its first row.
THEOREM OnlyUnstoredVanishHolds == Spec => OnlyUnstoredVanish
  <1> DEFINE Vanishes == \A t \in History \ History' : served =>
                 rows = {} /\ t \in Runs /\ OfRun(t) \notin rows' /\ ~Reported(t)'
  <1>1. ASSUME TypeOK, StoredInv, StoredInv', ImportInv, [Next]_vars PROVE Vanishes
    <2> SUFFICES ASSUME NEW t \in History \ History', served
                 PROVE  rows = {} /\ t \in Runs /\ OfRun(t) \notin rows' /\ ~Reported(t)'
      OBVIOUS
    <2>1. log \subseteq log' /\ rows \subseteq rows'
      BY <1>1, StepGrows
    <2>2. rows = {}
      BY <2>1 DEF History
    <2>3. t \in log /\ t \in log' /\ rows' # {} /\ \A row \in rows' : row.test # t
      BY <2>1, <2>2 DEF History
    <2>4. OfRun(t) \notin rows'
      BY <2>3 DEF OfRun
    <2>5. t \notin OldTests
      BY <1>1, <2>2, <2>3 DEF ImportInv
    <2>6. t \in Runs
      BY <1>1, <2>3, <2>5 DEF TypeOK, Tests
    <2>7. ~Reported(t)'
      BY <1>1, <2>4, <2>6 DEF StoredInv, Stored
    <2>8. QED
      BY <2>2, <2>4, <2>6, <2>7
  <1>2. QED
    BY <1>1, Inductive, PTL DEF Spec, OnlyUnstoredVanish

-----------------------------------------------------------------------------
(* The automatic choice *)

\* The attempts of a run: their servers, and that none follows a good one.
AttemptsInv == \A r \in Runs :
    /\ \A i \in 1 .. Len(tries[r]) : tries[r][i].server = ServerOf(i)
    /\ \A i \in 1 .. Len(tries[r]) - 1 : ~tries[r][i].ok
    /\ pc[r] = "idle" => tries[r] = <<>>
    /\ pc[r] = "trying" => \A i \in 1 .. Len(tries[r]) : ~tries[r][i].ok
    /\ pc[r] \in {"logging", "inserting", "alerting"} =>
           tries[r] # <<>> /\ LastAttempt(r).ok
    /\ GaveUp(r) => Len(tries[r]) = MaxRetries

LEMMA StepKeepsAttempts == TypeOK /\ AttemptsInv /\ [Next]_vars => AttemptsInv'
  <1> SUFFICES ASSUME TypeOK, AttemptsInv, [Next]_vars, NEW q \in Runs
               PROVE  AttemptsInv!(q)'
    BY DEF AttemptsInv
  <1>1. AttemptsInv!(q)
    BY DEF AttemptsInv
  <1>2. CASE UNCHANGED <<pc[q], tries[q]>>
    BY <1>1, <1>2 DEF LastAttempt, GaveUp
  <1>3. CASE RunStep(q)
    <2> USE <1>1 DEF TypeOK, LastAttempt, GaveUp
    <2>1. CASE Begin(q)
      BY <2>1 DEF Begin, Goto
    <2>2. CASE SetupFails(q)
      BY <2>2 DEF SetupFails, Ends, Goto
    <2>3. CASE GiveUp(q)
      BY <2>3 DEF GiveUp, Ends, Goto
    <2>4. CASE WriteLog(q) \/ Insert(q)
      BY <2>4 DEF WriteLog, Insert, Goto
    <2>5. CASE WriteLogRaises(q) \/ InsertRaises(q) \/ AlertRaises(q)
      BY <2>5 DEF WriteLogRaises, InsertRaises, AlertRaises, Ends, Goto
    <2>6. CASE Exit(q)
      BY <2>6 DEF Exit, Goto
    <2>7. CASE Kill(q)
      BY <2>7 DEF Kill
    <2>8. ASSUME NEW ok \in BOOLEAN, Try(q, ok) PROVE AttemptsInv!(q)'
      <3>1. /\ tries[q] \in Seq(Attempt)
            /\ tries'[q] = Append(tries[q], [server |-> ServerOf(Len(tries[q]) + 1), ok |-> ok])
            /\ pc[q] = "trying" /\ pc'[q] = IF ok THEN "logging" ELSE "trying"
        BY <2>8 DEF Try
      <3>2. /\ Len(tries[q]) \in Nat /\ Len(tries'[q]) = Len(tries[q]) + 1
            /\ \A i \in 1 .. Len(tries[q]) : tries'[q][i] = tries[q][i]
            /\ tries'[q][Len(tries'[q])] = [server |-> ServerOf(Len(tries[q]) + 1), ok |-> ok]
            /\ tries'[q] \in Seq(Attempt)
        BY <3>1, OneMore
      <3>3. \A i \in 1 .. Len(tries'[q]) : i \in 1 .. Len(tries[q]) \/ i = Len(tries'[q])
        BY <3>2
      <3>4. tries'[q] # <<>>
        BY <3>2, EmptySeq
      <3>5. QED
        BY <3>1, <3>2, <3>3, <3>4
    <2>9. ASSUME NEW yes \in BOOLEAN, Alert(q, yes) \/ Complete(q, yes) PROVE AttemptsInv!(q)'
      BY <2>9 DEF Alert, Complete, Ends, Goto
    <2>10. QED
      BY <1>3, <2>1, <2>2, <2>3, <2>4, <2>5, <2>6, <2>7, <2>8, <2>9 DEF RunStep
  <1>4. ASSUME NEW r \in Runs, RunStep(r), r # q PROVE UNCHANGED <<pc[q], tries[q]>>
    BY <1>4 DEF TypeOK, RunStep, Begin, SetupFails, GiveUp, WriteLog, WriteLogRaises, Insert,
         InsertRaises, AlertRaises, Exit, Kill, Try, Alert, Complete, Ends, Goto
  <1>5. ASSUME Import \/ UNCHANGED vars PROVE UNCHANGED <<pc[q], tries[q]>>
    BY <1>5 DEF Import, ImportBegins, ImportRaises, ImportEnds, ImportEntry, running, vars
  <1>6. QED
    BY <1>2, <1>3, <1>4, <1>5 DEF Next

\* The automatic choice comes last, after nothing but failures, and no run gives up without.
THEOREM AutomaticIsLastResortHolds == Spec => []AutomaticIsLastResort
  <1>1. Init => AttemptsInv
    <2>1. Len(<<>>) = 0
      BY EmptySeq
    <2>2. ASSUME Init, NEW r \in Runs PROVE tries[r] = <<>> /\ pc[r] = "idle"
      BY <2>2 DEF Init
    <2>3. ASSUME Init, NEW r \in Runs PROVE AttemptsInv!(r)
      <3>1. Len(tries[r]) = 0 /\ tries[r] = <<>> /\ pc[r] = "idle"
        BY <2>1, <2>2, <2>3
      <3>2. 1 .. Len(tries[r]) = {} /\ 1 .. Len(tries[r]) - 1 = {}
        BY <3>1
      <3>3. ~GaveUp(r)
        BY <3>1 DEF GaveUp
      <3>4. QED
        BY <3>1, <3>2, <3>3
    <2>4. QED
      BY <2>3 DEF AttemptsInv
  <1>2. TypeOK /\ AttemptsInv => AutomaticIsLastResort
    <2> SUFFICES ASSUME TypeOK, AttemptsInv, Preferred, NEW r \in Runs
                 PROVE  AutomaticIsLastResort!2!(r)
      BY DEF AutomaticIsLastResort
    <2>1. tries[r] \in Seq(Attempt) /\ Len(tries[r]) \in Nat
      BY LenProperties DEF TypeOK
    <2>2. ASSUME NEW i \in 1 .. Len(tries[r]), tries[r][i].server = "automatic"
          PROVE  /\ i = MaxRetries
                 /\ \A j \in 1 .. i - 1 : tries[r][j] = [server |-> "preferred", ok |-> FALSE]
      <3>1. i = MaxRetries
        BY <2>2 DEF AttemptsInv, ServerOf, IsFallback
      <3>2. ASSUME NEW j \in 1 .. i - 1
            PROVE  tries[r][j] = [server |-> "preferred", ok |-> FALSE]
        <4>1. j \in 1 .. Len(tries[r]) - 1 /\ j \in 1 .. Len(tries[r]) /\ j # MaxRetries
          BY <2>1, <3>1
        <4>2. tries[r][j] \in Attempt
          BY <2>1, <4>1, ElementOfSeq
        <4>3. tries[r][j].server = "preferred" /\ ~tries[r][j].ok
          BY <4>1 DEF AttemptsInv, ServerOf, IsFallback
        <4>4. QED
          BY <4>2, <4>3 DEF Attempt
      <3>3. QED
        BY <3>1, <3>2
    <2>3. ASSUME GaveUp(r), MaxRetries > 1 PROVE LastAttempt(r).server = "automatic"
      <3>1. Len(tries[r]) = MaxRetries /\ Len(tries[r]) \in 1 .. Len(tries[r])
        BY <2>1, <2>3, ConstantsAssumption DEF AttemptsInv
      <3>2. QED
        BY <2>3, <3>1 DEF AttemptsInv, ServerOf, IsFallback, LastAttempt
    <2>4. QED
      BY <2>2, <2>3
  <1>3. QED
    BY <1>1, <1>2, TypeCorrect, StepKeepsAttempts, PTL DEF Spec

-----------------------------------------------------------------------------
(* Records: integers and the calendar *)

\* A set of natural numbers has a least element.
LEMMA LeastNat ==
    ASSUME NEW T \in SUBSET Nat, T # {}
    PROVE  \E m \in T : \A y \in T : m <= y
  <1>1. PICK m \in T : \A y \in T : <<y, m>> \notin OpToRel(<, Nat)
    BY NatLessThanWellFounded, WFMin
  <1>2. \A y \in T : m <= y
    <2>1. SUFFICES ASSUME NEW y \in T, y < m PROVE FALSE
      OBVIOUS
    <2>2. <<y, m>> \in Nat \X Nat /\ <<y, m>>[1] < <<y, m>>[2]
      BY <2>1
    <2>3. <<y, m>> \in OpToRel(<, Nat)
      BY <2>2 DEF OpToRel
    <2>4. QED
      BY <1>1, <2>3
  <1>3. QED
    BY <1>2

\* A set of integers that has a bound has a greatest element.
LEMMA MaxFacts ==
    ASSUME NEW S \in SUBSET Int, S # {}, NEW b \in Int, \A x \in S : x <= b
    PROVE  Max(S) \in S /\ \A x \in S : x <= Max(S)
  <1> DEFINE T == {b - x : x \in S}
  <1>1. T \in SUBSET Nat /\ T # {}
    <2>1. \A x \in S : b - x \in Nat
      OBVIOUS
    <2>2. \E x \in S : b - x \in T
      OBVIOUS
    <2>3. QED
      BY <2>1, <2>2
  <1>2. PICK m \in T : \A y \in T : m <= y
    <2> HIDE DEF T
    <2> QED
      BY <1>1, LeastNat
  <1>3. PICK x \in S : m = b - x
    OBVIOUS
  <1>4. \A y \in S : y <= x
    <2>1. TAKE y \in S
    <2>2. b - y \in T
      OBVIOUS
    <2>3. b - x <= b - y
      BY <1>2, <1>3, <2>2
    <2>4. x \in Int /\ y \in Int
      OBVIOUS
    <2> HIDE DEF T
    <2>5. QED
      BY <2>3, <2>4
  <1>5. QED
    BY <1>4 DEF Max

\* Division with remainder by a positive number, of negative numbers too.
LEMMA Monotone ==
    ASSUME NEW d \in Nat \ {0}, NEW p \in Int, NEW q \in Int, p < q
    PROVE  d * p + d <= d * q
  OBVIOUS

LEMMA Division ==
    ASSUME NEW n \in Int, NEW d \in Nat \ {0}
    PROVE  /\ n \div d \in Int /\ n % d \in 0 .. d - 1
           /\ n = d * (n \div d) + (n % d)
  OBVIOUS

LEMMA QuotientIs ==
    ASSUME NEW d \in Nat \ {0}, NEW q \in Int, NEW r \in 0 .. d - 1
    PROVE  (d * q + r) \div d = q /\ (d * q + r) % d = r
  <1> DEFINE n == d * q + r
             p == n \div d
             s == n % d
  <1>1. n \in Int
    OBVIOUS
  <1>2. p \in Int /\ s \in 0 .. d - 1 /\ n = d * p + s
    BY <1>1, Division
  <1>3. d * p \in Int /\ d * q \in Int
    BY <1>2
  <1>4. ~ p < q
    <2>1. SUFFICES ASSUME p < q PROVE FALSE
      OBVIOUS
    <2>2. d * p + d <= d * q
      BY <1>2, <2>1, Monotone
    <2> HIDE DEF p, s
    <2>3. QED
      BY <1>2, <1>3, <2>2
  <1>5. ~ q < p
    <2>1. SUFFICES ASSUME q < p PROVE FALSE
      OBVIOUS
    <2>2. d * q + d <= d * p
      BY <1>2, <2>1, Monotone
    <2> HIDE DEF p, s
    <2>3. QED
      BY <1>2, <1>3, <2>2
  <1>6. p = q
    BY <1>2, <1>4, <1>5
  <1>7. QED
    BY <1>2, <1>3, <1>6

\* A test that runs is over before its grace period is.
LEMMA GraceFacts ==
    /\ EstimatedRuntime \in Nat /\ Grace \in Nat /\ EstimatedRuntime <= Grace
    /\ WeekLength * DayLength \in Nat \ {0} /\ LookBack = WeekLength * DayLength + Grace
    /\ LookBack \in Nat
  <1>1. /\ Retries \in Nat /\ Retries >= 1 /\ Timeout \in Nat /\ Delay \in Nat /\ MinGrace \in Nat
        /\ DayLength \in Nat \ {0} /\ WeekLength \in Nat \ {0}
    BY RecordsAssumption
  <1>2. EstimatedRuntime \in Nat
    <2>1. Retries * Timeout \in Nat /\ (Retries - 1) * Delay \in Nat
      BY <1>1
    <2>2. QED
      BY <2>1 DEF EstimatedRuntime
  <1>3. Grace \in {EstimatedRuntime, MinGrace} /\ \A x \in {EstimatedRuntime, MinGrace} : x <= Grace
    BY <1>1, <1>2, MaxFacts DEF Grace
  <1>4. WeekLength * DayLength \in Nat \ {0}
    BY <1>1
  <1>5. Grace \in Nat /\ EstimatedRuntime <= Grace
    BY <1>1, <1>2, <1>3
  <1>6. LookBack = WeekLength * DayLength + Grace
    BY DEF LookBack
  <1> DEFINE week == WeekLength * DayLength
  <1>7. week \in Nat /\ LookBack = week + Grace
    BY <1>4, <1>6
  <1> HIDE DEF week
  <1>8. LookBack \in Nat
    BY <1>5, <1>7
  <1>9. QED
    BY <1>2, <1>4, <1>5, <1>6, <1>8

LEMMA DivMonotone ==
    ASSUME NEW d \in Nat \ {0}, NEW n \in Int, NEW m \in Int, n <= m
    PROVE  n \div d <= m \div d
  <1> DEFINE p == n \div d
             q == m \div d
  <1>1. /\ p \in Int /\ n % d \in 0 .. d - 1 /\ n = d * p + (n % d)
        /\ q \in Int /\ m % d \in 0 .. d - 1 /\ m = d * q + (m % d)
    BY Division
  <1>2. SUFFICES ASSUME q < p PROVE FALSE
    BY <1>1
  <1>3. d * q + d <= d * p
    BY <1>1, <1>2, Monotone
  <1>4. d * q \in Int /\ d * p \in Int
    BY <1>1
  <1> HIDE DEF p, q
  <1>5. QED
    BY <1>1, <1>3, <1>4

\* Slots and weeks.
LEMMA Calendar ==
    ASSUME NEW s \in Int
    PROVE  /\ Day(s) \in Int /\ Week(s) \in Int
           /\ \A t \in Int : s <= t => Week(s) <= Week(t)
           /\ s \in Nat => Week(s) \in Nat
  <1>1. DayLength \in Nat \ {0} /\ WeekLength \in Nat \ {0}
    BY RecordsAssumption
  <1>2. \A t \in Int : Day(t) \in Int
    BY <1>1, Division DEF Day
  <1>3. \A t \in Int : Week(t) \in Int
    BY <1>1, <1>2, Division DEF Week
  <1>4. \A t \in Int : s <= t => Week(s) <= Week(t)
    <2>1. SUFFICES ASSUME NEW t \in Int, s <= t PROVE Week(s) <= Week(t)
      OBVIOUS
    <2>2. Day(s) <= Day(t)
      BY <1>1, <2>1, DivMonotone DEF Day
    <2>3. QED
      BY <1>1, <1>2, <2>2, DivMonotone DEF Week
  <1>5. s \in Nat => Week(s) \in Nat
    <2>1. SUFFICES ASSUME s \in Nat PROVE 0 <= Week(s)
      BY <1>3
    <2>2. 0 <= Day(s)
      <3>1. 0 \div DayLength <= s \div DayLength
        BY <1>1, <2>1, DivMonotone
      <3>2. 0 \div DayLength = 0
        BY <1>1, QuotientIs
      <3>3. QED
        BY <3>1, <3>2 DEF Day
    <2>3. 0 \div WeekLength <= Day(s) \div WeekLength
      BY <1>1, <1>2, <2>2, DivMonotone
    <2>4. 0 \div WeekLength = 0
      BY <1>1, QuotientIs
    <2>5. QED
      BY <2>3, <2>4 DEF Week
  <1>6. QED
    BY <1>2, <1>3, <1>4, <1>5

LEMMA DayInWeek ==
    ASSUME NEW s \in Int, NEW w \in Int,
           Day(s) \in w * WeekLength .. w * WeekLength + WeekLength - 1
    PROVE  Week(s) = w
  <1>1. WeekLength \in Nat \ {0}
    BY RecordsAssumption
  <1>2. Day(s) \in Int
    BY Calendar
  <1> DEFINE r == Day(s) - w * WeekLength
  <1>3. w * WeekLength \in Int /\ w * WeekLength = WeekLength * w
    BY <1>1
  <1>4. r \in 0 .. WeekLength - 1
    BY <1>1, <1>2, <1>3
  <1>5. (WeekLength * w + r) \div WeekLength = w
    <2> HIDE DEF r
    <2> QED
      BY <1>1, <1>4, QuotientIs
  <1>6. WeekLength * w + r = Day(s)
    BY <1>2, <1>3
  <1>7. QED
    BY <1>5, <1>6 DEF Week

\* The schedule is that of the week: a week later the same slots are due.
LEMMA WeekLater ==
    ASSUME NEW s \in Int, Scheduled(s)
    PROVE  Scheduled(s + WeekLength * DayLength)
  <1> DEFINE t == s + WeekLength * DayLength
             d == Day(s)
             r == s % DayLength
             v == d % WeekLength
             w == d \div WeekLength
  <1>1. DayLength \in Nat \ {0} /\ WeekLength \in Nat \ {0}
    BY RecordsAssumption
  <1>2. d \in Int /\ r \in 0 .. DayLength - 1 /\ s = DayLength * d + r
    BY <1>1, Division DEF Day
  <1>3. w \in Int /\ v \in 0 .. WeekLength - 1 /\ d = WeekLength * w + v
    BY <1>1, <1>2, Division
  <1>4. t \div DayLength = d + WeekLength /\ t % DayLength = r
    <2> HIDE DEF d, r, w, v
    <2>1. d + WeekLength \in Int /\ t = DayLength * (d + WeekLength) + r
      BY <1>1, <1>2
    <2> HIDE DEF t
    <2>2. QED
      BY <1>1, <1>2, <2>1, QuotientIs
  <1>5. (d + WeekLength) % WeekLength = v
    <2> HIDE DEF d, r, w, v
    <2>1. w + 1 \in Int /\ d + WeekLength = WeekLength * (w + 1) + v
      BY <1>1, <1>3
    <2>2. QED
      BY <1>1, <1>3, <2>1, QuotientIs
  <1>6. v \in schedule.days /\ r \in schedule.times
    BY DEF Scheduled, ScheduledScanDay
  <1>7. QED
    <2> HIDE DEF r, v
    <2> QED
      BY <1>4, <1>5, <1>6 DEF Scheduled, ScheduledScanDay, Day

-----------------------------------------------------------------------------
(* Records: the inductive invariant *)

Entry == [at : Nat, source : {"scheduled", "manual"}, breaches : Breaches \cup First, late : BOOLEAN]

LoggedTest ==
    [at : Nat, source : {"scheduled", "manual"}, breaches : Breaches, run : Int \cup {None}]

\* The types, with what they say of the order of time.
RecordsTypeOK ==
    /\ now \in Nat /\ ahead \in Int /\ now + ahead \in Nat /\ edited \in 0 .. now
    /\ schedule \in Schedules
    /\ due \subseteq 1 .. now /\ done \subseteq due /\ waiting \subseteq due
    /\ entries \in Seq(Entry) /\ logged \in Seq(LoggedTest) /\ storing \subseteq DOMAIN logged

\* No test is under way for longer than it may be.
Punctual ==
    \A t \in underWay : t.run \in due /\ t.since \in Int /\ now <= t.since + EstimatedRuntime

\* While the clocks agree, the slots that were due since the last edit are those the schedule has.
DueIsScheduled == ahead = 0 => \A s \in edited + 1 .. now : s \in due <=> Scheduled(s)

\* A scheduled test whose row is to come is of a slot that was due, not later than its time.
Storable ==
    \A k \in storing :
        logged[k].run # None =>
            logged[k].run \in due /\ logged[k].source = "scheduled" /\ logged[k].at >= logged[k].run

\* A completed test has its row, made when it was due or after.
DoneIsRecorded ==
    \A r \in done : \E i \in DOMAIN entries : entries[i].source = "scheduled" /\ entries[i].at >= r

\* The rows are in the order of their time.
InTime == \A i, j \in DOMAIN entries : i < j => entries[i].at <= entries[j].at

Places(E) == {i \in DOMAIN entries : entries[i] \in E}

Timely == {e \in Entry : ~e.late}
WeekRows(w) ==
    {e \in Entry : Day(e.at) \in w * WeekLength .. w * WeekLength + WeekLength - 1}
Breaking(m) == {e \in Entry : m \in e.breaches}

\* What was counted of some rows is between those that came in time and all there are now.
Between(n, E) ==
    n \in Nat /\ Cardinality(Places(E \cap Timely)) <= n /\ n <= Cardinality(Places(E))

ReportsTrue ==
    \A r \in reported :
        /\ r.week \in Nat /\ Over(r.week)
        /\ Between(r.tests, WeekRows(r.week))
        /\ \A m \in Metrics : Between(r.breaches[m], WeekRows(r.week) \cap Breaking(m))

RecordsInv ==
    /\ RecordsTypeOK /\ Punctual /\ DueIsScheduled /\ Storable /\ DoneIsRecorded /\ InTime
    /\ ReportsTrue

LEMMA EntryTimes ==
    ASSUME entries \in Seq(Entry)
    PROVE  \A i \in DOMAIN entries : entries[i].at \in Nat
  <1>1. \A i \in DOMAIN entries : entries[i] \in Entry
    BY ElementOfSeq, LenProperties
  <1>2. QED
    BY <1>1 DEF Entry

LEMMA RecordsInvInit == RecordsInit => RecordsInv
  <1> SUFFICES ASSUME RecordsInit PROVE RecordsInv
    OBVIOUS
  <1> USE DEF RecordsInit
  <1>1. PICK b \in First :
            entries = <<[at |-> 0, source |-> "manual", breaches |-> b, late |-> FALSE]>>
    OBVIOUS
  <1> DEFINE first == [at |-> 0, source |-> "manual", breaches |-> b, late |-> FALSE]
  <1>2. first \in Entry
    BY DEF Entry
  <1>3. entries \in Seq(Entry) /\ DOMAIN entries = 1 .. 1
    <2>1. entries = <<first>>
      BY <1>1
    <2> HIDE DEF first
    <2>2. <<first>> \in Seq(Entry) /\ Len(<<first>>) = 1
      BY <1>2
    <2>3. entries \in Seq(Entry) /\ Len(entries) = 1
      BY <2>1, <2>2, Zenon
    <2>4. QED
      BY <2>3, LenProperties
  <1>4. logged \in Seq(LoggedTest)
    BY EmptySeq
  <1>5. RecordsTypeOK
    BY <1>3, <1>4 DEF RecordsTypeOK
  <1>6. Punctual /\ DueIsScheduled /\ Storable /\ DoneIsRecorded /\ ReportsTrue
    BY DEF Punctual, DueIsScheduled, Storable, DoneIsRecorded, ReportsTrue
  <1>7. InTime
    BY <1>3 DEF InTime
  <1>8. QED
    BY <1>5, <1>6, <1>7 DEF RecordsInv

-----------------------------------------------------------------------------
(* Records: a row that is added *)

\* The row takes a place among the others, whose order stays as it is.
Placed(k, row) ==
    /\ k \in 0 .. Len(entries) /\ row \in Entry
    /\ entries' \in Seq(Entry) /\ DOMAIN entries' = 1 .. Len(entries) + 1
    /\ entries'[k + 1] = row
    /\ \A i \in 1 .. k : entries'[i] = entries[i] /\ entries[i].at <= row.at
    /\ \A i \in k + 1 .. Len(entries) : entries'[i + 1] = entries[i] /\ entries[i].at > row.at

LEMMA InsertAtIs ==
    ASSUME NEW s, NEW i, NEW e
    PROVE  InsertAt(s, i, e) = SubSeq(s, 1, i - 1) \o <<e>> \o SubSeq(s, i, Len(s))
  BY DEF InsertAt

LEMMA Inserted ==
    ASSUME RecordsTypeOK, NEW l \in DOMAIN logged, AddRow(logged[l])
    PROVE  \E k, row : /\ Placed(k, row)
                       /\ row.at = logged[l].at /\ row.source = logged[l].source
                       /\ row.late <=> Over(Week(logged[l].at))
  <1> DEFINE test == logged[l]
             row == [at |-> test.at, source |-> test.source, breaches |-> test.breaches,
                     late |-> Over(Week(test.at))]
             n == Len(entries)
  <1>1. PICK k \in 0 .. n :
            /\ \A i \in DOMAIN entries : i <= k <=> entries[i].at <= row.at
            /\ entries' = InsertAt(entries, k + 1, row)
    BY DEF AddRow
  <1>2. entries \in Seq(Entry) /\ n \in Nat /\ DOMAIN entries = 1 .. n
    BY LenProperties DEF RecordsTypeOK
  <1>3. \A i \in 1 .. n : entries[i] \in Entry /\ entries[i].at \in Nat
    BY <1>2, EntryTimes, ElementOfSeq
  <1>4. test \in LoggedTest
    BY ElementOfSeq, LenProperties DEF RecordsTypeOK
  <1>5. row \in Entry /\ row.at \in Nat
    <2>1. Over(Week(test.at)) \in BOOLEAN
      BY Zenon DEF Over
    <2>2. QED
      BY <1>4, <2>1 DEF LoggedTest, Entry
  <1>6. /\ row.at = test.at /\ row.source = test.source
        /\ row.late <=> Over(Week(test.at))
    OBVIOUS
  <1> HIDE DEF row
  <1> DEFINE before == SubSeq(entries, 1, k)
             after == SubSeq(entries, k + 1, n)
  <1>7. /\ before \in Seq(Entry) /\ Len(before) = k
        /\ \A i \in 1 .. k : before[i] = entries[i]
    <2>1. \A i \in 1 .. k : entries[i] \in Entry
      BY <1>2, <1>3
    <2>2. /\ before \in Seq(Entry) /\ Len(before) = IF 1 <= k THEN k - 1 + 1 ELSE 0
          /\ \A i \in 1 .. k - 1 + 1 : before[i] = entries[1 + i - 1]
      BY <2>1, SubSeqProperties
    <2> HIDE DEF before
    <2>3. QED
      BY <2>2
  <1>8. /\ after \in Seq(Entry) /\ Len(after) = n - k
        /\ \A i \in 1 .. n - k : after[i] = entries[k + i]
    <2>1. \A i \in k + 1 .. n : entries[i] \in Entry
      BY <1>2, <1>3
    <2> DEFINE m == k + 1
    <2>2. m \in Int /\ n \in Int /\ after = SubSeq(entries, m, n)
      BY <1>2
    <2>3. \A i \in m .. n : entries[i] \in Entry
      BY <2>1
    <2> HIDE DEF after, m
    <2>4. /\ after \in Seq(Entry) /\ Len(after) = IF m <= n THEN n - m + 1 ELSE 0
          /\ \A i \in 1 .. n - m + 1 : after[i] = entries[m + i - 1]
      BY <2>2, <2>3, SubSeqProperties
    <2>5. Len(after) = n - k /\ n - m + 1 = n - k
      <3>1. n \in Nat /\ k \in 0 .. n /\ m = k + 1
        BY <1>2 DEF m
      <3> HIDE DEF n
      <3>2. n - m + 1 = n - k /\ (IF m <= n THEN n - m + 1 ELSE 0) = n - k
        BY <3>1
      <3>3. QED
        BY <2>4, <3>2
    <2>6. \A i \in 1 .. n - k : m + i - 1 = k + i
      BY <1>2 DEF m
    <2>7. QED
      BY <2>4, <2>5, <2>6
  <1>9. <<row>> \in Seq(Entry) /\ Len(<<row>>) = 1 /\ <<row>>[1] = row
    BY <1>5
  <1>10. entries' = (before \o <<row>>) \o after
    <2> DEFINE place == k + 1
    <2>1. entries' = InsertAt(entries, place, row)
      BY <1>1
    <2>2. place - 1 = k /\ before = SubSeq(entries, 1, k) /\ after = SubSeq(entries, place, n)
      BY <1>2
    <2> HIDE DEF place, before, after
    <2>3. InsertAt(entries, place, row)
              = SubSeq(entries, 1, place - 1) \o <<row>> \o SubSeq(entries, place, n)
      BY InsertAtIs
    <2>4. QED
      BY <2>1, <2>2, <2>3
  <1> HIDE DEF before, after
  <1>11. /\ before \o <<row>> \in Seq(Entry) /\ Len(before \o <<row>>) = k + 1
         /\ \A i \in 1 .. k + 1 :
                (before \o <<row>>)[i] = IF i <= k THEN before[i] ELSE <<row>>[i - k]
    BY <1>7, <1>9, ConcatProperties
  <1> DEFINE start == before \o <<row>>
  <1>12. /\ start \in Seq(Entry) /\ Len(start) = k + 1 /\ start[k + 1] = row
         /\ \A i \in 1 .. k : start[i] = entries[i]
    <2>1. ~ k + 1 <= k /\ k + 1 - k = 1 /\ k + 1 \in 1 .. k + 1
      BY <1>2
    <2>2. start[k + 1] = row
      BY <1>9, <1>11, <2>1
    <2>3. \A i \in 1 .. k : i \in 1 .. k + 1 /\ i <= k
      BY <1>2
    <2>4. QED
      BY <1>7, <1>11, <2>2, <2>3
  <1> HIDE DEF start
  <1>13. /\ entries' \in Seq(Entry) /\ Len(entries') = k + 1 + (n - k)
         /\ \A i \in 1 .. k + 1 + (n - k) :
                entries'[i] = IF i <= k + 1 THEN start[i] ELSE after[i - (k + 1)]
    <2>1. entries' = start \o after
      BY <1>10 DEF start
    <2>2. start \in Seq(Entry) /\ after \in Seq(Entry)
      BY <1>8, <1>12
    <2> DEFINE both == start \o after
    <2>3. /\ both \in Seq(Entry) /\ Len(both) = Len(start) + Len(after)
          /\ \A i \in 1 .. Len(start) + Len(after) :
                 both[i] = IF i <= Len(start) THEN start[i] ELSE after[i - Len(start)]
      BY <2>2, ConcatProperties
    <2> HIDE DEF both
    <2>4. Len(start) = k + 1 /\ Len(after) = n - k /\ entries' = both
      BY <1>8, <1>12, <2>1 DEF both
    <2>5. QED
      BY <2>3, <2>4
  <1>14. DOMAIN entries' = 1 .. n + 1
    <2>1. k + 1 + (n - k) = n + 1
      BY <1>2
    <2>2. QED
      BY <1>13, <2>1, LenProperties
  <1>15. entries'[k + 1] = row
    BY <1>2, <1>12, <1>13
  <1>16. \A i \in 1 .. k : entries'[i] = entries[i] /\ entries[i].at <= row.at
    <2>1. TAKE i \in 1 .. k
    <2>2. i \in 1 .. k + 1 + (n - k) /\ i <= k + 1 /\ i \in 1 .. n /\ i <= k
      BY <1>2
    <2>3. entries'[i] = entries[i]
      BY <1>12, <1>13, <2>2
    <2>4. entries[i].at <= row.at
      BY <1>1, <1>2, <2>2
    <2>5. QED
      BY <2>3, <2>4
  <1>17. \A i \in k + 1 .. n : entries'[i + 1] = entries[i] /\ entries[i].at > row.at
    <2>1. TAKE i \in k + 1 .. n
    <2>2. /\ i + 1 \in 1 .. k + 1 + (n - k) /\ ~ i + 1 <= k + 1
          /\ i + 1 - (k + 1) = i - k /\ i - k \in 1 .. n - k /\ k + (i - k) = i
          /\ i \in 1 .. n /\ ~ i <= k
      BY <1>2
    <2>3. entries'[i + 1] = entries[i]
      <3>1. entries'[i + 1] = after[i + 1 - (k + 1)]
        BY <1>13, <2>2
      <3>2. after[i - k] = entries[k + (i - k)]
        BY <1>8, <2>2
      <3>3. QED
        BY <2>2, <3>1, <3>2
    <2>4. entries[i].at > row.at
      <3>1. ~ entries[i].at <= row.at
        BY <1>1, <1>2, <2>2
      <3>2. entries[i].at \in Nat /\ row.at \in Nat
        BY <1>3, <1>5, <2>2
      <3>3. QED
        BY <3>1, <3>2
    <2>5. QED
      BY <2>3, <2>4
  <1>18. Placed(k, row)
    BY <1>5, <1>13, <1>14, <1>15, <1>16, <1>17 DEF Placed
  <1>19. QED
    BY <1>6, <1>18

LEMMA PlacedInTime ==
    ASSUME entries \in Seq(Entry), InTime, NEW k, NEW row, Placed(k, row)
    PROVE  /\ InTime'
           /\ k + 1 \in DOMAIN entries' /\ entries'[k + 1] = row
           /\ \A i \in DOMAIN entries : \E j \in DOMAIN entries' : entries'[j] = entries[i]
  <1> DEFINE n == Len(entries)
  <1>1. /\ n \in Nat /\ k \in 0 .. n /\ DOMAIN entries = 1 .. n /\ DOMAIN entries' = 1 .. n + 1
        /\ row.at \in Nat /\ entries'[k + 1] = row
    BY LenProperties DEF Placed, Entry
  <1>2. \A i \in 1 .. k : entries'[i] = entries[i] /\ entries[i].at <= row.at
    BY DEF Placed
  <1>3. \A i \in k + 1 .. n : entries'[i + 1] = entries[i] /\ entries[i].at > row.at
    BY DEF Placed
  <1>4. \A i \in 1 .. n : entries[i].at \in Nat
    BY <1>1, EntryTimes
  <1>5. \A i \in k + 2 .. n + 1 : i - 1 \in k + 1 .. n /\ entries'[i] = entries[i - 1]
    <2>1. \A i \in k + 2 .. n + 1 : i - 1 \in k + 1 .. n /\ (i - 1) + 1 = i
      BY <1>1
    <2>2. QED
      BY <1>3, <2>1
  <1>6. \A i, j \in 1 .. n : i < j => entries[i].at <= entries[j].at
    BY <1>1 DEF InTime
  <1> HIDE DEF n
  <1>7. ASSUME NEW i \in 1 .. n + 1, NEW j \in 1 .. n + 1, i < j
        PROVE  entries'[i].at <= entries'[j].at
    <2>1. CASE j \in 1 .. k
      BY <1>1, <1>2, <1>6, <1>7, <2>1
    <2>2. CASE j = k + 1
      BY <1>1, <1>2, <1>7, <2>2
    <2>3. CASE j \in k + 2 .. n + 1
      <3>1. j - 1 \in k + 1 .. n /\ j - 1 \in 1 .. n /\ entries'[j] = entries[j - 1]
        BY <1>1, <1>5, <2>3
      <3>2. CASE i \in 1 .. k
        <4>1. entries'[i] = entries[i] /\ i \in 1 .. n /\ i < j - 1
          BY <1>1, <1>2, <2>3, <3>2
        <4>2. QED
          BY <1>6, <3>1, <4>1
      <3>3. CASE i = k + 1
        BY <1>1, <1>3, <1>4, <3>1, <3>3
      <3>4. CASE i \in k + 2 .. n + 1
        <4>1. i - 1 \in 1 .. n /\ i - 1 < j - 1 /\ entries'[i] = entries[i - 1]
          BY <1>1, <1>5, <1>7, <3>4
        <4>2. QED
          BY <1>6, <3>1, <4>1
      <3>5. QED
        BY <1>1, <3>2, <3>3, <3>4
    <2>4. QED
      BY <1>1, <2>1, <2>2, <2>3
  <1>8. InTime'
    BY <1>1, <1>7 DEF InTime
  <1>9. ASSUME NEW i \in 1 .. n PROVE \E j \in 1 .. n + 1 : entries'[j] = entries[i]
    <2>1. CASE i \in 1 .. k
      <3>1. i \in 1 .. n + 1
        BY <1>1
      <3>2. QED
        BY <1>2, <2>1, <3>1
    <2>2. CASE i \in k + 1 .. n
      <3>1. i + 1 \in 1 .. n + 1
        BY <1>1
      <3>2. QED
        BY <1>3, <2>2, <3>1
    <2>3. QED
      BY <1>1, <2>1, <2>2
  <1>10. QED
    BY <1>1, <1>8, <1>9

LEMMA PlacesFinite ==
    ASSUME entries \in Seq(Entry), NEW E
    PROVE  IsFiniteSet(Places(E)) /\ Cardinality(Places(E)) \in Nat
  <1>1. Places(E) \subseteq 1 .. Len(entries) /\ Len(entries) \in Nat
    BY LenProperties DEF Places
  <1>2. IsFiniteSet(Places(E))
    <2>1. IsFiniteSet(1 .. Len(entries))
      BY <1>1, FS_Interval
    <2>2. QED
      BY <1>1, <2>1, FS_Subset
  <1>3. QED
    BY <1>2, FS_CardinalityType

\* By a row that is added there are no fewer rows of any kind, and of another kind no more.
LEMMA PlacesGrow ==
    ASSUME entries \in Seq(Entry), NEW k, NEW row, Placed(k, row), NEW E
    PROVE  /\ Cardinality(Places(E)) \in Nat /\ Cardinality(Places(E)') \in Nat
           /\ Cardinality(Places(E)) <= Cardinality(Places(E)')
           /\ row \notin E => Cardinality(Places(E)') = Cardinality(Places(E))
  <1> DEFINE n == Len(entries)
             S == Places(E)
             T == Places(E)'
             f == [i \in S |-> IF i <= k THEN i ELSE i + 1]
  <1>1. /\ n \in Nat /\ k \in 0 .. n /\ DOMAIN entries = 1 .. n /\ DOMAIN entries' = 1 .. n + 1
        /\ entries' \in Seq(Entry) /\ entries'[k + 1] = row
        /\ \A i \in 1 .. k : entries'[i] = entries[i]
        /\ \A i \in k + 1 .. n : entries'[i + 1] = entries[i]
    BY LenProperties DEF Placed
  <1>2. T = {i \in DOMAIN entries' : entries'[i] \in E}
    BY DEF Places
  <1>3. IsFiniteSet(S) /\ Cardinality(S) \in Nat
    BY PlacesFinite
  <1>4. IsFiniteSet(T) /\ Cardinality(T) \in Nat
    <2>1. T \subseteq 1 .. n + 1
      BY <1>1, <1>2
    <2>2. IsFiniteSet(T)
      <3>1. n + 1 \in Int
        BY <1>1
      <3>2. IsFiniteSet(1 .. n + 1)
        BY <3>1, FS_Interval
      <3>3. QED
        BY <2>1, <3>2, FS_Subset
    <2>3. QED
      BY <2>2, FS_CardinalityType
  <1>5. S = {i \in 1 .. n : entries[i] \in E}
    BY <1>1 DEF Places
  <1> HIDE DEF n, S, T
  <1>6. f \in [S -> T]
    <2>1. ASSUME NEW i \in S PROVE f[i] \in T
      <3>1. i \in 1 .. n /\ entries[i] \in E
        BY <1>5
      <3>2. CASE i <= k
        BY <1>1, <1>2, <3>1, <3>2
      <3>3. CASE ~ i <= k
        BY <1>1, <1>2, <3>1, <3>3
      <3>4. QED
        BY <3>2, <3>3
    <2>2. QED
      BY <2>1
  <1>7. \A i, j \in S : f[i] = f[j] => i = j
    BY <1>1, <1>5
  <1>8. f \in Injection(S, T)
    <2> HIDE DEF f
    <2>1. QED
      BY <1>6, <1>7 DEF Injection, IsInjective
  <1>9. Cardinality(S) <= Cardinality(T)
    BY <1>4, <1>8, FS_Injection
  <1>10. ASSUME row \notin E PROVE Cardinality(T) = Cardinality(S)
    <2>1. \A j \in T : \E i \in S : f[i] = j
      <3>1. TAKE j \in T
      <3>2. j \in 1 .. n + 1 /\ entries'[j] \in E /\ j # k + 1
        BY <1>1, <1>2, <1>10
      <3>3. CASE j <= k
        <4>1. j \in S
          BY <1>1, <1>5, <3>2, <3>3
        <4>2. QED
          BY <3>3, <4>1
      <3>4. CASE ~ j <= k
        <4>1. j - 1 \in k + 1 .. n /\ (j - 1) + 1 = j /\ j - 1 \in 1 .. n
          BY <1>1, <3>2, <3>4
        <4>2. entries'[j] = entries[j - 1]
          BY <1>1, <4>1
        <4>3. j - 1 \in S /\ ~ j - 1 <= k
          BY <1>1, <1>5, <3>2, <4>1, <4>2
        <4>4. f[j - 1] = j
          BY <4>1, <4>3
        <4> HIDE DEF f
        <4>5. QED
          BY <4>3, <4>4
      <3>5. QED
        BY <3>3, <3>4
    <2>2. f \in Surjection(S, T)
      <3> HIDE DEF f
      <3>1. QED
        BY <1>6, <2>1 DEF Surjection
    <2>3. QED
      BY <1>4, <1>8, <2>2, FS_Injection
  <1>11. QED
    BY <1>3, <1>4, <1>9, <1>10 DEF S, T

\* A count of rows that came in time and of all stays one, if the new row is late or not counted.
LEMMA StaysBetween ==
    ASSUME entries \in Seq(Entry), NEW k, NEW row, Placed(k, row), NEW n, NEW E,
           Between(n, E), row.late \/ row \notin E
    PROVE  Between(n, E)'
  <1>1. row \notin E \cap Timely
    BY DEF Timely
  <1> DEFINE F == E \cap Timely
  <1>2. n \in Nat /\ Cardinality(Places(F)) <= n /\ n <= Cardinality(Places(E))
    BY DEF Between
  <1>3. row \notin F
    BY <1>1
  <1> HIDE DEF F
  <1>4. Cardinality(Places(F)') = Cardinality(Places(F))
    BY <1>3, PlacesGrow
  <1>5. /\ Cardinality(Places(E)) \in Nat /\ Cardinality(Places(E)') \in Nat
        /\ Cardinality(Places(E)) <= Cardinality(Places(E)')
    BY PlacesGrow
  <1>6. n <= Cardinality(Places(E)')
    BY <1>2, <1>5
  <1>7. QED
    BY <1>2, <1>4, <1>6 DEF Between, F

LEMMA OverFacts ==
    ASSUME NEW a \in Int, NEW b \in Int, a <= b
    PROVE  Week(a) \in Int /\ Week(b) \in Int /\ Week(a) <= Week(b)
  BY Calendar

\* What an added row leaves as it is.
LEMMA MoreRows ==
    ASSUME RecordsInv, NEW l \in DOMAIN logged, AddRow(logged[l]),
           UNCHANGED <<now, ahead, reported>>
    PROVE  /\ entries' \in Seq(Entry) /\ InTime' /\ ReportsTrue'
           /\ \A i \in DOMAIN entries : \E j \in DOMAIN entries' : entries'[j] = entries[i]
           /\ \E j \in DOMAIN entries' : /\ entries'[j].at = logged[l].at
                                         /\ entries'[j].source = logged[l].source
  <1>1. entries \in Seq(Entry) /\ InTime /\ RecordsTypeOK
    BY DEF RecordsInv, RecordsTypeOK
  <1>2. PICK k, row : /\ Placed(k, row)
                      /\ row.at = logged[l].at /\ row.source = logged[l].source
                      /\ row.late <=> Over(Week(logged[l].at))
    BY <1>1, Inserted
  <1>3. /\ InTime' /\ k + 1 \in DOMAIN entries' /\ entries'[k + 1] = row
        /\ \A i \in DOMAIN entries : \E j \in DOMAIN entries' : entries'[j] = entries[i]
    BY <1>1, <1>2, PlacedInTime
  <1>4. entries' \in Seq(Entry) /\ row \in Entry
    BY <1>2 DEF Placed
  <1>5. ASSUME NEW r \in reported
        PROVE  /\ r.week \in Nat /\ Over(r.week)'
               /\ Between(r.tests, WeekRows(r.week))'
               /\ \A m \in Metrics : Between(r.breaches[m], WeekRows(r.week) \cap Breaking(m))'
    <2>1. /\ r.week \in Nat /\ Over(r.week)
          /\ Between(r.tests, WeekRows(r.week))
          /\ \A m \in Metrics : Between(r.breaches[m], WeekRows(r.week) \cap Breaking(m))
      BY DEF RecordsInv, ReportsTrue
    <2>2. Over(r.week)'
      BY <2>1 DEF Over, Week, Day
    <2>3. row.late \/ row \notin WeekRows(r.week)
      <3>1. SUFFICES ASSUME row \in WeekRows(r.week) PROVE row.late
        OBVIOUS
      <3>2. /\ row.at \in Int /\ r.week \in Int
            /\ Day(row.at) \in r.week * WeekLength .. r.week * WeekLength + WeekLength - 1
        BY <1>4, <2>1, <3>1 DEF WeekRows, Entry
      <3>3. Week(row.at) = r.week
        BY <3>2, DayInWeek
      <3>4. QED
        BY <1>2, <2>1, <3>3, Zenon
    <2>4. \A E \in SUBSET WeekRows(r.week) : row.late \/ row \notin E
      BY <2>3
    <2>5. Between(r.tests, WeekRows(r.week))'
      BY <1>1, <1>2, <2>1, <2>3, StaysBetween
    <2>6. ASSUME NEW m \in Metrics
          PROVE  Between(r.breaches[m], WeekRows(r.week) \cap Breaking(m))'
      <3> DEFINE E == WeekRows(r.week) \cap Breaking(m)
      <3>1. row.late \/ row \notin E
        BY <2>3
      <3>2. Between(r.breaches[m], E)
        BY <2>1
      <3> HIDE DEF E
      <3>3. Between(r.breaches[m], E)'
        BY <1>1, <1>2, <3>1, <3>2, StaysBetween
      <3>4. QED
        BY <3>3 DEF E
    <2>7. QED
      BY <2>1, <2>2, <2>5, <2>6
  <1>6. ReportsTrue'
    BY <1>5 DEF ReportsTrue
  <1>7. QED
    BY <1>2, <1>3, <1>4, <1>6

\* The reports stay true while the rows do not change and what was over stays so.
LEMMA SameRows ==
    ASSUME ReportsTrue, UNCHANGED entries, reported' \subseteq reported,
           \A r \in reported' : r.week \in Nat /\ Over(r.week) => Over(r.week)'
    PROVE  ReportsTrue'
  <1>1. \A n, E : Between(n, E)' <=> Between(n, E)
    BY DEF Between, Places
  <1>2. ASSUME NEW r \in reported'
        PROVE  /\ r.week \in Nat /\ Over(r.week)'
               /\ Between(r.tests, WeekRows(r.week))'
               /\ \A m \in Metrics : Between(r.breaches[m], WeekRows(r.week) \cap Breaking(m))'
    <2>1. /\ r.week \in Nat /\ Over(r.week)
          /\ Between(r.tests, WeekRows(r.week))
          /\ \A m \in Metrics : Between(r.breaches[m], WeekRows(r.week) \cap Breaking(m))
      BY DEF ReportsTrue
    <2>2. QED
      BY <1>1, <2>1
  <1>3. QED
    BY <1>2 DEF ReportsTrue

\* What a report counts is all there is.
LEMMA CountedNow ==
    ASSUME entries \in Seq(Entry), NEW w \in Nat
    PROVE  /\ WeekCounts(w).week = w
           /\ Between(WeekCounts(w).tests, WeekRows(w))
           /\ \A m \in Metrics : Between(WeekCounts(w).breaches[m], WeekRows(w) \cap Breaking(m))
  <1>1. \A i \in DOMAIN entries : entries[i] \in Entry
    BY ElementOfSeq, LenProperties
  <1>2. InWeek(w) = Places(WeekRows(w))
    BY <1>1 DEF InWeek, InDays, Places, WeekRows
  <1>3. \A m : {i \in InWeek(w) : m \in entries[i].breaches}
                 = Places(WeekRows(w) \cap Breaking(m))
    BY <1>1, <1>2 DEF Places, Breaking
  <1>4. \A E : Between(Cardinality(Places(E)), E)
    <2>1. TAKE E
    <2> DEFINE F == E \cap Timely
    <2>2. Places(F) \subseteq Places(E)
      BY DEF Places
    <2> HIDE DEF F
    <2>3. /\ IsFiniteSet(Places(E)) /\ Cardinality(Places(E)) \in Nat
          /\ Cardinality(Places(F)) \in Nat
      BY PlacesFinite
    <2>4. Cardinality(Places(F)) <= Cardinality(Places(E))
      BY <2>2, <2>3, FS_Subset
    <2>5. QED
      BY <2>3, <2>4 DEF Between, F
  <1>5. /\ WeekCounts(w).week = w /\ WeekCounts(w).tests = Cardinality(InWeek(w))
        /\ WeekCounts(w).breaches = [m \in Metrics |-> BadTests(InWeek(w), m)]
    <2> DEFINE tests == Cardinality(InWeek(w))
               healthy == GoodTests(InWeek(w))
               breaches == [m \in Metrics |-> BadTests(InWeek(w), m)]
    <2>1. WeekCounts(w) = [week |-> w, tests |-> tests, healthy |-> healthy, breaches |-> breaches]
      BY DEF WeekCounts
    <2> HIDE DEF tests, healthy, breaches
    <2>2. /\ WeekCounts(w).week = w /\ WeekCounts(w).tests = tests
          /\ WeekCounts(w).breaches = breaches
      BY <2>1
    <2>3. QED
      BY <2>2 DEF tests, breaches
  <1>6. ASSUME NEW m \in Metrics
        PROVE  Between(WeekCounts(w).breaches[m], WeekRows(w) \cap Breaking(m))
    <2>1. WeekCounts(w).breaches[m] = BadTests(InWeek(w), m)
      BY <1>5
    <2>2. BadTests(InWeek(w), m) = Cardinality(Places(WeekRows(w) \cap Breaking(m)))
      BY <1>3 DEF BadTests
    <2>3. QED
      BY <1>4, <2>1, <2>2
  <1>7. QED
    BY <1>2, <1>4, <1>5, <1>6

LEMMA SameSchedule ==
    ASSUME UNCHANGED schedule, NEW s
    PROVE  Scheduled(s)' <=> Scheduled(s)
  BY DEF Scheduled, ScheduledScanDay, Day

\* A new entry of the log.
LEMMA MoreLogged ==
    ASSUME RecordsTypeOK, NEW source \in {"scheduled", "manual"}, NEW at \in Nat,
           NEW run \in Int \cup {None}, Log(source, at, run)
    PROVE  /\ logged' \in Seq(LoggedTest) /\ storing' \subseteq DOMAIN logged'
           /\ \A k \in storing' : \/ k \in storing /\ logged'[k] = logged[k]
                                  \/ /\ logged'[k].run = run /\ logged'[k].at = at
                                     /\ logged'[k].source = source
  <1>1. PICK b \in Breaches :
            logged' = Append(logged, [at |-> at, source |-> source, breaches |-> b, run |-> run])
    BY DEF Log
  <1> DEFINE e == [at |-> at, source |-> source, breaches |-> b, run |-> run]
             n == Len(logged)
  <1>2. e \in LoggedTest /\ e.at = at /\ e.source = source /\ e.run = run
    BY DEF LoggedTest
  <1>3. /\ logged \in Seq(LoggedTest) /\ n \in Nat /\ storing \subseteq 1 .. n
    BY LenProperties DEF RecordsTypeOK
  <1>4. storing' = storing \cup {n + 1}
    BY DEF Log
  <1>5. logged' = Append(logged, e)
    BY <1>1
  <1> HIDE DEF e
  <1>6. /\ logged' \in Seq(LoggedTest) /\ Len(logged') = n + 1
        /\ \A i \in 1 .. n : logged'[i] = logged[i]
        /\ logged'[n + 1] = e
    BY <1>2, <1>3, <1>5, AppendProperties
  <1>7. DOMAIN logged' = 1 .. n + 1
    BY <1>6, LenProperties
  <1>8. storing' \subseteq 1 .. n + 1
    <2> HIDE DEF n
    <2>1. 1 .. n \subseteq 1 .. n + 1 /\ n + 1 \in 1 .. n + 1
      BY <1>3
    <2>2. QED
      BY <1>3, <1>4, <2>1
  <1>9. \A k \in storing' : \/ k \in storing /\ logged'[k] = logged[k]
                            \/ k = n + 1 /\ logged'[k] = e
    BY <1>3, <1>4, <1>6
  <1>10. QED
    BY <1>2, <1>6, <1>7, <1>8, <1>9

LEMMA RecordsInvStep == RecordsInv /\ [RecordsNext]_recordsVars => RecordsInv'
  <1> SUFFICES ASSUME RecordsInv, [RecordsNext]_recordsVars PROVE RecordsInv'
    OBVIOUS
  <1>1. /\ now \in Nat /\ ahead \in Int /\ now + ahead \in Nat /\ edited \in 0 .. now
        /\ schedule \in Schedules
        /\ due \subseteq 1 .. now /\ done \subseteq due /\ waiting \subseteq due
        /\ entries \in Seq(Entry) /\ logged \in Seq(LoggedTest)
        /\ storing \subseteq DOMAIN logged /\ None \notin Int
    BY RecordsAssumption DEF RecordsInv, RecordsTypeOK
  <1>2. Punctual /\ DueIsScheduled /\ Storable /\ DoneIsRecorded /\ InTime /\ ReportsTrue
    BY DEF RecordsInv
  <1>3. CASE Tick
    <2>1. /\ now' = now + 1
          /\ UNCHANGED <<ahead, schedule, underWay, logged, storing, imported, entries, done,
                         edited, reported>>
      BY <1>3 DEF Tick
    <2>2. /\ due \subseteq due' /\ due' \subseteq due \cup {now'}
          /\ waiting' \subseteq due'
          /\ now' \in due' <=> Scheduled(now' + ahead)
      <3>1. now' \notin due
        BY <1>1, <2>1
      <3>2. CASE Scheduled(now' + ahead)
        BY <1>1, <1>3, <3>2 DEF Tick
      <3>3. CASE ~Scheduled(now' + ahead)
        BY <1>1, <1>3, <3>1, <3>3 DEF Tick
      <3>4. QED
        BY <3>2, <3>3
    <2>3. RecordsTypeOK'
      <3>1. now' \in Nat /\ now' + ahead' \in Nat /\ edited' \in 0 .. now'
        BY <1>1, <2>1
      <3>2. due' \subseteq 1 .. now'
        BY <1>1, <2>1, <2>2
      <3>3. done' \subseteq due'
        BY <1>1, <2>1, <2>2
      <3>4. QED
        BY <1>1, <2>1, <2>2, <3>1, <3>2, <3>3 DEF RecordsTypeOK
    <2>4. Punctual'
      <3>1. \A t \in underWay : now' <= t.since + EstimatedRuntime
        BY <1>3 DEF Tick
      <3>2. \A t \in underWay : t.run \in due' /\ t.since \in Int
        BY <1>2, <2>2 DEF Punctual
      <3>3. QED
        BY <2>1, <3>1, <3>2 DEF Punctual
    <2>5. DueIsScheduled'
      <3>1. SUFFICES ASSUME ahead = 0, NEW s \in edited + 1 .. now + 1
                     PROVE  s \in due' <=> Scheduled(s)
        BY <2>1, SameSchedule DEF DueIsScheduled
      <3>2. CASE s = now + 1
        <4>1. now' + ahead = s
          BY <1>1, <2>1, <3>1, <3>2
        <4>2. QED
          BY <2>1, <2>2, <3>2, <4>1
      <3>3. CASE s \in edited + 1 .. now
        <4>1. s # now'
          BY <1>1, <2>1, <3>3
        <4>2. QED
          BY <1>2, <2>2, <3>1, <3>3, <4>1 DEF DueIsScheduled
      <3>4. QED
        BY <1>1, <3>2, <3>3
    <2>6. Storable'
      BY <1>2, <2>1, <2>2 DEF Storable
    <2>7. DoneIsRecorded' /\ InTime'
      BY <1>2, <2>1 DEF DoneIsRecorded, InTime
    <2>8. ReportsTrue'
      <3>1. ASSUME NEW r \in reported', r.week \in Nat, Over(r.week) PROVE Over(r.week)'
        <4>1. now' + ahead' \in Int /\ now + ahead <= now' + ahead'
          BY <1>1, <2>1
        <4>2. /\ Week(now) \in Int /\ Week(now') \in Int /\ Week(now) <= Week(now')
          BY <1>1, <2>1, OverFacts
        <4>3. /\ Week(now + ahead) \in Int /\ Week(now' + ahead') \in Int
              /\ Week(now + ahead) <= Week(now' + ahead')
          BY <1>1, <4>1, OverFacts
        <4>4. r.week < Week(now') \/ r.week < Week(now' + ahead')
          BY <3>1, <4>2, <4>3 DEF Over
        <4>5. QED
          BY <4>4 DEF Over, Week, Day
      <3>2. QED
        BY <1>2, <2>1, <3>1, SameRows
    <2>9. QED
      BY <2>3, <2>4, <2>5, <2>6, <2>7, <2>8 DEF RecordsInv
  <1>4. ASSUME NEW r \in waiting, TestStarts(r) PROVE RecordsInv'
    <2>1. /\ waiting' = waiting \ {r} /\ underWay' = underWay \cup {[run |-> r, since |-> now]}
          /\ UNCHANGED <<now, ahead, schedule, logged, storing, imported, entries, due, done,
                         edited, reported>>
      BY <1>4 DEF TestStarts
    <2>2. RecordsTypeOK'
      BY <1>1, <2>1 DEF RecordsTypeOK
    <2>3. Punctual'
      <3>1. EstimatedRuntime \in Nat
        BY GraceFacts
      <3>2. r \in due /\ r <= now /\ now <= now + EstimatedRuntime
        BY <1>1, <3>1
      <3>3. QED
        BY <1>1, <1>2, <2>1, <3>2 DEF Punctual
    <2>4. DueIsScheduled' /\ Storable' /\ DoneIsRecorded' /\ InTime'
      BY <1>2, <2>1, SameSchedule DEF DueIsScheduled, Storable, DoneIsRecorded, InTime
    <2>5. ReportsTrue'
      BY <1>2, <2>1, SameRows DEF Over, Week, Day
    <2>6. QED
      BY <2>2, <2>3, <2>4, <2>5 DEF RecordsInv
  <1>5. ASSUME NEW t \in underWay, TestCompletes(t) PROVE RecordsInv'
    <2>1. /\ underWay' = underWay \ {t} /\ Log("scheduled", now, t.run)
          /\ UNCHANGED <<now, ahead, schedule, waiting, imported, entries, due, done, edited,
                         reported>>
      BY <1>5 DEF TestCompletes
    <2>2. t.run \in due /\ t.run \in Int /\ t.run <= now
      <3>1. t.run \in due
        BY <1>2 DEF Punctual
      <3>2. \A r \in due : r \in Int /\ r <= now
        BY <1>1
      <3>3. QED
        BY <3>1, <3>2
    <2>3. /\ logged' \in Seq(LoggedTest) /\ storing' \subseteq DOMAIN logged'
          /\ \A k \in storing' : \/ k \in storing /\ logged'[k] = logged[k]
                                 \/ /\ logged'[k].run = t.run /\ logged'[k].at = now
                                    /\ logged'[k].source = "scheduled"
      <3> DEFINE run == t.run
      <3>1. run \in Int \cup {None} /\ Log("scheduled", now, run)
        BY <2>1, <2>2
      <3> HIDE DEF run
      <3>2. /\ logged' \in Seq(LoggedTest) /\ storing' \subseteq DOMAIN logged'
            /\ \A k \in storing' : \/ k \in storing /\ logged'[k] = logged[k]
                                   \/ /\ logged'[k].run = run /\ logged'[k].at = now
                                      /\ logged'[k].source = "scheduled"
        BY <1>1, <3>1, MoreLogged DEF RecordsInv
      <3>3. QED
        BY <3>2 DEF run
    <2>4. RecordsTypeOK'
      BY <1>1, <2>1, <2>3 DEF RecordsTypeOK
    <2>5. Storable'
      BY <1>1, <1>2, <2>1, <2>2, <2>3 DEF Storable
    <2>6. Punctual' /\ DueIsScheduled' /\ DoneIsRecorded' /\ InTime'
      BY <1>2, <2>1, SameSchedule DEF Punctual, DueIsScheduled, DoneIsRecorded, InTime
    <2>7. ReportsTrue'
      BY <1>2, <2>1, SameRows DEF Over, Week, Day
    <2>8. QED
      BY <2>4, <2>5, <2>6, <2>7 DEF RecordsInv
  <1>6. ASSUME NEW t \in underWay, TestFails(t) PROVE RecordsInv'
    <2>1. /\ underWay' = underWay \ {t}
          /\ UNCHANGED <<now, ahead, schedule, waiting, logged, storing, imported, entries, due,
                         done, edited, reported>>
      BY <1>6 DEF TestFails
    <2>2. RecordsTypeOK'
      BY <1>1, <2>1 DEF RecordsTypeOK
    <2>3. Punctual' /\ DueIsScheduled' /\ Storable' /\ DoneIsRecorded' /\ InTime'
      BY <1>2, <2>1, SameSchedule
         DEF Punctual, DueIsScheduled, Storable, DoneIsRecorded, InTime
    <2>4. ReportsTrue'
      BY <1>2, <2>1, SameRows DEF Over, Week, Day
    <2>5. QED
      BY <2>2, <2>3, <2>4 DEF RecordsInv
  <1>7. CASE ManualTest
    <2>1. /\ Log("manual", now + ahead, None)
          /\ UNCHANGED <<now, ahead, schedule, waiting, underWay, imported, entries, due, done,
                         edited, reported>>
      BY <1>7 DEF ManualTest
    <2>2. /\ logged' \in Seq(LoggedTest) /\ storing' \subseteq DOMAIN logged'
          /\ \A k \in storing' : \/ k \in storing /\ logged'[k] = logged[k]
                                 \/ logged'[k].run = None
      <3> DEFINE at == now + ahead
      <3>1. at \in Nat /\ Log("manual", at, None)
        BY <1>1, <2>1
      <3> HIDE DEF at
      <3>2. /\ logged' \in Seq(LoggedTest) /\ storing' \subseteq DOMAIN logged'
            /\ \A k \in storing' : \/ k \in storing /\ logged'[k] = logged[k]
                                   \/ /\ logged'[k].run = None /\ logged'[k].at = at
                                      /\ logged'[k].source = "manual"
        BY <3>1, MoreLogged DEF RecordsInv
      <3>3. QED
        BY <3>2
    <2>3. RecordsTypeOK'
      BY <1>1, <2>1, <2>2 DEF RecordsTypeOK
    <2>4. Storable'
      BY <1>2, <2>1, <2>2 DEF Storable
    <2>5. Punctual' /\ DueIsScheduled' /\ DoneIsRecorded' /\ InTime'
      BY <1>2, <2>1, SameSchedule DEF Punctual, DueIsScheduled, DoneIsRecorded, InTime
    <2>6. ReportsTrue'
      BY <1>2, <2>1, SameRows DEF Over, Week, Day
    <2>7. QED
      BY <2>3, <2>4, <2>5, <2>6 DEF RecordsInv
  <1>8. ASSUME NEW k \in storing, StoreTest(k) PROVE RecordsInv'
    <2>1. /\ storing' = storing \ {k} /\ AddRow(logged[k])
          /\ done' = done \cup ({logged[k].run} \ {None})
          /\ UNCHANGED <<now, ahead, schedule, waiting, underWay, logged, imported, due, edited,
                         reported>>
      BY <1>8 DEF StoreTest
    <2>2. /\ entries' \in Seq(Entry) /\ InTime' /\ ReportsTrue'
          /\ \A i \in DOMAIN entries : \E j \in DOMAIN entries' : entries'[j] = entries[i]
      BY <1>1, <2>1, MoreRows
    <2>3. PICK j \in DOMAIN entries' : /\ entries'[j].at = logged[k].at
                                       /\ entries'[j].source = logged[k].source
      BY <1>1, <2>1, MoreRows
    <2>4. logged[k].run # None =>
              logged[k].run \in due /\ logged[k].source = "scheduled" /\ logged[k].at >= logged[k].run
      BY <1>2 DEF Storable
    <2>5. RecordsTypeOK'
      BY <1>1, <2>1, <2>2, <2>4 DEF RecordsTypeOK
    <2>6. Storable' /\ Punctual' /\ DueIsScheduled'
      BY <1>2, <2>1, SameSchedule DEF Storable, Punctual, DueIsScheduled
    <2>7. DoneIsRecorded'
      <3>1. SUFFICES ASSUME NEW r \in done'
                     PROVE  \E i \in DOMAIN entries' :
                                entries'[i].source = "scheduled" /\ entries'[i].at >= r
        BY DEF DoneIsRecorded
      <3>2. CASE r \in done
        <4>1. PICK i \in DOMAIN entries : entries[i].source = "scheduled" /\ entries[i].at >= r
          BY <1>2, <3>2 DEF DoneIsRecorded
        <4>2. QED
          BY <2>2, <4>1
      <3>3. CASE r = logged[k].run /\ r # None
        BY <2>3, <2>4, <3>3
      <3>4. QED
        BY <2>1, <3>2, <3>3
    <2>8. QED
      BY <2>2, <2>5, <2>6, <2>7 DEF RecordsInv
  <1>9. ASSUME NEW k \in DOMAIN logged, ImportTest(k) PROVE RecordsInv'
    <2>1. /\ AddRow(logged[k])
          /\ UNCHANGED <<now, ahead, schedule, waiting, underWay, logged, storing, due, done,
                         edited, reported>>
      BY <1>9 DEF ImportTest
    <2>2. /\ entries' \in Seq(Entry) /\ InTime' /\ ReportsTrue'
          /\ \A i \in DOMAIN entries : \E j \in DOMAIN entries' : entries'[j] = entries[i]
      BY <2>1, MoreRows
    <2>3. RecordsTypeOK'
      BY <1>1, <2>1, <2>2 DEF RecordsTypeOK
    <2>4. Storable' /\ Punctual' /\ DueIsScheduled'
      BY <1>2, <2>1, SameSchedule DEF Storable, Punctual, DueIsScheduled
    <2>5. DoneIsRecorded'
      <3>1. SUFFICES ASSUME NEW r \in done
                     PROVE  \E i \in DOMAIN entries' :
                                entries'[i].source = "scheduled" /\ entries'[i].at >= r
        BY <2>1 DEF DoneIsRecorded
      <3>2. PICK i \in DOMAIN entries : entries[i].source = "scheduled" /\ entries[i].at >= r
        BY <1>2 DEF DoneIsRecorded
      <3>3. QED
        BY <2>2, <3>2
    <2>6. QED
      BY <2>2, <2>3, <2>4, <2>5 DEF RecordsInv
  <1>10. CASE EditSchedule
    <2>1. /\ schedule' \in Schedules /\ edited' = now
          /\ UNCHANGED <<now, ahead, waiting, underWay, logged, storing, imported, entries, due,
                         done, reported>>
      BY <1>10 DEF EditSchedule, testVars
    <2>2. RecordsTypeOK'
      BY <1>1, <2>1 DEF RecordsTypeOK
    <2>3. Punctual' /\ Storable' /\ DoneIsRecorded' /\ InTime'
      BY <1>2, <2>1 DEF Punctual, Storable, DoneIsRecorded, InTime
    <2>4. DueIsScheduled'
      BY <1>1, <2>1 DEF DueIsScheduled
    <2>5. ReportsTrue'
      BY <1>2, <2>1, SameRows DEF Over, Week, Day
    <2>6. QED
      BY <2>2, <2>3, <2>4, <2>5 DEF RecordsInv
  <1>11. CASE EditZone
    <2>1. /\ ahead = 0 /\ ahead' \in Int \ {0} /\ now + ahead' >= 0
          /\ UNCHANGED <<now, schedule, waiting, underWay, logged, storing, imported, entries,
                         due, done, edited, reported>>
      BY <1>11, RecordsAssumption DEF EditZone, testVars
    <2>2. RecordsTypeOK'
      <3>1. now' = now /\ ahead' \in Int
        BY <2>1
      <3> DEFINE clock == now' + ahead'
      <3>2. clock \in Int
        BY <1>1, <3>1
      <3>3. clock >= 0
        BY <2>1, <3>1
      <3> HIDE DEF clock
      <3>4. clock \in Nat
        BY <3>2, <3>3
      <3>5. now' + ahead' \in Nat
        BY <3>4 DEF clock
      <3>6. QED
        BY <1>1, <2>1, <3>1, <3>5 DEF RecordsTypeOK
    <2>3. Punctual' /\ Storable' /\ DoneIsRecorded' /\ InTime' /\ DueIsScheduled'
      BY <1>2, <2>1 DEF Punctual, Storable, DoneIsRecorded, InTime, DueIsScheduled
    <2>4. ReportsTrue'
      <3>1. ASSUME NEW r \in reported', r.week \in Nat, Over(r.week) PROVE Over(r.week)'
        <4>1. now + ahead = now
          BY <1>1, <2>1
        <4>2. r.week < Week(now)
          BY <3>1, <4>1 DEF Over
        <4>3. QED
          BY <2>1, <4>2 DEF Over, Week, Day
      <3>2. QED
        BY <1>2, <2>1, <3>1, SameRows
    <2>5. QED
      BY <2>2, <2>3, <2>4 DEF RecordsInv
  <1>12. CASE Restart
    <2>1. /\ now' = now + ahead /\ ahead' = 0
          /\ waiting' = {} /\ underWay' = {} /\ storing' = {}
          /\ due' = {} /\ done' = {} /\ edited' = now'
          /\ reported' = {r \in reported : r.week < Week(now')}
          /\ UNCHANGED <<schedule, logged, imported, entries>>
      BY <1>12 DEF Restart
    <2>2. RecordsTypeOK'
      BY <1>1, <2>1 DEF RecordsTypeOK
    <2>3. Punctual' /\ Storable' /\ DoneIsRecorded' /\ InTime'
      BY <1>2, <2>1 DEF Punctual, Storable, DoneIsRecorded, InTime
    <2>4. DueIsScheduled'
      <3>1. edited' + 1 .. now' = {}
        BY <1>1, <2>1
      <3>2. QED
        BY <3>1 DEF DueIsScheduled
    <2>5. ReportsTrue'
      <3>1. ASSUME NEW r \in reported', r.week \in Nat, Over(r.week) PROVE Over(r.week)'
        <4>1. r.week < Week(now')
          BY <2>1
        <4>2. QED
          BY <4>1 DEF Over, Week, Day
      <3>2. reported' \subseteq reported
        BY <2>1
      <3>3. QED
        BY <1>2, <2>1, <3>1, <3>2, SameRows
    <2>6. QED
      BY <2>2, <2>3, <2>4, <2>5 DEF RecordsInv
  <1>13. CASE WeeklyReport
    <2>1. PICK clock \in {now, now + ahead} :
              /\ ReportWeek(clock) >= 0 /\ reported' = reported \cup {WeekCounts(ReportWeek(clock))}
              /\ UNCHANGED <<now, ahead, schedule, testVars, entries, due, done, edited>>
      BY <1>13 DEF WeeklyReport
    <2>2. UNCHANGED <<now, ahead, schedule, waiting, underWay, logged, storing, imported, entries,
                      due, done, edited>>
      BY <2>1 DEF testVars
    <2>3. RecordsTypeOK'
      BY <1>1, <2>2 DEF RecordsTypeOK
    <2>4. Punctual' /\ DueIsScheduled' /\ Storable' /\ DoneIsRecorded' /\ InTime'
      BY <1>2, <2>2, SameSchedule DEF Punctual, DueIsScheduled, Storable, DoneIsRecorded, InTime
    <2>5. ReportsTrue'
      <3> DEFINE w == ReportWeek(clock)
      <3>1. w \in Nat /\ w < Week(clock)
        <4>1. Week(clock) \in Int
          BY <1>1, Calendar
        <4>2. QED
          BY <2>1, <4>1 DEF ReportWeek
      <3>2. Over(w)
        BY <2>1, <3>1 DEF Over
      <3>3. reported' = reported \cup {WeekCounts(w)}
        BY <2>1
      <3> HIDE DEF w
      <3>4. /\ WeekCounts(w).week = w
            /\ Between(WeekCounts(w).tests, WeekRows(w))
            /\ \A m \in Metrics : Between(WeekCounts(w).breaches[m], WeekRows(w) \cap Breaking(m))
        BY <1>1, <3>1, CountedNow
      <3>5. \A n, E : Between(n, E)' <=> Between(n, E)
        BY <2>2 DEF Between, Places
      <3>6. \A v : Over(v)' <=> Over(v)
        BY <2>2 DEF Over, Week, Day
      <3>7. ASSUME NEW r \in reported'
            PROVE  /\ r.week \in Nat /\ Over(r.week)
                   /\ Between(r.tests, WeekRows(r.week))
                   /\ \A m \in Metrics : Between(r.breaches[m], WeekRows(r.week) \cap Breaking(m))
        <4>1. CASE r \in reported
          BY <1>2, <4>1 DEF ReportsTrue
        <4>2. CASE r = WeekCounts(w)
          BY <3>1, <3>2, <3>4, <4>2
        <4>3. QED
          BY <3>3, <4>1, <4>2
      <3>8. QED
        BY <3>5, <3>6, <3>7 DEF ReportsTrue
    <2>6. QED
      BY <2>3, <2>4, <2>5 DEF RecordsInv
  <1>14. CASE UNCHANGED recordsVars
    <2>1. UNCHANGED <<now, ahead, schedule, waiting, underWay, logged, storing, imported, entries,
                      due, done, edited, reported>>
      BY <1>14 DEF recordsVars
    <2>2. RecordsTypeOK'
      BY <1>1, <2>1 DEF RecordsTypeOK
    <2>3. Punctual' /\ DueIsScheduled' /\ Storable' /\ DoneIsRecorded' /\ InTime'
      BY <1>2, <2>1, SameSchedule DEF Punctual, DueIsScheduled, Storable, DoneIsRecorded, InTime
    <2>4. ReportsTrue'
      BY <1>2, <2>1, SameRows DEF Over, Week, Day
    <2>5. QED
      BY <2>2, <2>3, <2>4 DEF RecordsInv
  <1>15. QED
    BY <1>3, <1>4, <1>5, <1>6, <1>7, <1>8, <1>9, <1>10, <1>11, <1>12, <1>13, <1>14
       DEF RecordsNext

LEMMA RecordsInductive == RecordsSpec => []RecordsInv
  BY RecordsInvInit, RecordsInvStep, PTL DEF RecordsSpec

-----------------------------------------------------------------------------
(* Records: the health check *)

ScheduledTests == {i \in DOMAIN entries : entries[i].source = "scheduled"}

DueRuns == {s \in now - LookBack .. now - Grace : Scheduled(s)}

\* The last of the scheduled tests is the latest of them.
LEMMA LastTestFacts ==
    ASSUME RecordsInv
    PROVE  /\ ScheduledTests = {} => LastTest = None
           /\ ScheduledTests # {} =>
                 \E i \in ScheduledTests :
                     LastTest = entries[i].at /\ \A j \in ScheduledTests : j <= i
  <1>1. entries \in Seq(Entry)
    BY DEF RecordsInv, RecordsTypeOK
  <1>2. Len(entries) \in Nat /\ DOMAIN entries = 1 .. Len(entries)
    BY <1>1, LenProperties
  <1> DEFINE I == {i \in 1 .. Len(entries) : entries[i].source = "scheduled"}
             last == IF I # {} THEN Max(I) ELSE 0
  <1>3. I = ScheduledTests
    BY <1>2 DEF ScheduledTests
  <1>4. LastTest = IF last = 0 THEN None ELSE entries[last].at
    BY DEF LastTest, SelectLastInSeq
  <1>5. I # {} => Max(I) \in I /\ \A j \in I : j <= Max(I)
    <2>1. SUFFICES ASSUME I # {} PROVE Max(I) \in I /\ \A j \in I : j <= Max(I)
      OBVIOUS
    <2>2. I \in SUBSET Int /\ Len(entries) \in Int /\ \A j \in I : j <= Len(entries)
      BY <1>2
    <2> DEFINE n == Len(entries)
    <2> HIDE DEF I, n
    <2>3. QED
      BY <2>1, <2>2, MaxFacts
  <1>6. 0 \notin I
    OBVIOUS
  <1> HIDE DEF I
  <1>7. QED
    BY <1>3, <1>4, <1>5, <1>6

LEMMA LatestFacts ==
    ASSUME RecordsInv
    PROVE  /\ DueRuns = {} => LatestDueScheduledRun = None
           /\ DueRuns # {} => /\ LatestDueScheduledRun \in DueRuns
                              /\ \A s \in DueRuns : s <= LatestDueScheduledRun
           /\ DueRuns \subseteq Int /\ None \notin Int
  <1>1. now \in Nat /\ Grace \in Nat /\ LookBack \in Nat /\ None \notin Int
    BY GraceFacts, RecordsAssumption DEF RecordsInv, RecordsTypeOK
  <1>2. DueRuns \in SUBSET Int /\ now - Grace \in Int /\ \A s \in DueRuns : s <= now - Grace
    BY <1>1 DEF DueRuns
  <1>3. LatestDueScheduledRun = IF DueRuns = {} THEN None ELSE Max(DueRuns)
    BY DEF LatestDueScheduledRun, DueRuns
  <1>4. QED
    BY <1>1, <1>2, <1>3, MaxFacts

LEMMA RealOverdue == RecordsInv => OverdueIsReal
  <1> DEFINE L == LatestDueScheduledRun
  <1>1. SUFFICES ASSUME RecordsInv, ~Healthy, ~ edited >= L, ahead = 0
                 PROVE  /\ L \in due \ done
                        /\ \A t \in underWay :
                              t.run = L => t.since >= L + Grace - EstimatedRuntime
    BY DEF OverdueIsReal
  <1>2. L \in DueRuns
    BY <1>1, LatestFacts DEF Healthy
  <1>3. /\ now \in Nat /\ edited \in 0 .. now /\ entries \in Seq(Entry)
        /\ due \subseteq 1 .. now
        /\ Grace \in Nat /\ LookBack \in Nat
    BY <1>1, GraceFacts DEF RecordsInv, RecordsTypeOK
  <1>4. L \in Int /\ L <= now - Grace /\ Scheduled(L)
    BY <1>2, <1>3 DEF DueRuns
  <1> HIDE DEF L
  <1>5. L \in due
    <2>1. L \in edited + 1 .. now
      BY <1>1, <1>3, <1>4
    <2>2. QED
      BY <1>1, <1>4, <2>1 DEF RecordsInv, DueIsScheduled
  <1>6. ASSUME NEW t \in underWay, t.run = L PROVE t.since >= L + Grace - EstimatedRuntime
    <2>1. t.since \in Int /\ now <= t.since + EstimatedRuntime
      BY <1>1, <1>6 DEF RecordsInv, Punctual
    <2>2. QED
      BY <1>3, <1>4, <2>1, GraceFacts
  <1>7. L \notin done
    <2>1. SUFFICES ASSUME L \in done PROVE FALSE
      OBVIOUS
    <2>2. PICK j \in DOMAIN entries : entries[j].source = "scheduled" /\ entries[j].at >= L
      BY <1>1, <2>1 DEF RecordsInv, DoneIsRecorded
    <2>3. j \in ScheduledTests
      BY <2>2 DEF ScheduledTests
    <2>4. PICK i \in ScheduledTests : LastTest = entries[i].at /\ j <= i
      BY <1>1, <2>3, LastTestFacts
    <2>5. i \in DOMAIN entries /\ i \in Int /\ j \in Int
      BY <1>3, LenProperties DEF ScheduledTests
    <2>6. entries[j].at <= entries[i].at
      <3>1. i = j \/ j < i
        BY <2>4, <2>5
      <3>2. entries[j].at \in Int
        BY <1>3, <2>2, EntryTimes
      <3>3. QED
        BY <1>1, <2>2, <2>5, <3>1, <3>2 DEF RecordsInv, InTime
    <2>7. entries[i].at \in Int /\ entries[j].at \in Int
      BY <1>3, <2>2, <2>5, EntryTimes
    <2>8. LastTest \in Int /\ LastTest >= L
      BY <1>4, <2>2, <2>4, <2>6, <2>7
    <2>9. LastTest # None
      BY <1>1, <2>8, LatestFacts
    <2>10. QED
      BY <1>1, <2>8, <2>9 DEF Healthy, L
  <1>8. QED
    BY <1>5, <1>6, <1>7 DEF L

\* What the health check calls overdue was due, has no row of its own and, if it is under way,
\* started late, for schedules and clocks that were not changed since.
THEOREM OverdueIsRealHolds == RecordsSpec => []OverdueIsReal
  BY RecordsInductive, RealOverdue, PTL

LEMMA OverdueMissed == RecordsInv => MissedIsOverdue
  <1>1. SUFFICES ASSUME RecordsInv, NEW r \in due \ done,
                        r <= now - Grace, \A s \in due : s > r => s > now - Grace,
                        edited < r, ahead = 0,
                        \A i \in DOMAIN entries :
                            entries[i].source = "scheduled" => entries[i].at < r,
                        Healthy
                 PROVE  FALSE
    BY DEF MissedIsOverdue
  <1>2. /\ now \in Nat /\ edited \in 0 .. now /\ entries \in Seq(Entry)
        /\ due \subseteq 1 .. now
        /\ Grace \in Nat /\ WeekLength * DayLength \in Nat \ {0}
        /\ LookBack = WeekLength * DayLength + Grace
    BY <1>1, GraceFacts DEF RecordsInv, RecordsTypeOK
  <1>3. r \in Int /\ Scheduled(r)
    <2>1. r \in edited + 1 .. now
      BY <1>1, <1>2
    <2>2. QED
      BY <1>1, <2>1 DEF RecordsInv, DueIsScheduled
  <1>4. r >= now - LookBack
    <2>1. SUFFICES ASSUME r < now - LookBack PROVE FALSE
      BY <1>2, <1>3
    <2> DEFINE week == WeekLength * DayLength
               s == r + week
    <2>2. Scheduled(s)
      BY <1>3, WeekLater
    <2>3. week \in Nat \ {0} /\ LookBack = week + Grace
      BY <1>2
    <2> HIDE DEF week
    <2>4. s \in edited + 1 .. now /\ s > r /\ ~ s > now - Grace
      <3>1. s \in Int /\ s > r
        BY <1>3, <2>3
      <3>2. r + week < now - Grace
        BY <1>2, <1>3, <2>1, <2>3
      <3>3. s < now - Grace
        BY <3>2
      <3> HIDE DEF s
      <3>4. QED
        BY <1>1, <1>2, <1>3, <3>1, <3>3
    <2> HIDE DEF s
    <2>5. s \in due
      BY <1>1, <2>2, <2>4 DEF RecordsInv, DueIsScheduled
    <2>6. QED
      BY <1>1, <2>4, <2>5
  <1>5. r \in DueRuns
    BY <1>1, <1>2, <1>3, <1>4 DEF DueRuns
  <1>6. LatestDueScheduledRun \in Int /\ r <= LatestDueScheduledRun
    BY <1>1, <1>5, LatestFacts
  <1>7. LastTest # None /\ LastTest >= LatestDueScheduledRun
    BY <1>1, <1>6, LatestFacts DEF Healthy
  <1>8. PICK i \in ScheduledTests : LastTest = entries[i].at
    BY <1>1, <1>7, LastTestFacts
  <1>9. LastTest \in Int /\ LastTest < r
    BY <1>1, <1>2, <1>8, EntryTimes DEF ScheduledTests
  <1>10. QED
    BY <1>3, <1>6, <1>7, <1>9

\* The latest test that was due and not made is called overdue.
THEOREM MissedIsOverdueHolds == RecordsSpec => []MissedIsOverdue
  BY RecordsInductive, OverdueMissed, PTL

-----------------------------------------------------------------------------
(* Records: the weekly report and the summary of a contract *)

LEMMA UnionBound ==
    ASSUME NEW S, NEW T, IsFiniteSet(S), IsFiniteSet(T)
    PROVE  /\ IsFiniteSet(S \cup T)
           /\ Cardinality(S) \in Nat /\ Cardinality(T) \in Nat /\ Cardinality(S \cup T) \in Nat
           /\ Cardinality(S \cup T) <= Cardinality(S) + Cardinality(T)
  <1>1. /\ IsFiniteSet(S \cup T) /\ IsFiniteSet(S \cap T)
        /\ Cardinality(S \cup T) = Cardinality(S) + Cardinality(T) - Cardinality(S \cap T)
    BY FS_Union, FS_Intersection
  <1>2. /\ Cardinality(S) \in Nat /\ Cardinality(T) \in Nat
        /\ Cardinality(S \cup T) \in Nat /\ Cardinality(S \cap T) \in Nat
    BY <1>1, FS_CardinalityType
  <1>3. QED
    BY <1>1, <1>2

\* Four parts cover the bad ones of a set: there are one to four times as many in all.
LEMMA FourParts ==
    ASSUME NEW R, IsFiniteSet(R), NEW G \in SUBSET R,
           NEW A, NEW B, NEW C, NEW D, A \cup B \cup C \cup D = R \ G
    PROVE  /\ Cardinality(R) - Cardinality(G)
                 <= Cardinality(A) + Cardinality(B) + Cardinality(C) + Cardinality(D)
           /\ Cardinality(A) + Cardinality(B) + Cardinality(C) + Cardinality(D)
                 <= 4 * (Cardinality(R) - Cardinality(G))
  <1> DEFINE Bad == R \ G
  <1>1. IsFiniteSet(G) /\ IsFiniteSet(Bad) /\ Cardinality(R) = Cardinality(G) + Cardinality(Bad)
    <2>1. IsFiniteSet(G) /\ IsFiniteSet(Bad)
      BY FS_Subset
    <2>2. R \cap G = G
      OBVIOUS
    <2>3. Cardinality(Bad) = Cardinality(R) - Cardinality(G)
      BY <2>2, FS_Difference
    <2>4. Cardinality(G) \in Nat /\ Cardinality(R) \in Nat
      BY <2>1, FS_CardinalityType
    <2>5. QED
      BY <2>1, <2>3, <2>4
  <1>2. \A X \in SUBSET Bad :
            IsFiniteSet(X) /\ Cardinality(X) \in Nat /\ Cardinality(X) <= Cardinality(Bad)
    BY <1>1, FS_Subset, FS_CardinalityType
  <1>3. {A, B, C, D} \subseteq SUBSET Bad
    OBVIOUS
  <1>4. Cardinality(A \cup B) <= Cardinality(A) + Cardinality(B)
    BY <1>2, <1>3, UnionBound
  <1>5. Cardinality(A \cup B \cup C) <= Cardinality(A \cup B) + Cardinality(C)
    BY <1>2, <1>3, UnionBound
  <1>6. Cardinality(A \cup B \cup C \cup D) <= Cardinality(A \cup B \cup C) + Cardinality(D)
    BY <1>2, <1>3, UnionBound
  <1>7. /\ Cardinality(G) \in Nat /\ Cardinality(Bad) \in Nat
        /\ Cardinality(A \cup B) \in Nat /\ Cardinality(A \cup B \cup C) \in Nat
    BY <1>1, <1>2, <1>3, FS_CardinalityType
  <1>8. /\ Cardinality(A) \in Nat /\ Cardinality(A) <= Cardinality(Bad)
        /\ Cardinality(B) \in Nat /\ Cardinality(B) <= Cardinality(Bad)
        /\ Cardinality(C) \in Nat /\ Cardinality(C) <= Cardinality(Bad)
        /\ Cardinality(D) \in Nat /\ Cardinality(D) <= Cardinality(Bad)
    BY <1>2, <1>3
  <1>9. Cardinality(A \cup B \cup C \cup D) = Cardinality(Bad)
    OBVIOUS
  <1>10. QED
    BY <1>1, <1>4, <1>5, <1>6, <1>7, <1>8, <1>9

LEMMA FinalReport == RecordsInv => ReportIsFinal
  <1>1. SUFFICES ASSUME RecordsInv, NEW r \in reported
                 PROVE  LET week == InWeek(r.week)
                            timely == {i \in week : ~entries[i].late}
                            bad == Cardinality(week) - GoodTests(week)
                            summary == ContractSummary(r.week * WeekLength,
                                                       (r.week + 1) * WeekLength - 1)
                        IN  /\ Cardinality(timely) <= r.tests /\ r.tests <= summary.tests
                            /\ \A m \in Metrics : /\ BadTests(timely, m) <= r.breaches[m]
                                                  /\ r.breaches[m] <= summary.breaches[m]
                            /\ bad <= summary.total /\ summary.total <= 4 * bad
    BY DEF ReportIsFinal
  <1> DEFINE w == r.week
             inWeek == InWeek(w)
             timely == {i \in inWeek : ~entries[i].late}
             summary == ContractSummary(w * WeekLength, (w + 1) * WeekLength - 1)
             Bad(m) == {i \in inWeek : m \in entries[i].breaches}
             Good == {i \in inWeek : entries[i].breaches = {}}
  <1>2. /\ w \in Nat /\ Between(r.tests, WeekRows(w))
        /\ \A m \in Metrics : Between(r.breaches[m], WeekRows(w) \cap Breaking(m))
    BY <1>1 DEF RecordsInv, ReportsTrue
  <1>3. /\ inWeek = Places(WeekRows(w)) /\ timely = Places(WeekRows(w) \cap Timely)
        /\ \A m : Bad(m) = Places(WeekRows(w) \cap Breaking(m))
        /\ \A m : {i \in timely : m \in entries[i].breaches}
                    = Places((WeekRows(w) \cap Breaking(m)) \cap Timely)
    <2>1. \A i \in DOMAIN entries : entries[i] \in Entry
      BY <1>1, ElementOfSeq, LenProperties DEF RecordsInv, RecordsTypeOK
    <2> HIDE DEF w
    <2>2. inWeek = Places(WeekRows(w))
      BY <2>1 DEF InWeek, InDays, Places, WeekRows
    <2> HIDE DEF inWeek
    <2>3. timely = Places(WeekRows(w) \cap Timely)
      BY <2>1, <2>2 DEF Places, Timely
    <2>4. \A m : Bad(m) = Places(WeekRows(w) \cap Breaking(m))
      BY <2>1, <2>2 DEF Places, Breaking
    <2>5. \A m : {i \in timely : m \in entries[i].breaches}
                    = Places((WeekRows(w) \cap Breaking(m)) \cap Timely)
      BY <2>1, <2>2 DEF Places, Breaking, Timely
    <2>6. QED
      BY <2>2, <2>3, <2>4, <2>5
  <1>4. InDays(w * WeekLength, (w + 1) * WeekLength - 1) = inWeek
    <2>1. WeekLength \in Nat
      BY RecordsAssumption
    <2> HIDE DEF w
    <2>2. (w + 1) * WeekLength - 1 = w * WeekLength + WeekLength - 1
      BY <1>2, <2>1
    <2>3. QED
      BY <2>2 DEF InWeek, inWeek
  <1> HIDE DEF w, inWeek, timely
  <1>5. /\ summary.tests = Cardinality(inWeek)
        /\ summary.breaches = [m \in Metrics |-> BadTests(inWeek, m)]
        /\ summary.total = Cardinality(Bad("download")) + Cardinality(Bad("upload"))
                           + Cardinality(Bad("ping")) + Cardinality(Bad("packet_loss"))
    BY <1>4 DEF ContractSummary, BadTests, Metrics
  <1>6. entries \in Seq(Entry) /\ inWeek \subseteq DOMAIN entries
    BY <1>1 DEF RecordsInv, RecordsTypeOK, inWeek, InWeek, InDays
  <1>7. IsFiniteSet(inWeek)
    BY <1>6, LenProperties, FS_Interval, FS_Subset
  <1>8. Bad("download") \cup Bad("upload") \cup Bad("ping") \cup Bad("packet_loss") = inWeek \ Good
    <2>1. \A i \in inWeek : entries[i] \in Entry
      BY <1>6, ElementOfSeq, LenProperties
    <2>2. \A i \in inWeek :
              entries[i].breaches \subseteq {"download", "upload", "ping", "packet_loss"}
      BY <2>1, RecordsAssumption DEF Entry, Metrics
    <2>3. QED
      BY <2>2
  <1>9. Good \in SUBSET inWeek
    OBVIOUS
  <1> DEFINE A == Bad("download")
             B == Bad("upload")
             C == Bad("ping")
             D == Bad("packet_loss")
  <1> HIDE DEF Bad, Good, summary
  <1>10. /\ Cardinality(inWeek) - Cardinality(Good) <= summary.total
         /\ summary.total <= 4 * (Cardinality(inWeek) - Cardinality(Good))
    <2>1. A \cup B \cup C \cup D = inWeek \ Good
      BY <1>8
    <2>2. summary.total = Cardinality(A) + Cardinality(B) + Cardinality(C) + Cardinality(D)
      BY <1>5
    <2> HIDE DEF A, B, C, D
    <2>3. /\ Cardinality(inWeek) - Cardinality(Good)
                <= Cardinality(A) + Cardinality(B) + Cardinality(C) + Cardinality(D)
          /\ Cardinality(A) + Cardinality(B) + Cardinality(C) + Cardinality(D)
                <= 4 * (Cardinality(inWeek) - Cardinality(Good))
      BY <1>7, <1>9, <2>1, FourParts, Zenon
    <2>4. QED
      BY <2>2, <2>3
  <1>11. Cardinality(timely) <= r.tests /\ r.tests <= summary.tests
    BY <1>2, <1>3, <1>5 DEF Between
  <1>12. ASSUME NEW m \in Metrics
         PROVE  BadTests(timely, m) <= r.breaches[m] /\ r.breaches[m] <= summary.breaches[m]
    <2>1. BadTests(timely, m) = Cardinality(Places((WeekRows(w) \cap Breaking(m)) \cap Timely))
      BY <1>3 DEF BadTests
    <2>2. summary.breaches[m] = Cardinality(Places(WeekRows(w) \cap Breaking(m)))
      <3>1. BadTests(inWeek, m) = Cardinality(Bad(m))
        BY DEF BadTests, Bad
      <3>2. summary.breaches[m] = BadTests(inWeek, m)
        BY <1>5
      <3>3. QED
        BY <1>3, <3>1, <3>2
    <2>3. Between(r.breaches[m], WeekRows(w) \cap Breaking(m))
      BY <1>2
    <2>4. QED
      BY <2>1, <2>2, <2>3 DEF Between
  <1>13. GoodTests(inWeek) = Cardinality(Good)
    BY DEF GoodTests, Good
  <1>14. QED
    BY <1>10, <1>11, <1>12, <1>13 DEF summary, timely, inWeek, w

\* What a weekly report counted, the summary of that week never falls short of, and without
\* the rows that came late never exceeds.
THEOREM ReportIsFinalHolds == RecordsSpec => []ReportIsFinal
  BY RecordsInductive, FinalReport, PTL

-----------------------------------------------------------------------------
(* Records: recursion over the entries *)

\* What n steps make of a base.
Iterations(H, n, base, step) ==
    {f \in [0 .. n -> H] : f[0] = base /\ \A i \in 1 .. n : f[i] = step[i][f[i - 1]]}

\* A function is defined by its first value and what follows from each.
LEMMA Recursion ==
    ASSUME NEW H, NEW n \in Nat, NEW base \in H, NEW step \in [1 .. n -> [H -> H]]
    PROVE  Iterations(H, n, base, step) # {}
  <1> DEFINE Upto(m) ==
                 \E f \in [0 .. m -> H] : f[0] = base /\ \A i \in 1 .. m : f[i] = step[i][f[i - 1]]
             T == {m \in 0 .. n : ~Upto(m)}
  <1>1. SUFFICES ASSUME T # {} PROVE FALSE
    <2>1. n \in 0 .. n
      OBVIOUS
    <2>2. Upto(n) => Iterations(H, n, base, step) # {}
      BY DEF Iterations
    <2> HIDE DEF Upto
    <2>3. QED
      BY <2>1, <2>2
  <1>2. PICK m \in T : \A y \in T : m <= y
    <2>1. T \in SUBSET Nat
      OBVIOUS
    <2> HIDE DEF T
    <2>2. QED
      BY <1>1, <2>1, LeastNat
  <1>3. Upto(0)
    <2> DEFINE f == [i \in 0 .. 0 |-> base]
    <2>1. f \in [0 .. 0 -> H] /\ f[0] = base /\ \A i \in 1 .. 0 : f[i] = step[i][f[i - 1]]
      OBVIOUS
    <2>2. QED
      BY <2>1
  <1>4. m \in 1 .. n
    <2>1. m \in 0 .. n /\ ~Upto(m)
      OBVIOUS
    <2> HIDE DEF Upto
    <2>2. m # 0
      BY <1>3, <2>1
    <2>3. QED
      BY <2>1, <2>2
  <1>5. Upto(m - 1)
    <2>1. m - 1 \in 0 .. n /\ ~ m <= m - 1
      BY <1>4
    <2>2. QED
      BY <1>2, <2>1
  <1>6. PICK f \in [0 .. m - 1 -> H] :
            f[0] = base /\ \A i \in 1 .. m - 1 : f[i] = step[i][f[i - 1]]
    BY <1>5
  <1> DEFINE g == [i \in 0 .. m |-> IF i = m THEN step[m][f[m - 1]] ELSE f[i]]
  <1>7. g \in [0 .. m -> H]
    <2>1. f[m - 1] \in H
      BY <1>4
    <2>2. step[m][f[m - 1]] \in H
      BY <1>4, <2>1
    <2>3. \A i \in 0 .. m : i = m \/ i \in 0 .. m - 1
      BY <1>4
    <2>4. QED
      BY <2>2, <2>3
  <1>8. g[0] = base
    BY <1>4, <1>6
  <1>9. \A i \in 1 .. m : g[i] = step[i][g[i - 1]]
    <2>1. TAKE i \in 1 .. m
    <2>2. i - 1 \in 0 .. m - 1 /\ g[i - 1] = f[i - 1]
      BY <1>4
    <2>3. CASE i = m
      BY <1>4, <2>2, <2>3
    <2>4. CASE i # m
      <3>1. i \in 1 .. m - 1 /\ g[i] = f[i]
        BY <1>4, <2>4
      <3>2. QED
        BY <1>6, <2>2, <3>1
    <2>5. QED
      BY <2>3, <2>4
  <1>10. Upto(m)
    <2> HIDE DEF g
    <2> QED
      BY <1>7, <1>8, <1>9
  <1>11. QED
    BY <1>10

LEMMA LastReplaced ==
    ASSUME NEW S, NEW s \in Seq(S), s # <<>>, NEW x \in S
    PROVE  /\ Len(s) \in Nat /\ Len(s) >= 1 /\ Last(s) = s[Len(s)] /\ Last(s) \in S
           /\ Append(Front(s), x) \in Seq(S) /\ Len(Append(Front(s), x)) = Len(s)
           /\ \A j \in 1 .. Len(s) - 1 : Append(Front(s), x)[j] = s[j]
           /\ Append(Front(s), x)[Len(s)] = x
  <1>1. Len(s) \in Nat /\ Len(s) >= 1 /\ \A i \in 1 .. Len(s) : s[i] \in S
    BY EmptySeq, LenProperties, ElementOfSeq
  <1>2. Front(s) \in Seq(S) /\ Len(Front(s)) = Len(s) - 1 /\ \A i \in 1 .. Len(s) - 1 : Front(s)[i] = s[i]
    <2>1. \A i \in 1 .. Len(s) - 1 : s[i] \in S
      BY <1>1
    <2>2. /\ SubSeq(s, 1, Len(s) - 1) \in Seq(S)
          /\ Len(SubSeq(s, 1, Len(s) - 1)) = IF 1 <= Len(s) - 1 THEN Len(s) - 1 - 1 + 1 ELSE 0
          /\ \A i \in 1 .. Len(s) - 1 - 1 + 1 : SubSeq(s, 1, Len(s) - 1)[i] = s[1 + i - 1]
      BY <1>1, <2>1, SubSeqProperties
    <2>3. Len(s) - 1 - 1 + 1 = Len(s) - 1 /\ \A i \in 1 .. Len(s) - 1 : 1 + i - 1 = i
      BY <1>1
    <2>4. QED
      BY <1>1, <2>2, <2>3 DEF Front
  <1> DEFINE f == Front(s)
  <1> HIDE DEF f
  <1>3. /\ Append(f, x) \in Seq(S) /\ Len(Append(f, x)) = Len(f) + 1
        /\ \A i \in 1 .. Len(f) : Append(f, x)[i] = f[i]
        /\ Append(f, x)[Len(f) + 1] = x
    BY <1>2, AppendProperties DEF f
  <1>4. Len(f) = Len(s) - 1 /\ Len(f) + 1 = Len(s)
    BY <1>1, <1>2 DEF f
  <1>5. QED
    BY <1>1, <1>2, <1>3, <1>4 DEF f, Last

Incident == [start : Nat, until : Nat, tests : Nat, counts : [Metrics -> Nat], ongoing : BOOLEAN]

LEMMA IncidentTypes ==
    ASSUME NEW e \in Entry
    PROVE  /\ NewIncident(e) \in Incident
           /\ \A i \in Incident : Counted(i, e) \in Incident /\ Resolved(i, e) \in Incident
  <1>1. e.at \in Nat
    BY DEF Entry
  <1>2. NewIncident(e) \in Incident
    BY <1>1 DEF NewIncident, Incident
  <1>3. ASSUME NEW i \in Incident PROVE Counted(i, e) \in Incident /\ Resolved(i, e) \in Incident
    <2>1. Resolved(i, e) \in Incident
      BY <1>1 DEF Resolved, Incident
    <2> DEFINE c == [m \in Metrics |-> i.counts[m] + IF m \in e.breaches THEN 1 ELSE 0]
    <2>2. c \in [Metrics -> Nat]
      <3>1. \A m \in Metrics : i.counts[m] \in Nat
        BY DEF Incident
      <3>2. QED
        BY <3>1
    <2>3. Counted(i, e) = [i EXCEPT !.until = e.at, !.tests = i.tests + 1, !.counts = c]
      BY DEF Counted
    <2>4. i.tests + 1 \in Nat
      BY DEF Incident
    <2> DEFINE t == i.tests + 1
    <2> HIDE DEF c, t
    <2>5. [i EXCEPT !.until = e.at, !.tests = t, !.counts = c] \in Incident
      BY <1>1, <2>2, <2>4 DEF Incident, t
    <2>6. Counted(i, e) \in Incident
      BY <2>3, <2>5 DEF t
    <2>7. QED
      BY <2>1, <2>6
  <1>4. QED
    BY <1>2, <1>3

\* What a turn of the loop does with a bad and with a good entry.
LEMMA TurnFacts ==
    ASSUME NEW h \in Seq(Incident), NEW e \in Entry
    PROVE  /\ WithEntry(h, e) \in Seq(Incident)
           /\ h # <<>> /\ h[Len(h)].ongoing =>
                 LET last == IF e.breaches # {} THEN Counted(h[Len(h)], e)
                                                ELSE Resolved(h[Len(h)], e)
                 IN  /\ Len(h) \in Nat \ {0} /\ Len(WithEntry(h, e)) = Len(h)
                     /\ \A j \in 1 .. Len(h) - 1 : WithEntry(h, e)[j] = h[j]
                     /\ WithEntry(h, e)[Len(h)] = last
           /\ ~(h # <<>> /\ h[Len(h)].ongoing) =>
                 WithEntry(h, e) = IF e.breaches # {} THEN Append(h, Counted(NewIncident(e), e))
                                                      ELSE h
  <1> DEFINE open == h # <<>> /\ h[Len(h)].ongoing
             i == h[Len(h)]
             g == WithEntry(h, e)
  <1>1. /\ e.breaches # {} /\ open => g = Append(Front(h), Counted(i, e))
        /\ e.breaches # {} /\ ~open => g = Append(h, Counted(NewIncident(e), e))
        /\ e.breaches = {} /\ open => g = Append(Front(h), Resolved(i, e))
        /\ e.breaches = {} /\ ~open => g = h
    BY DEF WithEntry, Last
  <1>2. Counted(NewIncident(e), e) \in Incident
    BY IncidentTypes
  <1>3. Append(h, Counted(NewIncident(e), e)) \in Seq(Incident)
    BY <1>2, AppendProperties
  <1>4. CASE open
    <2> DEFINE last == IF e.breaches # {} THEN Counted(i, e) ELSE Resolved(i, e)
    <2>1. i \in Incident
      BY <1>4, EmptySeq, LenProperties, ElementOfSeq
    <2>2. last \in Incident
      BY <2>1, IncidentTypes
    <2>3. g = Append(Front(h), last)
      BY <1>1, <1>4
    <2> HIDE DEF last, g, i
    <2>4. /\ Len(h) \in Nat /\ Len(h) >= 1
          /\ g \in Seq(Incident) /\ Len(g) = Len(h)
          /\ \A j \in 1 .. Len(h) - 1 : g[j] = h[j]
          /\ g[Len(h)] = last
      <3>1. h # <<>>
        BY <1>4
      <3> HIDE DEF open
      <3>2. /\ Len(h) \in Nat /\ Len(h) >= 1
            /\ Append(Front(h), last) \in Seq(Incident) /\ Len(Append(Front(h), last)) = Len(h)
            /\ \A j \in 1 .. Len(h) - 1 : Append(Front(h), last)[j] = h[j]
            /\ Append(Front(h), last)[Len(h)] = last
        BY <2>2, <3>1, LastReplaced
      <3>3. QED
        BY <2>3, <3>2
    <2>5. QED
      BY <1>4, <2>4 DEF last, g, i
  <1>5. CASE ~open
    BY <1>1, <1>3, <1>5
  <1>6. QED
    BY <1>4, <1>5

\* What the loop has made of the entries up to each.
Turns(R) ==
    {f \in [0 .. Len(entries) -> Seq(Incident)] :
        /\ f[0] = <<>> /\ Incidents(R) = f[Len(entries)]
        /\ \A i \in 1 .. Len(entries) :
              f[i] = IF i \in R THEN WithEntry(f[i - 1], entries[i]) ELSE f[i - 1]}

\* The incidents are what it leaves after the last.
LEMMA IncidentsFacts == ASSUME entries \in Seq(Entry), NEW R PROVE Turns(R) # {}
  <1> DEFINE n == Len(entries)
             H == Seq(Incident)
             turn(i, h) == IF i \in R THEN WithEntry(h, entries[i]) ELSE h
             step == [i \in 1 .. n |-> [h \in H |-> turn(i, h)]]
             E(g) == [i \in 0 .. n |->
                         IF i = 0 THEN <<>>
                         ELSE IF i \in R THEN WithEntry(g[i - 1], entries[i]) ELSE g[i - 1]]
             after == CHOOSE g : g = E(g)
  <1>1. n \in Nat /\ \A i \in 1 .. n : entries[i] \in Entry
    BY LenProperties, ElementOfSeq
  <1>2. <<>> \in H
    BY EmptySeq
  <1>3. step \in [1 .. n -> [H -> H]]
    <2>1. \A i \in 1 .. n : \A h \in H : turn(i, h) \in H
      BY <1>1, TurnFacts
    <2> HIDE DEF turn, H
    <2>2. QED
      BY <2>1
  <1>4. PICK f \in [0 .. n -> H] : f[0] = <<>> /\ \A i \in 1 .. n : f[i] = step[i][f[i - 1]]
    <2>1. n \in Nat
      BY <1>1
    <2> HIDE DEF step, H, n
    <2>2. Iterations(H, n, <<>>, step) # {}
      BY <1>2, <1>3, <2>1, Recursion
    <2>3. QED
      BY <2>2 DEF Iterations
  <1>5. \A i \in 1 .. n : f[i] = IF i \in R THEN WithEntry(f[i - 1], entries[i]) ELSE f[i - 1]
    <2>1. TAKE i \in 1 .. n
    <2>2. i - 1 \in 0 .. n
      BY <1>1
    <2>3. f[i - 1] \in H
      BY <1>4, <2>2
    <2>4. step[i][f[i - 1]] = turn(i, f[i - 1])
      <3> HIDE DEF turn, H
      <3> QED
        BY <2>3
    <2>5. QED
      BY <1>4, <2>4
  <1>6. f = E(f)
    <2>1. \A i \in 0 .. n : f[i] = E(f)[i]
      <3>1. TAKE i \in 0 .. n
      <3>2. CASE i = 0
        BY <1>4, <3>2
      <3>3. CASE i # 0
        <4>1. i \in 1 .. n
          BY <1>1, <3>3
        <4>2. QED
          BY <1>5, <3>3, <4>1
      <3>4. QED
        BY <3>2, <3>3
    <2>2. f = [i \in 0 .. n |-> f[i]]
      BY <1>4
    <2>3. E(f) = [i \in 0 .. n |-> E(f)[i]]
      OBVIOUS
    <2> HIDE DEF E
    <2>4. QED
      BY <2>1, <2>2, <2>3
  <1>7. after = E(after)
    <2> HIDE DEF E
    <2> QED
      BY <1>6
  <1>8. after[n] = f[n]
    <2> DEFINE T == {i \in 0 .. n : after[i] # f[i]}
    <2>1. SUFFICES ASSUME T # {} PROVE FALSE
      <3>1. n \in 0 .. n
        BY <1>1
      <3> HIDE DEF after
      <3>2. QED
        BY <3>1
    <2>2. PICK m \in T : \A y \in T : m <= y
      <3>1. T \in SUBSET Nat
        BY <1>1
      <3> HIDE DEF T
      <3>2. QED
        BY <2>1, <3>1, LeastNat
    <2> HIDE DEF after
    <2>3. m \in 0 .. n /\ after[m] # f[m]
      OBVIOUS
    <2>4. \A i \in 0 .. n : after[i] = E(after)[i]
      BY <1>7
    <2>5. m # 0
      BY <1>1, <1>4, <2>3, <2>4
    <2>6. m \in 1 .. n /\ m - 1 \in 0 .. n /\ ~ m <= m - 1
      BY <1>1, <2>3, <2>5
    <2>7. after[m - 1] = f[m - 1]
      BY <2>2, <2>6
    <2>8. after[m] = IF m \in R THEN WithEntry(after[m - 1], entries[m]) ELSE after[m - 1]
      BY <2>4, <2>5, <2>6
    <2>9. QED
      BY <1>5, <2>3, <2>6, <2>7, <2>8
  <1>9. Incidents(R) = after[n]
    BY DEF Incidents
  <1>10. Incidents(R) = f[n]
    BY <1>8, <1>9
  <1>11. f \in Turns(R)
    <2> HIDE DEF after, step, H, E, turn
    <2>1. \A i \in 1 .. Len(entries) :
             f[i] = IF i \in R THEN WithEntry(f[i - 1], entries[i]) ELSE f[i - 1]
      BY <1>5
    <2>2. f \in [0 .. Len(entries) -> Seq(Incident)] /\ f[0] = <<>>
      BY <1>4 DEF H
    <2>3. QED
      BY <1>10, <2>1, <2>2 DEF Turns
  <1>12. QED
    BY <1>11

-----------------------------------------------------------------------------
(* Records: the stretches of bad tests *)

\* A window reaches to the last entry.
IsWindow(R) ==
    R \subseteq DOMAIN entries /\ \A k \in R : \A l \in DOMAIN entries : l > k => l \in R

Upto(S, n) == {l \in S : l <= n}

\* Incident i is the part up to n of the stretch that starts with k.
Covers(i, R, k, n) ==
    /\ i.start = entries[k].at
    /\ i.tests = Cardinality(Upto(Stretch(R, k), n))
    /\ \A m \in Metrics : i.counts[m] = BadTests(Upto(Stretch(R, k), n), m)

LEMMA EntryFacts ==
    ASSUME entries \in Seq(Entry)
    PROVE  /\ Len(entries) \in Nat /\ DOMAIN entries = 1 .. Len(entries)
           /\ \A i \in DOMAIN entries : /\ entries[i] \in Entry /\ entries[i].at \in Nat
                                        /\ entries[i].breaches \subseteq Metrics
  <1>1. \A i \in DOMAIN entries : entries[i] \in Entry
    BY ElementOfSeq, LenProperties
  <1>2. \A e \in Entry : e.at \in Nat /\ e.breaches \subseteq Metrics
    BY RecordsAssumption DEF Entry
  <1>3. QED
    BY <1>1, <1>2, LenProperties

LEMMA RecentIsWindow ==
    ASSUME entries \in Seq(Entry), InTime, now \in Nat, ahead \in Int, NEW days \in Nat
    PROVE  IsWindow(Recent(days))
  <1> DEFINE first == now + ahead - days * DayLength
  <1>1. first \in Int
    <2>1. DayLength \in Nat
      BY RecordsAssumption
    <2>2. QED
      BY <2>1
  <1>2. Recent(days) = {i \in DOMAIN entries : entries[i].at >= first}
    BY DEF Recent
  <1> HIDE DEF first
  <1>3. ASSUME NEW k \in Recent(days), NEW l \in DOMAIN entries, l > k PROVE l \in Recent(days)
    <2>1. entries[k].at \in Nat /\ entries[l].at \in Nat /\ entries[k].at <= entries[l].at
      BY <1>2, <1>3, EntryFacts DEF InTime
    <2>2. QED
      BY <1>1, <1>2, <2>1
  <1>4. QED
    BY <1>2, <1>3 DEF IsWindow

\* A stretch is over where the next one starts.
LEMMA StretchesApart ==
    ASSUME entries \in Seq(Entry), NEW R, IsWindow(R),
           NEW k \in Starts(R), NEW q \in Starts(R), k < q, NEW l \in Int, q <= l
    PROVE  l \notin Stretch(R, k)
  <1>1. k \in 1 .. Len(entries) /\ q \in 1 .. Len(entries) /\ k \in R /\ Len(entries) \in Nat
    BY EntryFacts DEF Starts, IsWindow
  <1>2. q - 1 \in R
    <2>1. CASE q - 1 = k
      BY <1>1, <2>1
    <2>2. CASE q - 1 # k
      <3>1. q - 1 \in DOMAIN entries /\ q - 1 > k
        BY <1>1, <2>2, EntryFacts
      <3>2. QED
        BY <1>1, <3>1 DEF IsWindow
    <2>3. QED
      BY <2>1, <2>2
  <1>3. ~IsBad(q - 1)
    BY <1>2 DEF Starts
  <1>4. q - 1 \in k .. l
    BY <1>1
  <1>5. QED
    BY <1>3, <1>4 DEF Stretch

\* Every bad test is in a stretch.
LEMMA StretchOf ==
    ASSUME entries \in Seq(Entry), NEW R, IsWindow(R), NEW l \in R, IsBad(l)
    PROVE  \E k \in Starts(R) : k <= l /\ l \in Stretch(R, k)
  <1>1. /\ Len(entries) \in Nat /\ R \subseteq 1 .. Len(entries) /\ R \subseteq Nat /\ l \in Nat
    <2>1. Len(entries) \in Nat /\ R \subseteq 1 .. Len(entries)
      BY EntryFacts DEF IsWindow
    <2>2. \A i \in 1 .. Len(entries) : i \in Nat
      BY <2>1
    <2>3. QED
      BY <2>1, <2>2
  <1> DEFINE T == {k \in R : k <= l /\ \A i \in k .. l : i \in R /\ IsBad(i)}
  <1>2. l \in T
    <2>1. \A i \in l .. l : i = l
      BY <1>1
    <2>2. QED
      BY <1>1, <2>1
  <1>3. T \in SUBSET Nat
    BY <1>1
  <1>4. PICK k \in T : \A y \in T : k <= y
    <2> HIDE DEF T
    <2> QED
      BY <1>2, <1>3, LeastNat
  <1>5. k \in R /\ k \in Nat /\ k <= l /\ \A i \in k .. l : i \in R /\ IsBad(i)
    BY <1>1
  <1>6. IsBad(k)
    BY <1>1, <1>5
  <1>7. ~(k - 1 \in R /\ IsBad(k - 1))
    <2>1. SUFFICES ASSUME k - 1 \in R, IsBad(k - 1) PROVE FALSE
      OBVIOUS
    <2>2. \A i \in k - 1 .. l : i = k - 1 \/ i \in k .. l
      BY <1>1, <1>5
    <2>3. \A i \in k - 1 .. l : i \in R /\ IsBad(i)
      BY <1>5, <2>1, <2>2
    <2>4. k - 1 <= l
      BY <1>1, <1>5
    <2>5. k - 1 \in T
      BY <2>1, <2>3, <2>4
    <2> HIDE DEF T
    <2>6. k <= k - 1
      BY <1>4, <2>5
    <2>7. QED
      BY <1>5, <2>6
  <1>8. k \in Starts(R) /\ l \in Stretch(R, k)
    BY <1>5, <1>6, <1>7 DEF Starts, Stretch
  <1>9. QED
    BY <1>5, <1>8

\* One more entry that is not of the stretch, and one that is.
LEMMA CoversSame ==
    ASSUME entries \in Seq(Entry), NEW R, IsWindow(R), NEW k, NEW n \in 1 .. Len(entries),
           n \notin Stretch(R, k), NEW i, Covers(i, R, k, n - 1)
    PROVE  Covers(i, R, k, n)
  <1>1. Stretch(R, k) \subseteq 1 .. Len(entries) /\ Len(entries) \in Nat
    BY EntryFacts DEF Stretch, IsWindow
  <1>2. Upto(Stretch(R, k), n) = Upto(Stretch(R, k), n - 1)
    <2>1. \A l \in Stretch(R, k) : l <= n <=> l <= n - 1
      BY <1>1
    <2>2. QED
      BY <2>1 DEF Upto
  <1>3. QED
    BY <1>2 DEF Covers

LEMMA CoversMore ==
    ASSUME entries \in Seq(Entry), NEW R, IsWindow(R), NEW k, NEW n \in 1 .. Len(entries),
           n \in Stretch(R, k), NEW i \in Incident, Covers(i, R, k, n - 1)
    PROVE  Covers(Counted(i, entries[n]), R, k, n)
  <1> DEFINE S == Stretch(R, k)
             P == Upto(S, n - 1)
             Q == Upto(S, n)
  <1>1. S \subseteq 1 .. Len(entries) /\ Len(entries) \in Nat /\ DOMAIN entries = 1 .. Len(entries)
    BY EntryFacts DEF Stretch, IsWindow
  <1>2. Q = P \cup {n} /\ n \notin P
    <2>1. \A l \in S : l <= n <=> l <= n - 1 \/ l = n
      BY <1>1
    <2>2. ~ n <= n - 1
      BY <1>1
    <2>3. P = {l \in S : l <= n - 1} /\ Q = {l \in S : l <= n}
      BY DEF Upto
    <2>4. n \in S
      OBVIOUS
    <2> HIDE DEF S, P, Q
    <2>5. QED
      BY <2>1, <2>2, <2>3, <2>4
  <1>3. IsFiniteSet(P)
    <2>1. P \subseteq 1 .. Len(entries)
      BY <1>1 DEF Upto
    <2>2. IsFiniteSet(1 .. Len(entries))
      BY <1>1, FS_Interval
    <2> HIDE DEF P
    <2>3. QED
      BY <2>1, <2>2, FS_Subset
  <1> DEFINE e == entries[n]
             c == Counted(i, e)
  <1>4. /\ c.start = i.start /\ c.tests = i.tests + 1
        /\ \A m \in Metrics : c.counts[m] = i.counts[m] + IF m \in e.breaches THEN 1 ELSE 0
    <2> DEFINE counts == [m \in Metrics |-> i.counts[m] + IF m \in e.breaches THEN 1 ELSE 0]
    <2>1. c = [i EXCEPT !.until = e.at, !.tests = i.tests + 1, !.counts = counts]
      BY DEF Counted
    <2>2. \A m \in Metrics : counts[m] = i.counts[m] + IF m \in e.breaches THEN 1 ELSE 0
      OBVIOUS
    <2> HIDE DEF c, counts
    <2>3. c.start = i.start /\ c.tests = i.tests + 1 /\ c.counts = counts
      BY <2>1 DEF Incident
    <2>4. QED
      BY <2>2, <2>3
  <1> HIDE DEF S, P, Q, c
  <1>5. Cardinality(Q) = Cardinality(P) + 1
    BY <1>2, <1>3, FS_AddElement
  <1>6. ASSUME NEW m \in Metrics
        PROVE  BadTests(Q, m) = BadTests(P, m) + IF m \in e.breaches THEN 1 ELSE 0
    <2> DEFINE A == {j \in P : m \in entries[j].breaches}
               B == {j \in Q : m \in entries[j].breaches}
    <2>1. IsFiniteSet(A) /\ n \notin A
      BY <1>2, <1>3, FS_Subset
    <2>2. CASE m \in e.breaches
      <3>1. B = A \cup {n}
        BY <1>2, <2>2
      <3> HIDE DEF A, B
      <3>2. Cardinality(B) = Cardinality(A) + 1
        BY <2>1, <3>1, FS_AddElement
      <3>3. QED
        BY <2>2, <3>2 DEF BadTests, A, B
    <2>3. CASE m \notin e.breaches
      <3>1. B = A
        BY <1>2, <2>3
      <3> HIDE DEF A, B
      <3>2. Cardinality(A) \in Nat
        BY <2>1, FS_CardinalityType
      <3>3. BadTests(Q, m) = Cardinality(A) /\ BadTests(P, m) = Cardinality(A)
        BY <3>1 DEF BadTests, A, B
      <3>4. QED
        BY <2>3, <3>2, <3>3
    <2>4. QED
      BY <2>2, <2>3
  <1>7. i.tests = Cardinality(P) /\ i.start = entries[k].at
    BY DEF Covers, P, S
  <1>8. \A m \in Metrics : i.counts[m] = BadTests(P, m)
    BY DEF Covers, P, S
  <1>9. /\ c.start = entries[k].at /\ c.tests = Cardinality(Q)
        /\ \A m \in Metrics : c.counts[m] = BadTests(Q, m)
    BY <1>4, <1>5, <1>6, <1>7, <1>8
  <1>10. QED
    BY <1>9 DEF Covers, Q, S, c

\* A new incident is that of the stretch that starts with this entry.
LEMMA CoversNew ==
    ASSUME entries \in Seq(Entry), NEW R, IsWindow(R), NEW n \in Starts(R)
    PROVE  /\ n \in Stretch(R, n)
           /\ Covers(Counted(NewIncident(entries[n]), entries[n]), R, n, n)
  <1>1. n \in 1 .. Len(entries) /\ n \in R /\ IsBad(n) /\ Len(entries) \in Nat /\ entries[n] \in Entry
    BY EntryFacts DEF Starts, IsWindow
  <1>2. n \in Stretch(R, n)
    <2>1. \A i \in n .. n : i = n
      BY <1>1
    <2>2. QED
      BY <1>1, <2>1 DEF Stretch
  <1> DEFINE i == NewIncident(entries[n])
  <1>3. Upto(Stretch(R, n), n - 1) = {}
    <2>1. \A l \in Stretch(R, n) : l \in Int /\ l >= n
      BY EntryFacts DEF Stretch, IsWindow
    <2>2. QED
      BY <1>1, <2>1 DEF Upto
  <1>4. Covers(i, R, n, n - 1)
    <2>1. i.start = entries[n].at /\ i.tests = 0 /\ \A m \in Metrics : i.counts[m] = 0
      BY DEF NewIncident
    <2>2. \A m \in Metrics : BadTests({}, m) = 0
      <3>1. \A m \in Metrics : {j \in {} : m \in entries[j].breaches} = {}
        OBVIOUS
      <3>2. QED
        BY <3>1, FS_EmptySet DEF BadTests
    <2> HIDE DEF i
    <2>3. QED
      BY <1>3, <2>1, <2>2, FS_EmptySet DEF Covers
  <1>5. i \in Incident
    BY <1>1, IncidentTypes
  <1> HIDE DEF i
  <1>6. Covers(Counted(i, entries[n]), R, n, n)
    BY <1>1, <1>2, <1>4, <1>5, CoversMore
  <1>7. QED
    BY <1>2, <1>6 DEF i

-----------------------------------------------------------------------------
(* Records: the history of the incidents *)

\* w lists the starts up to n.
Lists(w, R, n) ==
    /\ w \in Seq(Nat)
    /\ \A j \in 1 .. Len(w) : w[j] \in Starts(R) /\ w[j] <= n
    /\ \A k \in Starts(R) : k <= n => \E j \in 1 .. Len(w) : w[j] = k
    /\ \A j, l \in 1 .. Len(w) : j < l => w[j] < w[l]

\* The history h after entry n has one incident for each of them.
Fits(h, w, R, n) ==
    /\ Lists(w, R, n) /\ Len(h) = Len(w)
    /\ \A j \in 1 .. Len(w) :
          /\ Covers(h[j], R, w[j], n)
          /\ h[j].ongoing <=> j = Len(w) /\ n \in R /\ IsBad(n)
          /\ h[j].until <= entries[n].at
          /\ j < Len(w) => h[j].until <= h[j + 1].start

LEMMA ListsFacts ==
    ASSUME NEW w, NEW R, NEW n, Lists(w, R, n)
    PROVE  Len(w) \in Nat /\ \A j \in 1 .. Len(w) : w[j] \in Nat /\ w[j] \in Starts(R)
  BY ElementOfSeq, LenProperties DEF Lists

LEMMA ListsNext ==
    ASSUME entries \in Seq(Entry), NEW R, IsWindow(R), NEW n \in 1 .. Len(entries),
           NEW w, Lists(w, R, n - 1)
    PROVE  Lists(IF n \in Starts(R) THEN Append(w, n) ELSE w, R, n)
  <1>1. Len(w) \in Nat /\ \A j \in 1 .. Len(w) : w[j] \in Nat /\ w[j] \in Starts(R) /\ w[j] <= n - 1
    BY ListsFacts DEF Lists
  <1>2. n \in Nat /\ Starts(R) \subseteq Nat
    <2>1. Len(entries) \in Nat /\ R \subseteq 1 .. Len(entries)
      BY EntryFacts DEF IsWindow
    <2>2. \A i \in 1 .. Len(entries) : i \in Nat
      BY <2>1
    <2>3. QED
      BY <2>1, <2>2 DEF Starts
  <1>3. CASE n \notin Starts(R)
    <2>1. \A j \in 1 .. Len(w) : w[j] <= n
      BY <1>1, <1>2
    <2>2. \A k \in Starts(R) : k <= n => k <= n - 1
      BY <1>2, <1>3
    <2>3. QED
      BY <1>3, <2>1, <2>2 DEF Lists
  <1>4. CASE n \in Starts(R)
    <2> DEFINE v == Append(w, n)
    <2>1. /\ v \in Seq(Nat) /\ Len(v) = Len(w) + 1 /\ v[Len(w) + 1] = n
          /\ \A j \in 1 .. Len(w) : v[j] = w[j]
      BY <1>2, AppendProperties DEF Lists
    <2> HIDE DEF v
    <2>2. \A j \in 1 .. Len(v) : j \in 1 .. Len(w) \/ j = Len(w) + 1
      BY <1>1, <2>1
    <2>3. \A j \in 1 .. Len(v) : v[j] \in Starts(R) /\ v[j] <= n
      <3>1. TAKE j \in 1 .. Len(v)
      <3>2. CASE j \in 1 .. Len(w)
        <4>1. w[j] \in Nat /\ w[j] \in Starts(R) /\ w[j] <= n - 1 /\ v[j] = w[j]
          BY <1>1, <2>1, <3>2
        <4>2. QED
          BY <1>2, <4>1
      <3>3. CASE j = Len(w) + 1
        BY <1>2, <1>4, <2>1, <3>3
      <3>4. QED
        BY <2>2, <3>2, <3>3
    <2>4. ASSUME NEW k \in Starts(R), k <= n PROVE \E j \in 1 .. Len(v) : v[j] = k
      <3>1. CASE k = n
        BY <1>1, <2>1, <3>1
      <3>2. CASE k # n
        <4>1. k <= n - 1
          BY <1>2, <2>4, <3>2
        <4>2. PICK j \in 1 .. Len(w) : w[j] = k
          BY <4>1 DEF Lists
        <4>3. j \in 1 .. Len(v) /\ v[j] = k
          BY <1>1, <2>1, <4>2
        <4>4. QED
          BY <4>3
      <3>3. QED
        BY <3>1, <3>2
    <2>5. ASSUME NEW j \in 1 .. Len(v), NEW l \in 1 .. Len(v), j < l PROVE v[j] < v[l]
      <3>1. j \in 1 .. Len(w)
        BY <1>1, <2>1, <2>5
      <3>2. CASE l = Len(w) + 1
        BY <1>1, <1>2, <2>1, <3>1, <3>2
      <3>3. CASE l \in 1 .. Len(w)
        BY <2>1, <2>5, <3>1, <3>3 DEF Lists
      <3>4. QED
        BY <2>2, <3>2, <3>3
    <2>6. Lists(v, R, n)
      BY <2>1, <2>3, <2>4, <2>5 DEF Lists
    <2>7. QED
      BY <1>4, <2>6 DEF v
  <1>5. QED
    BY <1>3, <1>4

\* A bad entry is of the last stretch so far.
LEMMA LastStretch ==
    ASSUME entries \in Seq(Entry), NEW R, IsWindow(R), NEW n \in R, IsBad(n),
           NEW w, Lists(w, R, n)
    PROVE  /\ Len(w) \in Nat \ {0} /\ n \in Stretch(R, w[Len(w)])
           /\ \A j \in 1 .. Len(w) - 1 : n \notin Stretch(R, w[j])
  <1>1. Len(w) \in Nat /\ n \in Int
    BY EntryFacts, ListsFacts DEF IsWindow
  <1>2. PICK k \in Starts(R) : k <= n /\ n \in Stretch(R, k)
    BY StretchOf
  <1>3. PICK i \in 1 .. Len(w) : w[i] = k
    BY <1>2 DEF Lists
  <1>4. ASSUME NEW j \in 1 .. Len(w) - 1 PROVE n \notin Stretch(R, w[j])
    <2>1. j \in 1 .. Len(w) /\ Len(w) \in 1 .. Len(w) /\ j < Len(w)
      BY <1>1, <1>3
    <2>2. /\ w[j] \in Starts(R) /\ w[Len(w)] \in Starts(R) /\ w[j] < w[Len(w)]
          /\ w[Len(w)] <= n
      BY <2>1 DEF Lists
    <2>3. QED
      BY <1>1, <2>2, StretchesApart
  <1>5. i = Len(w)
    <2>1. i \notin 1 .. Len(w) - 1
      BY <1>2, <1>3, <1>4
    <2>2. QED
      BY <1>1, <1>3, <2>1
  <1>6. QED
    BY <1>1, <1>2, <1>3, <1>4, <1>5

LEMMA NotBad ==
    ASSUME NEW R, NEW n \in Nat, ~(n \in R /\ IsBad(n)), NEW k \in Nat
    PROVE  n \notin Stretch(R, k)
  <1>1. SUFFICES ASSUME n \in Stretch(R, k) PROVE FALSE
    OBVIOUS
  <1>2. n >= k /\ \A i \in k .. n : i \in R /\ IsBad(i)
    BY <1>1 DEF Stretch
  <1>3. n \in k .. n
    BY <1>2
  <1>4. QED
    BY <1>2, <1>3

LEMMA IncidentFields ==
    ASSUME NEW e, NEW i \in Incident
    PROVE  /\ Counted(i, e).start = i.start /\ Counted(i, e).until = e.at
           /\ Counted(i, e).ongoing <=> i.ongoing
           /\ Resolved(i, e).start = i.start /\ Resolved(i, e).tests = i.tests
           /\ Resolved(i, e).counts = i.counts /\ Resolved(i, e).until = e.at
           /\ ~Resolved(i, e).ongoing
  <1> DEFINE c == [m \in Metrics |-> i.counts[m] + IF m \in e.breaches THEN 1 ELSE 0]
             t == i.tests + 1
  <1>1. Counted(i, e) = [i EXCEPT !.until = e.at, !.tests = t, !.counts = c]
    BY DEF Counted
  <1> HIDE DEF c, t
  <1>2. QED
    BY <1>1 DEF Resolved, Incident

LEMMA FitsNext ==
    ASSUME entries \in Seq(Entry), InTime, NEW R, IsWindow(R), NEW n \in 1 .. Len(entries),
           NEW h \in Seq(Incident), NEW w, Fits(h, w, R, n - 1),
           NEW g, g = IF n \in R THEN WithEntry(h, entries[n]) ELSE h
    PROVE  \E v : Fits(g, v, R, n)
  <1> DEFINE e == entries[n]
             N == Len(w)
             bad == n \in R /\ IsBad(n)
             wasBad == n - 1 \in R /\ IsBad(n - 1)
  <1>1. /\ Len(entries) \in Nat /\ n \in Nat /\ e \in Entry /\ e.at \in Nat
        /\ \A k \in R : k \in 1 .. Len(entries)
    BY EntryFacts DEF IsWindow
  <1>2. /\ N \in Nat /\ Len(h) = N /\ Lists(w, R, n - 1)
        /\ \A j \in 1 .. N : w[j] \in Nat /\ w[j] \in Starts(R) /\ w[j] <= n - 1
    BY ListsFacts DEF Fits, Lists
  <1>3. \A j \in 1 .. N : h[j] \in Incident /\ h[j].until \in Nat
    <2>1. \A j \in 1 .. N : h[j] \in Incident
      BY <1>2, ElementOfSeq
    <2>2. \A i \in Incident : i.until \in Nat
      BY DEF Incident
    <2>3. QED
      BY <2>1, <2>2
  <1>4. ASSUME NEW j \in 1 .. N PROVE h[j].until <= e.at
    <2>1. n - 1 \in 1 .. Len(entries)
      <3>1. w[j] >= 1
        BY <1>1, <1>2 DEF Starts
      <3>2. QED
        BY <1>1, <1>2, <3>1
    <2>2. entries[n - 1].at \in Nat /\ entries[n - 1].at <= e.at
      BY <1>1, <2>1, EntryFacts DEF InTime
    <2>3. h[j].until <= entries[n - 1].at
      BY DEF Fits
    <2>4. e.at \in Nat /\ h[j].until \in Nat
      BY <1>1, <1>3
    <2> HIDE DEF e
    <2>5. QED
      BY <2>2, <2>3, <2>4
  <1>5. \A j \in 1 .. N : /\ Covers(h[j], R, w[j], n - 1)
                          /\ h[j].ongoing <=> j = N /\ wasBad
                          /\ j < N => h[j].until <= h[j + 1].start
    BY DEF Fits
  <1>6. bad => e.breaches # {}
    BY DEF IsBad
  <1>7. n \in R /\ ~bad => e.breaches = {}
    BY DEF IsBad
  <1>8. n \in Starts(R) <=> bad /\ ~wasBad
    BY DEF Starts
  <1>9. h # <<>> /\ h[Len(h)].ongoing <=> N # 0 /\ wasBad
    <2>1. h = <<>> <=> N = 0
      BY <1>2, EmptySeq
    <2>2. N # 0 => N \in 1 .. N
      BY <1>2
    <2>3. QED
      BY <1>2, <1>5, <2>1, <2>2
  <1> DEFINE v == IF n \in Starts(R) THEN Append(w, n) ELSE w
  <1>10. Lists(v, R, n)
    BY <1>2, ListsNext
  <1>11. CASE ~bad
    <2>1. v = w
      BY <1>8, <1>11
    <2>2. \A j \in 1 .. N : Covers(h[j], R, w[j], n)
      BY <1>1, <1>2, <1>5, <1>11, NotBad, CoversSame
    <2>3. CASE N # 0 /\ wasBad
      <3>1. n \in R
        BY <1>1, <2>3, EntryFacts DEF IsWindow
      <3>2. e.breaches = {}
        BY <1>7, <1>11, <3>1
      <3>3. /\ Len(g) = N /\ g[N] = Resolved(h[N], e)
            /\ \A j \in 1 .. N - 1 : g[j] = h[j]
        <4>1. h # <<>> /\ h[Len(h)].ongoing /\ g = WithEntry(h, e)
          BY <1>9, <2>3, <3>1
        <4> HIDE DEF e
        <4>2. /\ Len(WithEntry(h, e)) = Len(h)
              /\ WithEntry(h, e)[Len(h)] = Resolved(h[Len(h)], e)
              /\ \A j \in 1 .. Len(h) - 1 : WithEntry(h, e)[j] = h[j]
          BY <1>1, <3>2, <4>1, TurnFacts
        <4>3. QED
          BY <1>2, <4>1, <4>2
      <3>4. /\ g[N].start = h[N].start /\ g[N].tests = h[N].tests /\ g[N].counts = h[N].counts
            /\ g[N].until = e.at /\ ~g[N].ongoing
        BY <1>2, <1>3, <2>3, <3>3, IncidentFields
      <3>5. Covers(g[N], R, w[N], n)
        BY <1>2, <2>2, <2>3, <3>4 DEF Covers
      <3>6. ASSUME NEW j \in 1 .. N
            PROVE  /\ Covers(g[j], R, w[j], n) /\ ~g[j].ongoing /\ g[j].until <= e.at
                   /\ j < N => g[j].until <= g[j + 1].start
        <4>1. CASE j = N
          BY <1>1, <3>4, <3>5, <4>1
        <4>2. CASE j # N
          <5>1. j \in 1 .. N - 1 /\ g[j] = h[j] /\ g[j + 1].start = h[j + 1].start
            <6>1. j \in 1 .. N - 1 /\ (j + 1 \in 1 .. N - 1 \/ j + 1 = N)
              BY <1>2, <4>2
            <6>2. QED
              BY <3>3, <3>4, <6>1
          <5>2. QED
            BY <1>4, <1>5, <2>2, <4>2, <5>1
        <4>3. QED
          BY <4>1, <4>2
      <3>7. Fits(g, w, R, n)
        BY <1>2, <1>10, <1>11, <2>1, <3>3, <3>6 DEF Fits
      <3>8. QED
        BY <3>7
    <2>4. CASE ~(N # 0 /\ wasBad)
      <3>1. g = h
        BY <1>1, <1>7, <1>9, <1>11, <2>4, TurnFacts
      <3>2. \A j \in 1 .. N : ~h[j].ongoing
        BY <1>2, <1>5, <2>4
      <3>3. Fits(g, w, R, n)
        BY <1>2, <1>4, <1>5, <1>10, <1>11, <2>1, <2>2, <3>1, <3>2 DEF Fits
      <3>4. QED
        BY <3>3
    <2>5. QED
      BY <2>3, <2>4
  <1>12. CASE bad /\ wasBad
    <2>1. v = w
      BY <1>8, <1>12
    <2>2. /\ N \in Nat \ {0} /\ n \in Stretch(R, w[N])
          /\ \A j \in 1 .. N - 1 : n \notin Stretch(R, w[j])
      BY <1>10, <1>12, <2>1, LastStretch
    <2>3. /\ Len(g) = N /\ g[N] = Counted(h[N], e)
          /\ \A j \in 1 .. N - 1 : g[j] = h[j]
      <3>1. h # <<>> /\ h[Len(h)].ongoing /\ g = WithEntry(h, e) /\ e.breaches # {}
        BY <1>6, <1>9, <1>12, <2>2
      <3> HIDE DEF e
      <3>2. /\ Len(WithEntry(h, e)) = Len(h)
            /\ WithEntry(h, e)[Len(h)] = Counted(h[Len(h)], e)
            /\ \A j \in 1 .. Len(h) - 1 : WithEntry(h, e)[j] = h[j]
        BY <1>1, <3>1, TurnFacts
      <3>3. QED
        BY <1>2, <3>1, <3>2
    <2>4. g[N].start = h[N].start /\ g[N].until = e.at /\ (g[N].ongoing <=> h[N].ongoing)
      BY <1>2, <1>3, <2>2, <2>3, IncidentFields
    <2>5. Covers(g[N], R, w[N], n)
      BY <1>2, <1>3, <1>5, <2>2, <2>3, CoversMore
    <2>6. ASSUME NEW j \in 1 .. N
          PROVE  /\ Covers(g[j], R, w[j], n) /\ g[j].until <= e.at
                 /\ g[j].ongoing <=> j = N
                 /\ j < N => g[j].until <= g[j + 1].start
      <3>1. CASE j = N
        BY <1>1, <1>5, <1>12, <2>4, <2>5, <3>1
      <3>2. CASE j # N
        <4>1. j \in 1 .. N - 1 /\ g[j] = h[j] /\ g[j + 1].start = h[j + 1].start
          <5>1. j \in 1 .. N - 1 /\ (j + 1 \in 1 .. N - 1 \/ j + 1 = N)
            BY <1>2, <3>2
          <5>2. QED
            BY <2>3, <2>4, <5>1
        <4>2. Covers(h[j], R, w[j], n)
          BY <1>5, <2>2, <4>1, CoversSame
        <4>3. QED
          BY <1>4, <1>5, <3>2, <4>1, <4>2
      <3>3. QED
        BY <3>1, <3>2
    <2>7. Fits(g, w, R, n)
      BY <1>2, <1>10, <1>12, <2>1, <2>3, <2>6 DEF Fits
    <2>8. QED
      BY <2>7
  <1>13. CASE bad /\ ~wasBad
    <2>1. n \in Starts(R) /\ v = Append(w, n)
      BY <1>8, <1>13
    <2>2. g = Append(h, Counted(NewIncident(e), e))
      BY <1>1, <1>6, <1>9, <1>13, TurnFacts
    <2>3. /\ v \in Seq(Nat) /\ Len(v) = N + 1 /\ v[N + 1] = n
          /\ \A j \in 1 .. N : v[j] = w[j]
      BY <1>1, <1>2, <2>1, AppendProperties DEF Lists
    <2>4. /\ Len(g) = N + 1 /\ g[N + 1] = Counted(NewIncident(e), e)
          /\ \A j \in 1 .. N : g[j] = h[j]
      <3> DEFINE i == Counted(NewIncident(e), e)
      <3>1. i \in Incident
        BY <1>1, IncidentTypes
      <3> HIDE DEF i
      <3>2. /\ Len(Append(h, i)) = Len(h) + 1 /\ Append(h, i)[Len(h) + 1] = i
            /\ \A j \in 1 .. Len(h) : Append(h, i)[j] = h[j]
        BY <3>1, AppendProperties
      <3>3. g = Append(h, i)
        BY <2>2 DEF i
      <3>4. QED
        BY <1>2, <3>2, <3>3 DEF i
    <2>5. /\ Covers(g[N + 1], R, n, n) /\ g[N + 1].start = e.at /\ g[N + 1].until = e.at
          /\ g[N + 1].ongoing
      <3>1. NewIncident(e) \in Incident /\ NewIncident(e).start = e.at /\ NewIncident(e).ongoing
        BY <1>1, IncidentTypes DEF NewIncident
      <3>2. QED
        BY <2>1, <2>4, <3>1, CoversNew, IncidentFields
    <2>6. \A j \in 1 .. N : n \notin Stretch(R, v[j])
      <3>1. \A j \in 1 .. Len(v) - 1 : n \notin Stretch(R, v[j])
        BY <1>10, <1>13, LastStretch
      <3>2. Len(v) - 1 = N
        BY <1>2, <2>3
      <3>3. QED
        BY <3>1, <3>2
    <2> HIDE DEF v
    <2>7. ASSUME NEW j \in 1 .. N + 1
          PROVE  /\ Covers(g[j], R, v[j], n) /\ g[j].until <= e.at
                 /\ g[j].ongoing <=> j = N + 1
                 /\ j < N + 1 => g[j].until <= g[j + 1].start
      <3>1. CASE j = N + 1
        BY <1>1, <1>2, <2>3, <2>5, <3>1
      <3>2. CASE j # N + 1
        <4>1. /\ j \in 1 .. N /\ g[j] = h[j] /\ v[j] = w[j]
              /\ j < N => j + 1 \in 1 .. N /\ g[j + 1] = h[j + 1]
          BY <1>2, <2>3, <2>4, <3>2
        <4>2. Covers(h[j], R, w[j], n)
          BY <1>5, <2>6, <4>1, CoversSame
        <4>3. g[j].until <= g[j + 1].start
          <5>1. CASE j = N
            BY <1>4, <2>5, <4>1, <5>1
          <5>2. CASE j # N
            BY <1>2, <1>5, <4>1, <5>2
          <5>3. QED
            BY <5>1, <5>2
        <4>4. ~g[j].ongoing
          BY <1>5, <1>13, <4>1
        <4>5. QED
          BY <1>4, <3>2, <4>1, <4>2, <4>3, <4>4
      <3>3. QED
        BY <3>1, <3>2
    <2>8. Fits(g, v, R, n)
      BY <1>10, <1>13, <2>3, <2>4, <2>7 DEF Fits
    <2>9. QED
      BY <2>8
  <1>14. QED
    BY <1>11, <1>12, <1>13

\* The incidents of a window are those of its stretches.
LEMMA IncidentsFit ==
    ASSUME entries \in Seq(Entry), InTime, NEW R, IsWindow(R)
    PROVE  \E w : Fits(Incidents(R), w, R, Len(entries))
  <1> DEFINE n == Len(entries)
  <1>1. PICK f \in [0 .. n -> Seq(Incident)] :
            /\ f[0] = <<>> /\ Incidents(R) = f[n]
            /\ \A i \in 1 .. n : f[i] = IF i \in R THEN WithEntry(f[i - 1], entries[i]) ELSE f[i - 1]
    <2>1. PICK f \in Turns(R) : TRUE
      BY IncidentsFacts
    <2>2. QED
      BY <2>1 DEF Turns
  <1>2. n \in Nat
    BY EntryFacts
  <1> DEFINE HasFit(i) == \E w : Fits(f[i], w, R, i)
             T == {i \in 0 .. n : ~HasFit(i)}
  <1>3. SUFFICES ASSUME T # {} PROVE FALSE
    <2>1. n \in 0 .. n
      BY <1>2
    <2>2. HasFit(n) => \E w : Fits(Incidents(R), w, R, n)
      BY <1>1
    <2> HIDE DEF HasFit
    <2>3. QED
      BY <2>1, <2>2
  <1>4. PICK m \in T : \A y \in T : m <= y
    <2>1. T \in SUBSET Nat
      BY <1>2
    <2> HIDE DEF T
    <2>2. QED
      BY <1>3, <2>1, LeastNat
  <1>5. HasFit(0)
    <2>1. <<>> \in Seq(Nat) /\ Len(<<>>) = 0
      BY EmptySeq
    <2>2. \A k \in Starts(R) : ~ k <= 0
      BY <1>2, EntryFacts DEF Starts, IsWindow
    <2>3. 1 .. 0 = {}
      OBVIOUS
    <2>4. Lists(<<>>, R, 0)
      BY <2>1, <2>2, <2>3 DEF Lists
    <2>5. Fits(<<>>, <<>>, R, 0)
      BY <2>1, <2>3, <2>4 DEF Fits
    <2>6. QED
      BY <1>1, <2>5
  <1>6. m \in 1 .. n
    <2>1. m \in 0 .. n /\ ~HasFit(m)
      OBVIOUS
    <2> HIDE DEF HasFit
    <2>2. m # 0
      BY <1>5, <2>1
    <2>3. QED
      BY <1>2, <2>1, <2>2
  <1>7. HasFit(m - 1)
    <2>1. m - 1 \in 0 .. n /\ ~ m <= m - 1
      BY <1>2, <1>6
    <2> HIDE DEF HasFit
    <2>2. QED
      BY <1>4, <2>1
  <1>8. PICK w : Fits(f[m - 1], w, R, m - 1)
    BY <1>7
  <1>9. f[m - 1] \in Seq(Incident)
    BY <1>1, <1>2, <1>6
  <1>10. f[m] = IF m \in R THEN WithEntry(f[m - 1], entries[m]) ELSE f[m - 1]
    BY <1>1, <1>6
  <1>11. HasFit(m)
    BY <1>6, <1>8, <1>9, <1>10, FitsNext
  <1>12. QED
    BY <1>11

-----------------------------------------------------------------------------
(* Records: the counts of the incidents *)

\* Of N numbers in ascending order, N - J are above the J-th.
LEMMA AboveCount ==
    ASSUME NEW w \in Seq(Nat), \A j, l \in 1 .. Len(w) : j < l => w[j] < w[l],
           NEW S, S = {w[j] : j \in 1 .. Len(w)}, NEW J \in 0 .. Len(w)
    PROVE  Cardinality({l \in S : J = 0 \/ l > w[J]}) = Len(w) - J
  <1> DEFINE N == Len(w)
             A == {l \in S : J = 0 \/ l > w[J]}
             f == [j \in J + 1 .. N |-> w[j]]
  <1>1. N \in Nat /\ J \in Nat /\ \A j \in 1 .. N : w[j] \in Nat
    <2>1. N \in Nat /\ \A j \in 1 .. N : w[j] \in Nat
      BY ElementOfSeq, LenProperties
    <2>2. QED
      BY <2>1
  <1>2. \A j \in J + 1 .. N : j \in 1 .. N /\ J < j
    BY <1>1
  <1>3. \A j \in 1 .. N : J = 0 \/ w[j] > w[J] => j \in J + 1 .. N
    <2>1. SUFFICES ASSUME NEW j \in 1 .. N, J # 0, w[j] > w[J] PROVE j \in J + 1 .. N
      BY <1>1
    <2>2. J \in 1 .. N
      BY <1>1, <2>1
    <2>3. j < J => w[j] < w[J]
      BY <2>2
    <2>4. w[j] \in Nat /\ w[J] \in Nat
      BY <1>1, <2>2
    <2>5. QED
      BY <1>1, <2>1, <2>3, <2>4
  <1>4. f \in Bijection(J + 1 .. N, A)
    <2>1. \A j \in J + 1 .. N : w[j] \in A
      <3>1. TAKE j \in J + 1 .. N
      <3>2. J # 0 => J \in 1 .. N
        BY <1>1
      <3>3. J # 0 => w[J] < w[j]
        BY <1>2, <3>2
      <3>4. J # 0 => w[J] \in Nat /\ w[j] > w[J]
        BY <1>1, <1>2, <3>2, <3>3
      <3>5. QED
        BY <1>2, <3>4
    <2>2. \A x \in A : \E j \in J + 1 .. N : f[j] = x
      <3>1. TAKE x \in A
      <3>2. PICK j \in 1 .. N : w[j] = x /\ (J = 0 \/ w[j] > w[J])
        OBVIOUS
      <3>3. QED
        BY <1>3, <3>2
    <2>3. \A j, l \in J + 1 .. N : f[j] = f[l] => j = l
      <3>1. TAKE j, l \in J + 1 .. N
      <3>2. (j < l => w[j] < w[l]) /\ (l < j => w[l] < w[j])
        BY <1>2
      <3>3. w[j] \in Nat /\ w[l] \in Nat
        BY <1>1, <1>2
      <3>4. QED
        BY <1>1, <3>2, <3>3
    <2> HIDE DEF A
    <2>4. QED
      BY <2>1, <2>2, <2>3 DEF Injection, Surjection, Bijection, IsInjective
  <1>5. Cardinality(J + 1 .. N) = N - J /\ IsFiniteSet(J + 1 .. N)
    <2>1. J + 1 \in Int /\ N \in Int /\ J <= N
      BY <1>1
    <2>2. /\ IsFiniteSet(J + 1 .. N)
          /\ Cardinality(J + 1 .. N) = IF J + 1 > N THEN 0 ELSE N - (J + 1) + 1
      BY <2>1, FS_Interval
    <2>3. QED
      BY <1>1, <2>1, <2>2
  <1> HIDE DEF A, f
  <1>6. ExistsBijection(J + 1 .. N, A)
    BY <1>4 DEF ExistsBijection
  <1>7. Cardinality(A) = Cardinality(J + 1 .. N)
    BY <1>5, <1>6, FS_Bijection
  <1>8. QED
    BY <1>5, <1>7 DEF A

\* A sum is known from its partial sums.
LEMMA TotalIs ==
    ASSUME NEW numbers, Len(numbers) \in Nat, NEW c \in [0 .. Len(numbers) -> Nat], c[0] = 0,
           \A j \in 1 .. Len(numbers) : c[j] = c[j - 1] + numbers[j]
    PROVE  Total(numbers) = c[Len(numbers)]
  <1> DEFINE n == Len(numbers)
             E(g) == [j \in 0 .. n |-> IF j = 0 THEN 0 ELSE g[j - 1] + numbers[j]]
             sum == CHOOSE g : g = E(g)
  <1>1. c = E(c)
    <2>1. \A j \in 0 .. n : c[j] = E(c)[j]
      <3>1. TAKE j \in 0 .. n
      <3>2. j # 0 => j \in 1 .. n
        OBVIOUS
      <3>3. QED
        BY <3>2
    <2>2. c = [j \in 0 .. n |-> c[j]]
      OBVIOUS
    <2>3. E(c) = [j \in 0 .. n |-> E(c)[j]]
      OBVIOUS
    <2> HIDE DEF E
    <2>4. QED
      BY <2>1, <2>2, <2>3
  <1>2. sum = E(sum)
    <2> HIDE DEF E
    <2> QED
      BY <1>1
  <1> DEFINE T == {j \in 0 .. n : sum[j] # c[j]}
  <1>3. SUFFICES ASSUME T # {} PROVE FALSE
    <2>1. n \in 0 .. n
      OBVIOUS
    <2>2. Total(numbers) = sum[n]
      BY DEF Total
    <2> HIDE DEF sum
    <2>3. QED
      BY <2>1, <2>2
  <1>4. PICK m \in T : \A y \in T : m <= y
    <2>1. T \in SUBSET Nat
      OBVIOUS
    <2> HIDE DEF T
    <2>2. QED
      BY <1>3, <2>1, LeastNat
  <1> HIDE DEF sum
  <1>5. m \in 0 .. n /\ sum[m] # c[m]
    OBVIOUS
  <1>6. \A j \in 0 .. n : sum[j] = E(sum)[j]
    BY <1>2
  <1>7. m # 0
    BY <1>5, <1>6
  <1>8. m \in 1 .. n /\ m - 1 \in 0 .. n /\ ~ m <= m - 1
    BY <1>5, <1>7
  <1>9. sum[m - 1] = c[m - 1]
    BY <1>4, <1>8
  <1>10. sum[m] = sum[m - 1] + numbers[m]
    BY <1>6, <1>7, <1>8
  <1>11. QED
    BY <1>5, <1>8, <1>9, <1>10

\* The numbers are the counts of X in every stretch, the last first.
OfStretches(numbers, X, R, w) ==
    /\ X \subseteq R /\ \A l \in X : IsBad(l)
    /\ Len(numbers) = Len(w)
    /\ \A j \in 1 .. Len(w) :
          numbers[j] = Cardinality(X \cap Stretch(R, w[Len(w) + 1 - j]))

\* What is counted in every stretch, added from the last to the first, is counted in all.
LEMMA StretchesAddUp ==
    ASSUME entries \in Seq(Entry), NEW R, IsWindow(R), NEW w, Lists(w, R, Len(entries)),
           NEW X, NEW numbers, OfStretches(numbers, X, R, w)
    PROVE  Total(numbers) = Cardinality(X)
  <1> DEFINE N == Len(w)
             Late(j) == {l \in X : j > 0 /\ l >= w[N + 1 - j]}
             c == [j \in 0 .. N |-> Cardinality(Late(j))]
  <1>1. /\ N \in Nat
        /\ \A j \in 1 .. N : w[j] \in Nat /\ w[j] \in Starts(R)
        /\ \A i, j \in 1 .. N : i < j => w[i] < w[j]
    BY ListsFacts DEF Lists
  <1>2. \A l \in X : l \in Nat /\ l <= Len(entries) /\ l \in R /\ IsBad(l)
    <2>1. Len(entries) \in Nat /\ \A l \in R : l \in 1 .. Len(entries)
      BY EntryFacts DEF IsWindow
    <2>2. QED
      BY <2>1 DEF OfStretches
  <1>3. \A l \in X : \E i \in 1 .. N : w[i] <= l /\ l \in Stretch(R, w[i])
    <2>1. TAKE l \in X
    <2>2. PICK k \in Starts(R) : k <= l /\ l \in Stretch(R, k)
      BY <1>2, StretchOf
    <2>3. k \in Nat
      BY EntryFacts DEF Starts, IsWindow
    <2>4. k <= Len(entries)
      BY EntryFacts, <1>2, <2>2, <2>3
    <2>5. PICK i \in 1 .. N : w[i] = k
      BY <2>4 DEF Lists
    <2>6. QED
      BY <2>2, <2>5
  <1>4. \A i, j \in 1 .. N : \A l \in Nat : i < j /\ w[j] <= l => l \notin Stretch(R, w[i])
    <2>1. TAKE i, j \in 1 .. N
    <2>2. TAKE l \in Nat
    <2>3. HAVE i < j /\ w[j] <= l
    <2>4. w[i] < w[j] /\ l \in Int
      BY <1>1, <2>3
    <2>5. QED
      BY <1>1, <2>3, <2>4, StretchesApart
  <1>5. IsFiniteSet(X)
    <2>1. IsFiniteSet(1 .. Len(entries)) /\ X \subseteq 1 .. Len(entries)
      BY EntryFacts, FS_Interval DEF IsWindow, OfStretches
    <2>2. QED
      BY <2>1, FS_Subset
  <1>6. c \in [0 .. N -> Nat]
    <2>1. \A j \in 0 .. N : Cardinality(Late(j)) \in Nat
      <3>1. TAKE j \in 0 .. N
      <3>2. Late(j) \subseteq X
        OBVIOUS
      <3> HIDE DEF Late
      <3>3. QED
        BY <1>5, <3>2, FS_Subset, FS_CardinalityType
    <2> HIDE DEF Late
    <2>2. QED
      BY <2>1
  <1>7. c[0] = 0
    <2>1. Late(0) = {}
      OBVIOUS
    <2>2. c[0] = Cardinality(Late(0))
      BY <1>1
    <2> HIDE DEF Late, c
    <2>3. QED
      BY <2>1, <2>2, FS_EmptySet
  <1>8. \A j \in 1 .. N : c[j] = c[j - 1] + numbers[j]
    <2>1. TAKE j \in 1 .. N
    <2> DEFINE i == N + 1 - j
               P == X \cap Stretch(R, w[i])
               Q == Late(j - 1)
    <2>2. i \in 1 .. N /\ w[i] \in Nat /\ j > 0
      <3>1. i \in 1 .. N /\ j > 0
        BY <1>1
      <3> HIDE DEF i
      <3>2. QED
        BY <1>1, <3>1
    <2>3. j - 1 > 0 => /\ N + 1 - (j - 1) = i + 1 /\ i + 1 \in 1 .. N
                       /\ w[i + 1] \in Nat /\ w[i] < w[i + 1]
                       /\ \A a \in i + 1 .. N : i + 1 = a \/ w[i + 1] < w[a]
      <3>1. SUFFICES ASSUME j - 1 > 0
                     PROVE  /\ N + 1 - (j - 1) = i + 1 /\ i + 1 \in 1 .. N
                            /\ w[i + 1] \in Nat /\ w[i] < w[i + 1]
                            /\ \A a \in i + 1 .. N : i + 1 = a \/ w[i + 1] < w[a]
        OBVIOUS
      <3> DEFINE q == i + 1
      <3>2. N + 1 - (j - 1) = q /\ q \in 1 .. N /\ i < q
        BY <1>1, <3>1
      <3> HIDE DEF i, q
      <3>3. \A a \in q .. N : a \in 1 .. N /\ (q = a \/ q < a)
        BY <1>1, <3>2
      <3>4. w[q] \in Nat /\ w[i] < w[q] /\ \A a \in q .. N : q = a \/ w[q] < w[a]
        BY <1>1, <2>2, <3>2, <3>3
      <3>5. QED
        BY <3>2, <3>4 DEF q
    <2>4. Late(j) = P \cup Q
      <3>1. ASSUME NEW l \in X, l >= w[i], l \notin P PROVE l \in Q
        <4>1. PICK a \in 1 .. N : w[a] <= l /\ l \in Stretch(R, w[a])
          BY <1>3
        <4>2. ~ a < i
          BY <1>2, <1>4, <2>2, <3>1, <4>1
        <4>3. a # i
          BY <3>1, <4>1
        <4>4. a \in i + 1 .. N
          <5>1. i \in 1 .. N /\ a \in 1 .. N
            BY <2>2
          <5> HIDE DEF i
          <5>2. QED
            BY <1>1, <4>2, <4>3, <5>1
        <4>5. j - 1 > 0
          BY <1>1, <4>4
        <4>6. l >= w[i + 1]
          <5>1. l \in Nat /\ w[a] \in Nat /\ w[i + 1] \in Nat /\ (i + 1 = a \/ w[i + 1] < w[a])
            BY <1>1, <1>2, <2>3, <4>4, <4>5
          <5> DEFINE x == w[i + 1]
                     y == w[a]
          <5>2. x = y \/ x < y
            BY <5>1
          <5>3. l \in Nat /\ x \in Nat /\ y \in Nat /\ y <= l
            BY <4>1, <5>1
          <5> HIDE DEF x, y
          <5>4. l >= x
            BY <5>2, <5>3
          <5>5. QED
            BY <5>4 DEF x
        <4>7. QED
          BY <2>3, <4>5, <4>6
      <3>2. ASSUME NEW l \in P PROVE l \in Late(j)
        <4>1. l >= w[i]
          BY DEF Stretch
        <4>2. QED
          BY <2>2, <4>1
      <3>3. ASSUME NEW l \in Q PROVE l \in Late(j)
        <4>1. l \in X /\ j - 1 > 0 /\ l >= w[i + 1]
          BY <2>3
        <4>2. l >= w[i]
          BY <1>2, <2>2, <2>3, <4>1
        <4>3. QED
          BY <2>2, <4>1, <4>2
      <3>4. \A l \in Late(j) : l \in X /\ l >= w[i]
        OBVIOUS
      <3> HIDE DEF Late, P, Q
      <3>5. QED
        BY <3>1, <3>2, <3>3, <3>4
    <2>5. P \cap Q = {}
      <3>1. ASSUME NEW l \in Q PROVE l \notin Stretch(R, w[i])
        <4>1. l \in X /\ j - 1 > 0 /\ l >= w[i + 1]
          BY <2>3
        <4>2. i \in 1 .. N /\ i + 1 \in 1 .. N /\ i < i + 1 /\ w[i + 1] <= l
          BY <1>2, <2>2, <2>3, <4>1
        <4>3. QED
          BY <1>2, <1>4, <4>1, <4>2
      <3> HIDE DEF Q
      <3>2. QED
        BY <3>1
    <2>6. IsFiniteSet(P) /\ IsFiniteSet(Q)
      <3>1. P \subseteq X /\ Q \subseteq X
        OBVIOUS
      <3> HIDE DEF P, Q
      <3>2. QED
        BY <1>5, <3>1, FS_Subset
    <2>7. c[j] = Cardinality(Late(j)) /\ c[j - 1] = Cardinality(Q) /\ numbers[j] = Cardinality(P)
      BY <1>1 DEF OfStretches
    <2> HIDE DEF P, Q, Late, c, i
    <2>8. Cardinality(P) \in Nat /\ Cardinality(Q) \in Nat
      BY <2>6, FS_CardinalityType
    <2>9. Cardinality(P \cup Q) = Cardinality(P) + Cardinality(Q)
      <3>1. Cardinality(P \cap Q) = 0
        BY <2>5, FS_EmptySet
      <3>2. Cardinality(P \cup Q) = Cardinality(P) + Cardinality(Q) - Cardinality(P \cap Q)
        BY <2>6, FS_Union
      <3>3. QED
        BY <2>8, <3>1, <3>2
    <2>10. QED
      BY <2>4, <2>7, <2>8, <2>9
  <1>9. Total(numbers) = c[N]
    <2> HIDE DEF c
    <2> QED
      BY <1>1, <1>6, <1>7, <1>8, TotalIs DEF OfStretches
  <1>10. Late(N) = X
    <2>1. ASSUME NEW l \in X PROVE N > 0 /\ l >= w[N + 1 - N]
      <3>1. PICK i \in 1 .. N : w[i] <= l
        BY <1>3
      <3>2. 1 \in 1 .. N /\ N + 1 - N = 1 /\ N > 0 /\ i \in Nat
        BY <1>1
      <3>3. i = 1 \/ w[1] < w[i]
        BY <1>1, <3>2
      <3>4. l \in Nat /\ w[1] \in Nat /\ w[i] \in Nat
        BY <1>1, <1>2, <3>2
      <3>5. l >= w[1]
        BY <3>1, <3>3, <3>4
      <3>6. QED
        BY <3>2, <3>5
    <2>2. QED
      BY <2>1
  <1>11. c[N] = Cardinality(Late(N))
    BY <1>1
  <1> HIDE DEF c, Late
  <1>12. QED
    BY <1>9, <1>10, <1>11

\* The incidents are the history, the newest first.
LEMMA ShownFacts ==
    ASSUME NEW days, Len(Incidents(Recent(days))) \in Nat
    PROVE  LET s == IncidentHistory(days)
               all == Incidents(Recent(days))
               shown == IF Len(all) < MaxShown THEN Len(all) ELSE MaxShown
           IN  /\ shown \in Nat /\ shown <= Len(all)
               /\ DOMAIN s = 1 .. shown /\ Len(s) = shown
               /\ \A j \in 1 .. shown : /\ Len(all) + 1 - j \in 1 .. Len(all)
                                        /\ s[j] = all[Len(all) + 1 - j]
  <1> DEFINE all == Incidents(Recent(days))
             shown == IF Len(all) < MaxShown THEN Len(all) ELSE MaxShown
             s == [j \in 1 .. shown |-> all[Len(all) + 1 - j]]
  <1>1. shown \in Nat /\ shown <= Len(all)
    <2>1. MaxShown \in Nat
      BY RecordsAssumption
    <2> HIDE DEF all
    <2>2. QED
      BY <2>1 DEF all
  <1>2. IncidentHistory(days) = s
    BY DEF IncidentHistory
  <1>3. DOMAIN s = 1 .. shown /\ Len(s) = shown
    <2> HIDE DEF all, shown
    <2> QED
      BY <1>1
  <1>4. \A j \in 1 .. shown : Len(all) + 1 - j \in 1 .. Len(all) /\ s[j] = all[Len(all) + 1 - j]
    <2> HIDE DEF all, shown
    <2> QED
      BY <1>1 DEF all
  <1> HIDE DEF s, shown, all
  <1>5. QED
    BY <1>1, <1>2, <1>3, <1>4 DEF shown, all

LEMMA AddUp == RecordsInv => IncidentsAddUp
  <1> SUFFICES ASSUME RecordsInv, NEW days \in 1 .. WeekLength
               PROVE  LET R == Recent(days)
                          incidents == IncidentHistory(days)
                          starts == Starts(R)
                          all == Cardinality(starts)
                      IN  /\ Len(incidents) = IF all < MaxShown THEN all ELSE MaxShown
                          /\ \A j \in DOMAIN incidents :
                                /\ incidents[j].ongoing <=> j = 1 /\ IsBad(Len(entries))
                                /\ j > 1 => incidents[j].until <= incidents[j - 1].start
                                /\ \E k \in starts :
                                      /\ Cardinality({l \in starts : l > k}) = j - 1
                                      /\ incidents[j].start = entries[k].at
                                      /\ incidents[j].tests = Cardinality(Stretch(R, k))
                                      /\ \A m \in Metrics :
                                            incidents[j].counts[m] = BadTests(Stretch(R, k), m)
                          /\ all <= MaxShown =>
                                /\ Total([j \in DOMAIN incidents |-> incidents[j].tests])
                                      = BreachTests(days)
                                /\ \A m \in Metrics :
                                      Total([j \in DOMAIN incidents |-> incidents[j].counts[m]])
                                          = Violations(days)[m]
    BY DEF IncidentsAddUp
  <1> DEFINE R == Recent(days)
             S == Starts(R)
             n == Len(entries)
             h == Incidents(R)
             s == IncidentHistory(days)
  <1>1. entries \in Seq(Entry) /\ InTime /\ IsWindow(R) /\ n \in Nat /\ DOMAIN entries = 1 .. n
    <2>1. entries \in Seq(Entry) /\ InTime /\ now \in Nat /\ ahead \in Int
      BY DEF RecordsInv, RecordsTypeOK
    <2>2. days \in Nat
      BY RecordsAssumption
    <2>3. QED
      BY <2>1, <2>2, RecentIsWindow, EntryFacts
  <1>2. PICK w : Fits(h, w, R, n)
    BY <1>1, IncidentsFit
  <1> DEFINE N == Len(w)
             shown == IF N < MaxShown THEN N ELSE MaxShown
  <1>3. /\ N \in Nat /\ Len(h) = N /\ w \in Seq(Nat)
        /\ \A j \in 1 .. N : w[j] \in Nat /\ w[j] \in S /\ w[j] <= n
        /\ \A j, l \in 1 .. N : j < l => w[j] < w[l]
    BY <1>2, ListsFacts DEF Fits, Lists
  <1>4. S = {w[j] : j \in 1 .. N}
    <2>1. \A k \in S : k <= n
      BY <1>1 DEF Starts, IsWindow
    <2>2. \A k \in S : \E j \in 1 .. N : w[j] = k
      BY <1>2, <2>1 DEF Fits, Lists
    <2>3. QED
      BY <1>3, <2>2
  <1>5. Cardinality(S) = N
    <2> HIDE DEF S
    <2> DEFINE A == {l \in S : 0 = 0 \/ l > w[0]}
    <2>1. Cardinality(A) = N - 0
      <3>1. 0 \in 0 .. N
        BY <1>3
      <3>2. QED
        BY <1>3, <1>4, <3>1, AboveCount
    <2>2. A = S
      OBVIOUS
    <2> HIDE DEF A
    <2>3. QED
      BY <1>3, <2>1, <2>2
  <1>6. /\ shown \in Nat /\ shown <= N /\ DOMAIN s = 1 .. shown /\ Len(s) = shown
        /\ \A j \in 1 .. shown : N + 1 - j \in 1 .. N /\ s[j] = h[N + 1 - j]
    <2> DEFINE m == IF Len(h) < MaxShown THEN Len(h) ELSE MaxShown
    <2>1. m = shown
      BY <1>3
    <2>2. /\ m \in Nat /\ m <= Len(h) /\ DOMAIN s = 1 .. m /\ Len(s) = m
          /\ \A j \in 1 .. m : Len(h) + 1 - j \in 1 .. Len(h) /\ s[j] = h[Len(h) + 1 - j]
      BY <1>3, ShownFacts
    <2> HIDE DEF h, s, m, shown
    <2>3. QED
      BY <1>3, <2>1, <2>2
  <1>7. \A j \in 1 .. N : /\ Covers(h[j], R, w[j], n)
                          /\ h[j].ongoing <=> j = N /\ n \in R /\ IsBad(n)
                          /\ j < N => h[j].until <= h[j + 1].start
    BY <1>2 DEF Fits
  <1>8. \A k : Upto(Stretch(R, k), n) = Stretch(R, k)
    <2>1. \A l \in R : l <= n
      BY <1>1 DEF IsWindow
    <2>2. QED
      BY <2>1 DEF Upto, Stretch
  <1>9. N # 0 => n \in R
    <2>1. SUFFICES ASSUME N # 0, n \notin R PROVE FALSE
      OBVIOUS
    <2>2. w[1] \in R /\ w[1] <= n /\ w[1] \in Nat /\ w[1] \in 1 .. n
      BY <1>1, <1>3, <2>1 DEF Starts, IsWindow
    <2>3. n > w[1] /\ n \in DOMAIN entries
      BY <1>1, <2>1, <2>2
    <2>4. QED
      BY <1>1, <2>1, <2>2, <2>3 DEF IsWindow
  <1>10. ASSUME NEW j \in 1 .. shown
         PROVE  /\ s[j].ongoing <=> j = 1 /\ IsBad(n)
                /\ j > 1 => s[j].until <= s[j - 1].start
                /\ \E k \in S : /\ Cardinality({l \in S : l > k}) = j - 1
                                /\ s[j].start = entries[k].at
                                /\ s[j].tests = Cardinality(Stretch(R, k))
                                /\ \A m \in Metrics : s[j].counts[m] = BadTests(Stretch(R, k), m)
    <2> DEFINE i == N + 1 - j
               k == w[i]
    <2>1. i \in 1 .. N /\ s[j] = h[i] /\ (i = N <=> j = 1) /\ N - i = j - 1
      BY <1>3, <1>6
    <2>2. k \in S /\ N # 0 /\ n \in R
      <3> HIDE DEF S, R, i, n
      <3>1. w[i] \in S /\ N # 0
        BY <1>3, <2>1
      <3>2. QED
        BY <1>9, <3>1
    <2>3. Cardinality({l \in S : l > k}) = j - 1
      <3> HIDE DEF S, i
      <3>1. i \in 0 .. N /\ i # 0
        BY <1>3, <2>1
      <3>2. Cardinality({l \in S : i = 0 \/ l > w[i]}) = N - i
        BY <1>3, <1>4, <3>1, AboveCount
      <3>3. {l \in S : i = 0 \/ l > w[i]} = {l \in S : l > w[i]}
        BY <3>1
      <3>4. QED
        BY <2>1, <3>2, <3>3
    <2>4. /\ s[j].start = entries[k].at /\ s[j].tests = Cardinality(Stretch(R, k))
          /\ \A m \in Metrics : s[j].counts[m] = BadTests(Stretch(R, k), m)
      <3>1. Covers(s[j], R, k, n)
        BY <1>7, <2>1
      <3> HIDE DEF R, k, s
      <3>2. QED
        BY <1>8, <3>1 DEF Covers
    <2>5. s[j].ongoing <=> j = 1 /\ IsBad(n)
      BY <1>7, <2>1, <2>2
    <2>6. j > 1 => s[j].until <= s[j - 1].start
      <3>1. SUFFICES ASSUME j > 1 PROVE s[j].until <= s[j - 1].start
        OBVIOUS
      <3>2. j - 1 \in 1 .. shown /\ N + 1 - (j - 1) = i + 1 /\ i < N
        BY <1>3, <1>6, <2>1, <3>1
      <3>3. s[j - 1] = h[i + 1]
        BY <1>6, <3>2
      <3>4. h[i].until <= h[i + 1].start
        BY <1>7, <2>1, <3>2
      <3>5. QED
        BY <2>1, <3>3, <3>4
    <2> HIDE DEF S, k, s, R
    <2>7. QED
      BY <2>2, <2>3, <2>4, <2>5, <2>6
  <1>11. ASSUME N <= MaxShown
         PROVE  /\ Total([j \in DOMAIN s |-> s[j].tests]) = BreachTests(days)
                /\ \A m \in Metrics :
                      Total([j \in DOMAIN s |-> s[j].counts[m]]) = Violations(days)[m]
    <2>1. /\ DOMAIN s = 1 .. N
          /\ \A j \in 1 .. N : N + 1 - j \in 1 .. N /\ Covers(s[j], R, w[N + 1 - j], n)
      <3> HIDE DEF R, h, s, n
      <3>1. shown = N
        BY <1>3, <1>6, <1>11
      <3> HIDE DEF shown
      <3>2. \A j \in 1 .. N : N + 1 - j \in 1 .. N /\ s[j] = h[N + 1 - j]
        BY <1>6, <3>1
      <3>3. QED
        BY <1>6, <1>7, <3>1, <3>2
    <2> HIDE DEF s
    <2>2. Lists(w, R, n)
      BY <1>2 DEF Fits
    <2>3. IsFiniteSet(R)
      <3>1. IsFiniteSet(1 .. n) /\ R \subseteq 1 .. n
        BY <1>1, FS_Interval DEF IsWindow
      <3>2. QED
        BY <3>1, FS_Subset
    <2>4. Total([j \in DOMAIN s |-> s[j].tests]) = BreachTests(days)
      <3> DEFINE X == {l \in R : IsBad(l)}
                 numbers == [j \in 1 .. N |-> s[j].tests]
      <3>1. \A k : X \cap Stretch(R, k) = Stretch(R, k)
        BY <1>1 DEF Stretch, IsWindow
      <3>2. Len(numbers) = N
        BY <1>3
      <3>3. \A j \in 1 .. N : numbers[j] = Cardinality(X \cap Stretch(R, w[N + 1 - j]))
        BY <1>8, <2>1, <3>1 DEF Covers
      <3>4. X \subseteq R /\ \A l \in X : IsBad(l)
        OBVIOUS
      <3>5. BreachTests(days) = Cardinality(X)
        <4> DEFINE G == {l \in R : entries[l].breaches = {}}
        <4>1. BreachTests(days) = Cardinality(R) - Cardinality(G)
          BY DEF BreachTests, GoodTests
        <4>2. G \cap X = {} /\ G \cup X = R
          BY DEF X, IsBad
        <4> HIDE DEF G, R, X
        <4>3. IsFiniteSet(G) /\ IsFiniteSet(X)
          <5>1. G \subseteq R /\ X \subseteq R
            BY <4>2
          <5>2. QED
            BY <2>3, <5>1, FS_Subset
        <4>4. Cardinality(G) \in Nat /\ Cardinality(X) \in Nat
          BY <4>3, FS_CardinalityType
        <4>5. Cardinality(R) = Cardinality(G) + Cardinality(X)
          <5>1. Cardinality(G \cup X) = Cardinality(G) + Cardinality(X) - Cardinality(G \cap X)
            BY <4>3, FS_Union
          <5>2. Cardinality(G \cap X) = 0
            BY <4>2, FS_EmptySet
          <5>3. Cardinality(G \cup X) = Cardinality(R)
            BY <4>2
          <5>4. QED
            BY <4>4, <5>1, <5>2, <5>3
        <4>6. QED
          BY <4>1, <4>4, <4>5
      <3> HIDE DEF numbers, X
      <3>6. Total(numbers) = Cardinality(X)
        <4>1. OfStretches(numbers, X, R, w)
          BY <3>2, <3>3, <3>4 DEF OfStretches
        <4> HIDE DEF R
        <4>2. QED
          BY <1>1, <2>2, <4>1, StretchesAddUp
      <3>7. QED
        BY <2>1, <3>5, <3>6 DEF numbers
    <2>5. ASSUME NEW m \in Metrics
          PROVE  Total([j \in DOMAIN s |-> s[j].counts[m]]) = Violations(days)[m]
      <3> DEFINE X == {l \in R : m \in entries[l].breaches}
                 numbers == [j \in 1 .. N |-> s[j].counts[m]]
      <3>1. \A k : {l \in Stretch(R, k) : m \in entries[l].breaches} = X \cap Stretch(R, k)
        BY DEF Stretch
      <3>2. Len(numbers) = N
        BY <1>3
      <3>3. \A j \in 1 .. N : numbers[j] = Cardinality(X \cap Stretch(R, w[N + 1 - j]))
        <4>1. TAKE j \in 1 .. N
        <4> DEFINE k == w[N + 1 - j]
        <4>2. Covers(s[j], R, k, n)
          BY <2>1
        <4> HIDE DEF k, R
        <4>3. s[j].counts[m] = BadTests(Stretch(R, k), m)
          BY <1>8, <4>2 DEF Covers
        <4>4. BadTests(Stretch(R, k), m) = Cardinality(X \cap Stretch(R, k))
          BY <3>1 DEF BadTests
        <4>5. QED
          BY <4>3, <4>4 DEF k
      <3>4. X \subseteq R /\ \A l \in X : IsBad(l)
        BY DEF IsBad
      <3>5. Violations(days)[m] = Cardinality(X)
        BY DEF Violations, BadTests
      <3> HIDE DEF numbers, X
      <3>6. Total(numbers) = Cardinality(X)
        <4>1. OfStretches(numbers, X, R, w)
          BY <3>2, <3>3, <3>4 DEF OfStretches
        <4> HIDE DEF R
        <4>2. QED
          BY <1>1, <2>2, <4>1, StretchesAddUp
      <3>7. QED
        BY <2>1, <3>5, <3>6 DEF numbers
    <2>6. QED
      BY <2>4, <2>5
  <1>12. QED
    <2> HIDE DEF R, S, n, h, s
    <2>1. Len(s) = IF N < MaxShown THEN N ELSE MaxShown
      BY <1>6
    <2>2. DOMAIN s = 1 .. shown
      BY <1>6
    <2> HIDE DEF shown
    <2>3. QED
      BY <1>5, <1>10, <1>11, <2>1, <2>2 DEF R, S, n, s

\* The incidents of the dashboard (_build_incident_history) are the stretches of bad tests of
\* its window, each with their tests and breaches, the newest first; when all are shown, they
\* add up to the tests with a breach and the breaches of the window (_build_sla_summary).
THEOREM IncidentsAddUpHolds == RecordsSpec => []IncidentsAddUp
  BY RecordsInductive, AddUp, PTL

==============================================================================
