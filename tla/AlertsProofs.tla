----------------------------- MODULE AlertsProofs -----------------------------
(***************************************************************************)
(* The properties of Alerts for any set of tests, any cooldown and any     *)
(* time.  What the file says is the time of the alert that was noted last, *)
(* seen on the local clock (StampIsNoted); with nobody between reaching    *)
(* somebody and writing the time, nothing lost makes that the time when    *)
(* somebody was last told (NotedIsTold); and two alerts that are sent at   *)
(* once know it afterwards (TogetherExcused).                              *)
(***************************************************************************)
EXTENDS Alerts, TLAPS

Channels == {"mail", "webhook", "ntfy"}
Places == {"idle", "mail", "webhook", "ntfy", "tried", "write"}

SenderType ==
    [at : Places, heard : BOOLEAN, reached : SUBSET Channels, time : Int, local : Int, excused : BOOLEAN]

AlertsTypeOK ==
    /\ clock \in Nat /\ shift \in Int
    /\ stamp \in Int \cup {Unreadable}
    /\ sender \in [Tests -> SenderType]
    /\ told \in Int /\ noted \in Int
    /\ lost \in BOOLEAN /\ shifted \in BOOLEAN

WritersReached ==
    /\ \A t \in Tests : sender[t].at = "write" => sender[t].reached # {}
    /\ \A t \in Tests : sender[t].reached # {} => sender[t].heard

StampIsNoted == stamp # Unreadable /\ ~shifted => stamp = noted + shift

NotedIsTold ==
    ~lost /\ (\A t \in Tests : ~Unwritten(t)) =>
        IF stamp = Unreadable THEN told = Never ELSE told <= noted

TogetherExcused ==
    \A t, o \in Tests : t # o /\ Sending(t) /\ Sending(o) => sender[t].excused

AlertsInv ==
    AlertsTypeOK /\ WritersReached /\ StampIsNoted /\ NotedIsTold /\ TogetherExcused /\ CooldownHolds

USE AlertsAssumption

-----------------------------------------------------------------------------
LEMMA IdleType ==
    ASSUME NEW at \in Places, NEW excused \in BOOLEAN
    PROVE  Idle \in SenderType /\ [Idle EXCEPT !.at = at, !.excused = excused] \in SenderType
<1>1. Idle \in SenderType
  BY DEF Idle, SenderType, Places, Channels
<1>. QED
  BY <1>1 DEF SenderType

LEMMA InitType == Init => AlertsTypeOK
<1>1. -Cooldown \in Int
  OBVIOUS
<1>2. [t \in Tests |-> Idle] \in [Tests -> SenderType]
  BY IdleType DEF Places
<1>3. ASSUME Init
      PROVE  clock \in Nat /\ shift \in Int /\ told \in Int /\ noted \in Int
  BY <1>1, <1>3, SMT DEF Init, Never
<1>4. ASSUME Init
      PROVE  /\ lost \in BOOLEAN /\ shifted \in BOOLEAN /\ stamp \in Int \cup {Unreadable}
             /\ sender \in [Tests -> SenderType]
  BY <1>2, <1>4, Zenon DEF Init
<1>. QED
  BY <1>3, <1>4 DEF AlertsTypeOK

\* How one sender is left by the parts of SendAlert.
LEMMA TryType ==
    ASSUME AlertsTypeOK, NEW t \in Tests, NEW channel \in Channels, NEW next \in Places,
           Try(t, channel, next)
    PROVE  AlertsTypeOK'
BY DEF AlertsTypeOK, Try, SenderType, Channels, Places

LEMMA ViolationType ==
    ASSUME AlertsTypeOK, NEW t \in Tests, Violation(t)
    PROVE  AlertsTypeOK'
<1> DEFINE others == {o \in Tests \ {t} : Sending(o)}
           late(o) == [sender[o] EXCEPT !.excused = TRUE]
           new == [Idle EXCEPT !.at = "mail", !.excused = others # {} \/ lost \/ shifted]
<1>1. new \in SenderType
  <2>1. "mail" \in Places /\ (others # {} \/ lost \/ shifted) \in BOOLEAN
    BY DEF Places
  <2>. QED
    BY <2>1, IdleType
<1>2. ASSUME NEW o \in Tests PROVE late(o) \in SenderType /\ sender[o] \in SenderType
  BY DEF AlertsTypeOK, SenderType
<1>3. sender' = [o \in Tests |-> CASE o = t -> new [] o \in others -> late(o) [] OTHER -> sender[o]]
  BY DEF Violation
<1>. HIDE DEF new, late, others
<1>4. ASSUME NEW o \in Tests
      PROVE  (CASE o = t -> new [] o \in others -> late(o) [] OTHER -> sender[o]) \in SenderType
  BY <1>1, <1>2, o = t \/ (o # t /\ o \in others) \/ (o # t /\ o \notin others)
<1>5. sender' \in [Tests -> SenderType]
  BY <1>3, <1>4
<1>. QED
  BY <1>5 DEF AlertsTypeOK, Violation

LEMMA StepType ==
    ASSUME AlertsTypeOK, [Next]_vars
    PROVE  AlertsTypeOK'
<1>1. CASE Tick
  BY <1>1 DEF Tick, AlertsTypeOK
<1>2. CASE SetClock
  BY <1>2 DEF SetClock, AlertsTypeOK
<1>3. CASE UNCHANGED vars
  BY <1>3 DEF vars, AlertsTypeOK
<1>4. ASSUME NEW t \in Tests, SendAlert(t) PROVE AlertsTypeOK'
  <2>1. CASE Silenced(t)
    BY <2>1 DEF Silenced, vars, AlertsTypeOK
  <2>2. CASE Violation(t)
    BY <2>2, ViolationType
  <2>3. CASE SendAlertEmail(t) \/ SendWebhookEvent(t) \/ SendNtfyEvent(t)
    <3>1. CASE SendAlertEmail(t)
      BY <3>1, TryType DEF SendAlertEmail, Channels, Places
    <3>2. CASE SendWebhookEvent(t)
      BY <3>2, TryType DEF SendWebhookEvent, Channels, Places
    <3>3. CASE SendNtfyEvent(t)
      BY <3>3, TryType DEF SendNtfyEvent, Channels, Places
    <3>. QED
      BY <2>3, <3>1, <3>2, <3>3
  <2>4. CASE OpenStamp(t)
    <3>1. clock \in Int /\ Now \in Int /\ "write" \in Places
      BY DEF AlertsTypeOK, Now, Places
    <3> DEFINE written(time, local) ==
                   [sender[t] EXCEPT !.at = "write", !.time = time, !.local = local]
    <3>2. sender[t] \in SenderType /\ sender \in [Tests -> SenderType]
      BY DEF AlertsTypeOK
    <3>3. \A time, local \in Int : written(time, local) \in SenderType
      BY <3>1, <3>2 DEF SenderType
    <3>4. sender' = [sender EXCEPT ![t] = written(clock, Now)]
      BY <2>4 DEF OpenStamp
    <3> HIDE DEF written
    <3>5. sender' \in [Tests -> SenderType]
      BY <3>1, <3>2, <3>3, <3>4
    <3>. QED
      BY <2>4, <3>5 DEF OpenStamp, AlertsTypeOK
  <2>5. CASE WriteStamp(t)
    BY <2>5 DEF WriteStamp, End, AlertsTypeOK, SenderType, Places, Idle
  <2>6. CASE LogFailure(t)
    BY <2>6 DEF LogFailure, End, AlertsTypeOK, SenderType, Places, Idle
  <2>7. CASE Stop(t)
    BY <2>7 DEF Stop, End, AlertsTypeOK, SenderType, Places, Idle
  <2>. QED
    BY <1>4, <2>1, <2>2, <2>3, <2>4, <2>5, <2>6, <2>7 DEF SendAlert
<1>. QED
  BY <1>1, <1>2, <1>3, <1>4 DEF Next

-----------------------------------------------------------------------------
\* The other parts, one step of SendAlert at a time.
LEMMA TryKeeps ==
    ASSUME AlertsInv, AlertsTypeOK', NEW t \in Tests, NEW channel \in Channels,
           NEW next \in Places \ {"idle", "write"}, Try(t, channel, next)
    PROVE  AlertsInv'
<1>1. /\ \A o \in Tests \ {t} : sender'[o] = sender[o]
      /\ sender'[t].at = next /\ sender'[t].excused = sender[t].excused
      /\ sender[t].at = channel /\ channel # "idle"
      /\ UNCHANGED <<clock, shift, stamp, noted, lost, shifted>>
  BY DEF Try, AlertsInv, AlertsTypeOK, SenderType, Channels
<1>2. CASE sender'[t].reached = sender[t].reached /\ sender'[t].heard = sender[t].heard /\ UNCHANGED told
  <2>1. \A o \in Tests : /\ Sending(o)' <=> Sending(o)
                         /\ Unwritten(o)' <=> Unwritten(o)
    BY <1>1, <1>2 DEF Sending, Unwritten
  <2>2. WritersReached' /\ StampIsNoted' /\ TogetherExcused'
    BY <1>1, <1>2, <2>1 DEF AlertsInv, WritersReached, StampIsNoted, TogetherExcused
  <2>3. NotedIsTold'
    BY <1>1, <1>2, <2>1 DEF AlertsInv, NotedIsTold
  <2>4. CooldownHolds'
    BY <1>1, <1>2, <2>1 DEF AlertsInv, CooldownHolds
  <2>. QED
    BY <2>2, <2>3, <2>4 DEF AlertsInv
<1>3. CASE sender'[t].heard /\ told' = clock
  <2>1. Unwritten(t)'
    BY <1>1, <1>3 DEF Sending, Unwritten
  <2>2. \A o \in Tests : Sending(o)' <=> Sending(o)
    BY <1>1 DEF Sending
  <2>3. WritersReached' /\ StampIsNoted' /\ TogetherExcused' /\ NotedIsTold'
    BY <1>1, <1>3, <2>1, <2>2 DEF AlertsInv, WritersReached, StampIsNoted, TogetherExcused, NotedIsTold
  <2>4. \A o \in Tests \ {t} : Sending(o)' => sender'[o].excused
    BY <1>1, <2>2 DEF AlertsInv, TogetherExcused, Sending
  <2>5. CooldownHolds'
    BY <1>3, <2>4 DEF CooldownHolds
  <2>. QED
    BY <2>3, <2>5 DEF AlertsInv
<1>. QED
  BY <1>2, <1>3 DEF Try, AlertsInv, AlertsTypeOK, SenderType

\* A sender ends, and what changes besides concerns the file only.
LEMMA EndKeeps ==
    ASSUME AlertsInv, AlertsTypeOK', NEW t \in Tests, End(t),
           UNCHANGED <<clock, told>>, StampIsNoted', NotedIsTold'
    PROVE  AlertsInv'
<1>1. /\ \A o \in Tests \ {t} : sender'[o] = sender[o]
      /\ sender'[t] = Idle /\ ~Sending(t)'
  BY DEF End, AlertsInv, AlertsTypeOK, Sending, Idle
<1>2. \A o \in Tests \ {t} : Sending(o)' <=> Sending(o)
  BY <1>1 DEF Sending
<1>3. WritersReached'
  BY <1>1 DEF AlertsInv, WritersReached, Idle
<1>4. TogetherExcused'
  BY <1>1, <1>2 DEF AlertsInv, TogetherExcused
<1>5. CooldownHolds'
  BY <1>1, <1>2 DEF AlertsInv, CooldownHolds
<1>. QED
  BY <1>3, <1>4, <1>5 DEF AlertsInv

LEMMA ViolationKeeps ==
    ASSUME AlertsInv, AlertsTypeOK', NEW t \in Tests, Violation(t)
    PROVE  AlertsInv'
<1> DEFINE others == {o \in Tests \ {t} : Sending(o)}
<1>1. /\ ~CooldownActive /\ ~Sending(t)
      /\ UNCHANGED <<clock, shift, stamp, told, noted, lost, shifted>>
  BY DEF Violation, Sending
<1>2. /\ sender'[t].at = "mail" /\ sender'[t].reached = {} /\ ~sender'[t].heard
      /\ sender'[t].excused = (others # {} \/ lost \/ shifted)
  BY DEF Violation, Idle
<1>3. \A o \in others : /\ sender'[o].at = sender[o].at /\ sender'[o].reached = sender[o].reached
                        /\ sender'[o].heard = sender[o].heard /\ sender'[o].excused
  BY DEF Violation, AlertsInv, AlertsTypeOK, SenderType
<1>4. \A o \in (Tests \ {t}) \ others : sender'[o] = sender[o] /\ ~Sending(o)
  BY DEF Violation
<1>5. /\ \A o \in Tests \ {t} : Sending(o)' <=> Sending(o)
      /\ \A o \in Tests : Unwritten(o)' <=> Unwritten(o)
  BY <1>1, <1>2, <1>3, <1>4 DEF Sending, Unwritten
<1>. HIDE DEF others
<1>6. WritersReached'
  BY <1>2, <1>3, <1>4 DEF AlertsInv, WritersReached
<1>7. StampIsNoted' /\ NotedIsTold'
  BY <1>1, <1>5 DEF AlertsInv, StampIsNoted, NotedIsTold
<1>8. TogetherExcused'
  <2>1. \A o \in Tests \ {t} : Sending(o)' => o \in others /\ others # {}
    BY <1>5 DEF others
  <2>. QED
    BY <2>1, <1>2, <1>3 DEF TogetherExcused
<1>9. CooldownHolds'
  <2>1. \A o \in Tests \ {t} : Sending(o)' => sender'[o].excused
    BY <1>3, <1>5 DEF others
  <2>2. ASSUME ~sender'[t].excused PROVE told + Cooldown <= clock
    <3>1. ~lost /\ ~shifted /\ \A o \in Tests : ~Unwritten(o)
      BY <1>1, <1>2, <2>2 DEF others, Unwritten
    <3>2. CASE stamp = Unreadable
      BY <3>1, <3>2 DEF AlertsInv, NotedIsTold, AlertsTypeOK, Never
    <3>3. CASE stamp # Unreadable
      <4>1. told <= noted /\ stamp = noted + shift
        BY <3>1, <3>3 DEF AlertsInv, NotedIsTold, StampIsNoted
      <4>2. ~(clock + shift - stamp < Cooldown)
        BY <1>1, <3>3 DEF CooldownActive, Now, AlertsInv, AlertsTypeOK
      <4>. QED
        BY <4>1, <4>2, <3>3 DEF AlertsInv, AlertsTypeOK
    <3>. QED
      BY <3>2, <3>3
  <2>. QED
    BY <1>1, <2>1, <2>2 DEF CooldownHolds
<1>. QED
  BY <1>6, <1>7, <1>8, <1>9 DEF AlertsInv

LEMMA OpenStampKeeps ==
    ASSUME AlertsInv, AlertsTypeOK', NEW t \in Tests, OpenStamp(t)
    PROVE  AlertsInv'
<1>1. /\ \A o \in Tests \ {t} : sender'[o] = sender[o]
      /\ sender'[t].at = "write" /\ sender'[t].reached = sender[t].reached
      /\ sender'[t].heard = sender[t].heard
      /\ sender'[t].excused = sender[t].excused
      /\ sender[t].at = "tried" /\ sender[t].reached # {}
      /\ stamp' = Unreadable
      /\ UNCHANGED <<clock, shift, told, noted, lost, shifted>>
  BY DEF OpenStamp, Success, AlertsInv, AlertsTypeOK, SenderType
<1>2. Unwritten(t)' /\ \A o \in Tests : Sending(o)' <=> Sending(o)
  BY <1>1 DEF Sending, Unwritten, AlertsInv, WritersReached
<1>3. WritersReached' /\ StampIsNoted' /\ NotedIsTold'
  BY <1>1, <1>2 DEF AlertsInv, WritersReached, StampIsNoted, NotedIsTold
<1>4. TogetherExcused'
  BY <1>1, <1>2 DEF AlertsInv, TogetherExcused
<1>5. CooldownHolds'
  BY <1>1, <1>2 DEF AlertsInv, CooldownHolds
<1>. QED
  BY <1>3, <1>4, <1>5 DEF AlertsInv

LEMMA WriteStampKeeps ==
    ASSUME AlertsInv, AlertsTypeOK', NEW t \in Tests, WriteStamp(t)
    PROVE  AlertsInv'
<1>1. /\ noted' = sender[t].time /\ stamp' = sender[t].local
      /\ ~lost' => ~(sender[t].time < told)
      /\ shifted' = (sender[t].local # sender[t].time + shift)
      /\ End(t) /\ UNCHANGED <<clock, shift, told>>
  <2>1. sender[t].reached # {}
    BY Zenon DEF WriteStamp, AlertsInv, WritersReached
  <2>. QED
    BY <2>1, Zenon DEF WriteStamp
<1>2. sender[t].time \in Int /\ sender[t].local \in Int /\ told \in Int /\ shift \in Int
  BY DEF AlertsInv, AlertsTypeOK, SenderType
<1>3. stamp' # Unreadable
  BY <1>1, <1>2
<1>4. StampIsNoted'
  BY <1>1, <1>2 DEF StampIsNoted
<1>5. ~lost' => told' <= noted'
  BY <1>1, <1>2
<1>6. NotedIsTold'
  BY <1>3, <1>5 DEF NotedIsTold
<1>. QED
  BY <1>1, <1>4, <1>6, EndKeeps

\* The sender that ends has nothing to write, or the time is lost.
LEMMA StopKeeps ==
    ASSUME AlertsInv, AlertsTypeOK', NEW t \in Tests, LogFailure(t) \/ Stop(t)
    PROVE  AlertsInv'
<1>1. /\ End(t) /\ UNCHANGED <<clock, shift, stamp, told, noted, shifted>>
      /\ lost' \/ (~lost /\ ~Unwritten(t)) \/ (lost' = lost /\ ~Unwritten(t))
  BY DEF LogFailure, Stop, Success, Unwritten, AlertsInv, AlertsTypeOK
<1>2. \A o \in Tests \ {t} : sender'[o] = sender[o] /\ (Unwritten(o)' <=> Unwritten(o))
  BY <1>1 DEF End, AlertsInv, AlertsTypeOK, Unwritten, Sending
<1>3. (lost => lost')
  BY DEF LogFailure, Stop
<1>4. StampIsNoted' /\ NotedIsTold'
  BY <1>1, <1>2, <1>3 DEF AlertsInv, StampIsNoted, NotedIsTold, Never
<1>. QED
  BY <1>1, <1>4, EndKeeps

-----------------------------------------------------------------------------
LEMMA StepKeeps ==
    ASSUME AlertsInv, [Next]_vars
    PROVE  AlertsInv'
<1>0. AlertsTypeOK'
  BY StepType DEF AlertsInv
<1>1. CASE Tick
  <2>1. clock' = clock + 1 /\ UNCHANGED <<shift, stamp, sender, told, noted, lost, shifted>>
    BY <1>1 DEF Tick
  <2>2. WritersReached' /\ StampIsNoted' /\ NotedIsTold' /\ TogetherExcused'
    BY <2>1 DEF AlertsInv, WritersReached, StampIsNoted, NotedIsTold, TogetherExcused, Unwritten, Sending, Never
  <2>3. CooldownHolds'
    BY <2>1 DEF AlertsInv, AlertsTypeOK, CooldownHolds, Sending
  <2>. QED
    BY <1>0, <2>2, <2>3 DEF AlertsInv
<1>2. CASE SetClock \/ UNCHANGED vars
  <2>1. UNCHANGED <<clock, stamp, sender, told, noted, lost>>
    BY <1>2 DEF SetClock, vars
  <2>2. shifted' \/ UNCHANGED <<shift, shifted>>
    BY <1>2 DEF SetClock, vars
  <2>3. WritersReached' /\ NotedIsTold' /\ TogetherExcused' /\ CooldownHolds'
    BY <2>1 DEF AlertsInv, WritersReached, NotedIsTold, TogetherExcused, CooldownHolds, Unwritten, Sending, Never
  <2>4. StampIsNoted'
    BY <2>1, <2>2 DEF AlertsInv, StampIsNoted
  <2>. QED
    BY <1>0, <2>3, <2>4 DEF AlertsInv
<1>3. ASSUME NEW t \in Tests, SendAlert(t) PROVE AlertsInv'
  <2>1. CASE Silenced(t)
    BY <2>1, <1>2 DEF Silenced
  <2>2. CASE SendAlertEmail(t) \/ SendWebhookEvent(t) \/ SendNtfyEvent(t)
    BY <1>0, <2>2, TryKeeps DEF SendAlertEmail, SendWebhookEvent, SendNtfyEvent, Channels, Places
  <2>. QED
    BY <1>0, <1>3, <2>1, <2>2, ViolationKeeps, OpenStampKeeps, WriteStampKeeps, StopKeeps DEF SendAlert
<1>. QED
  BY <1>1, <1>2, <1>3 DEF Next

LEMMA InitInv == Init => AlertsInv
BY InitType
   DEF Init, AlertsInv, WritersReached, StampIsNoted, NotedIsTold, TogetherExcused, CooldownHolds,
       Unwritten, Sending, Idle, Never

\* No alert is sent within a cooldown of the last that reached somebody, for any number of
\* tests at once, unless another was under way, its time was lost (also because every
\* channel that delivered it said it had failed) or the clock was set.
THEOREM CooldownHoldsAlways == Spec => []CooldownHolds
<1>1. AlertsInv => CooldownHolds
  BY DEF AlertsInv
<1>. QED
  BY <1>1, InitInv, StepKeeps, PTL DEF Spec

\* No alert is silenced but for one that reached somebody less than a cooldown ago, unless
\* the clock was set since.
THEOREM SilencedWithReasonHolds == Spec => []SilencedWithReason
<1>1. AlertsInv => SilencedWithReason
  BY DEF AlertsInv, AlertsTypeOK, StampIsNoted, SilencedWithReason, CooldownActive, Now
<1>. QED
  BY <1>1, InitInv, StepKeeps, PTL DEF Spec

==============================================================================
