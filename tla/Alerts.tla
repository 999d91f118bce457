-------------------------------- MODULE Alerts --------------------------------
(***************************************************************************)
(* Alerts (check_thresholds_and_alert, SendAlert.py, push_notifications.py)*)
(* Every speed test that violates a threshold runs SendAlert as a child:   *)
(* it asks last_alert.txt whether the cooldown has passed, tries mail,     *)
(* webhook and ntfy in turn, and writes the time when one of them worked.  *)
(* Tests of several processes do so at once, on one file.  The times are   *)
(* local times without a zone.                                             *)
(***************************************************************************)
EXTENDS Integers, FiniteSets

CONSTANTS
    Tests,      \* speed tests that may run at once: manual, scheduled, at start-up
    Cooldown,   \* alert_cooldown_minutes, as many as an hour has
    MaxClock,   \* bound: time that passes
    Unreadable  \* last_alert.txt holds no time, or is not there

ASSUME AlertsAssumption ==
    /\ Cooldown \in Nat \ {0} /\ MaxClock \in Nat
    /\ IsFiniteSet(Tests) /\ Unreadable \notin Int

VARIABLES
    clock,    \* time that has passed
    shift,    \* what the local clock shows less that
    stamp,    \* last_alert.txt
    sender,   \* the SendAlert of each test
    told,     \* when somebody was last told (history)
    noted,    \* when the time of an alert that was told was last taken (history)
    lost,     \* the time of an alert that was delivered did not get into the file (history)
    shifted   \* the local clock was set after the time in the file (history)

vars == <<clock, shift, stamp, sender, told, noted, lost, shifted>>

\* heard: a channel delivered the alert; reached: the channels that say so.
Idle == [at |-> "idle", heard |-> FALSE, reached |-> {}, time |-> 0, local |-> 0, excused |-> FALSE]
Never == -Cooldown

Init ==
    /\ clock = 0 /\ shift = 0
    /\ stamp = Unreadable
    /\ sender = [t \in Tests |-> Idle]
    /\ told = Never /\ noted = Never
    /\ lost = FALSE /\ shifted = FALSE

-----------------------------------------------------------------------------
(* Helpers *)

Now == clock + shift

\* SendAlert of test t has passed the check of the cooldown.
Sending(t) == sender[t].at # "idle"

\* It has told somebody, and the file does not say so yet.
Unwritten(t) == Sending(t) /\ sender[t].heard

End(t) == sender' = [sender EXCEPT ![t] = Idle]

Tick ==
    /\ clock < MaxClock /\ clock' = clock + 1
    /\ UNCHANGED <<shift, stamp, sender, told, noted, lost, shifted>>

\* Daylight saving time begins or ends.
SetClock ==
    /\ shift = 0 /\ shift' \in {-Cooldown, Cooldown} /\ shifted' = TRUE
    /\ UNCHANGED <<clock, stamp, sender, told, noted, lost>>

-----------------------------------------------------------------------------
(* SendAlert *)

\* check_cooldown.  A file that holds no time is a warning and no obstacle.
CooldownActive == stamp # Unreadable /\ Now - stamp < Cooldown

\* check_thresholds_and_alert: a value is beyond its threshold and alerts are wanted.
Silenced(t) ==
    /\ sender[t].at = "idle" /\ CooldownActive
    /\ UNCHANGED vars

\* From here on two that are under way do not know of each other.
Violation(t) ==
    /\ sender[t].at = "idle" /\ ~CooldownActive
    /\ LET others == {o \in Tests \ {t} : Sending(o)}
       IN  sender' = [o \in Tests |->
               CASE o = t -> [Idle EXCEPT !.at = "mail",
                                          !.excused = others # {} \/ lost \/ shifted]
                 [] o \in others -> [sender[o] EXCEPT !.excused = TRUE]
                 [] OTHER -> sender[o]]
    /\ UNCHANGED <<clock, shift, stamp, told, noted, lost, shifted>>

\* A channel delivers and says so, or delivers and says that it failed (the server's answer
\* does not come: send_message returned and quit raises, the request times out after it was
\* taken), or does not deliver: mail whose settings are wanting or whose server refuses, a
\* push channel that is off, not wanted for alerts, wrongly set up or out of reach.
Try(t, channel, next) ==
    /\ sender[t].at = channel
    /\ \/ /\ told' = clock
          /\ \E answered \in {{channel}, {}} :
                sender' = [sender EXCEPT ![t].at = next, ![t].heard = TRUE,
                                         ![t].reached = @ \cup answered]
       \/ sender' = [sender EXCEPT ![t].at = next] /\ UNCHANGED told
    /\ UNCHANGED <<clock, shift, stamp, noted, lost, shifted>>

\* None of them stops the others.
SendAlertEmail(t) == Try(t, "mail", "webhook")
SendWebhookEvent(t) == Try(t, "webhook", "ntfy")
SendNtfyEvent(t) == Try(t, "ntfy", "tried")

\* Mutant: only mail counts.
MailSucceeded(reached) == "mail" \in reached

\* Mutant: having tried counts.
Tried(reached) == TRUE

Success(reached) == reached # {}

\* The file is opened and emptied and the time taken; it is written on close.
OpenStamp(t) ==
    /\ sender[t].at = "tried" /\ Success(sender[t].reached)
    /\ sender' = [sender EXCEPT ![t].at = "write", ![t].time = clock, ![t].local = Now]
    /\ stamp' = Unreadable
    /\ UNCHANGED <<clock, shift, told, noted, lost, shifted>>

\* What fails after that, in the history of notifications, is ignored.
WriteStamp(t) ==
    /\ sender[t].at = "write" /\ End(t)
    /\ stamp' = sender[t].local
    /\ noted' = IF sender[t].reached = {} THEN noted ELSE sender[t].time
    /\ lost' = (sender[t].time < told)
    /\ shifted' = (sender[t].local # sender[t].time + shift)
    /\ UNCHANGED <<clock, shift, told>>

\* No channel says that it worked: a line in the error log, whoever was told.
LogFailure(t) ==
    /\ sender[t].at = "tried" /\ ~Success(sender[t].reached)
    /\ End(t)
    /\ lost' = (lost \/ (sender[t].heard /\ sender[t].reached = {}))
    /\ UNCHANGED <<clock, shift, stamp, told, noted, shifted>>

\* A file cannot be written, or the process ends.
Stop(t) ==
    /\ Sending(t) /\ End(t)
    /\ lost' = (lost \/ Unwritten(t))
    /\ UNCHANGED <<clock, shift, stamp, told, noted, shifted>>

-----------------------------------------------------------------------------
SendAlert(t) ==
    \/ Silenced(t) \/ Violation(t)
    \/ SendAlertEmail(t) \/ SendWebhookEvent(t) \/ SendNtfyEvent(t)
    \/ OpenStamp(t) \/ WriteStamp(t) \/ LogFailure(t) \/ Stop(t)

Next == (\E t \in Tests : SendAlert(t)) \/ Tick \/ SetClock

Spec == Init /\ [][Next]_vars

-----------------------------------------------------------------------------
(* Properties *)

\* Who sends an alert does so no sooner than a cooldown after somebody was last told, on
\* whatever channel, unless another was being sent meanwhile, the time of an earlier one
\* did not get into the file (its process ended first, it was overwritten by an earlier
\* time, or every channel that delivered it said that it had failed), or the local clock
\* was set since.
CooldownHolds ==
    \A t \in Tests : Sending(t) /\ ~sender[t].excused /\ ~sender[t].heard
                     => told + Cooldown <= clock

\* An alert is silenced only for one that reached somebody, and no longer than a cooldown
\* after that was sent, unless the local clock was set since.
SilencedWithReason == CooldownActive => shifted \/ clock < noted + Cooldown

==============================================================================
