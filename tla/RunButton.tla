------------------------------- MODULE RunButton -------------------------------
(***************************************************************************)
(* The run button of one dashboard page (dashboard.js) against the manual  *)
(* run slot of the server (modelled in detail by ManualRun).  The page     *)
(* POSTs to start a run, or joins the one in progress, and then polls the  *)
(* status until it is over.  Only one status request is under way at a     *)
(* time, but a POST and a status request may overtake each other, and      *)
(* other pages start runs too.                                             *)
(***************************************************************************)
EXTENDS Naturals

CONSTANT MaxRuns   \* bound: runs the server starts

ASSUME RunsAssumption == MaxRuns \in Nat

VARIABLES
    run,      \* the run the status answers are about, and MANUAL_SPEEDTEST_LOCK
    poll,     \* the status request: where it is, announceFinal, the answer
    polling,  \* runStatusPollId is set
    busy,     \* manualRunInFlight
    handled,  \* lastHandledRunCompletion: the last run whose end was presented
    post,     \* the POST of runSpeedtestNow
    awaited,  \* the last run the page was told it follows (history)
    joined,   \* the page's first answer was that a run is in progress (history)
    dropped   \* the run whose polling the page's first answer ended (history)

buttonVars == <<run, poll, polling, busy, handled, post, awaited, joined, dropped>>

NoPoll == [at |-> "none", announce |-> FALSE, n |-> 0, status |-> "idle"]

\* The page as its script leaves it: its first status request is on its way.  The
\* server has run no test, is running one, or has run one.
ButtonInit ==
    /\ run \in {[n |-> 0, status |-> "idle", locked |-> FALSE],
                [n |-> 1, status |-> "running", locked |-> TRUE],
                [n |-> 1, status |-> "ended", locked |-> FALSE]}
    /\ poll = [NoPoll EXCEPT !.at = "asked"]
    /\ polling = FALSE /\ busy = FALSE
    /\ handled = 0 /\ awaited = 0 /\ dropped = 0
    /\ post = "none"
    /\ joined = FALSE

-----------------------------------------------------------------------------
(* The server *)

StartRun ==
    /\ ~run.locked /\ run.n < MaxRuns
    /\ run' = [n |-> run.n + 1, status |-> "running", locked |-> TRUE]

OtherPageStarts ==
    /\ StartRun
    /\ UNCHANGED <<poll, polling, busy, handled, post, awaited, joined, dropped>>

\* The worker publishes the end of the run, and releases the lock only afterwards.
Over == run.status = "ended"

RunEnds ==
    /\ run.status = "running"
    /\ run' = [run EXCEPT !.status = "ended"]
    /\ UNCHANGED <<poll, polling, busy, handled, post, awaited, joined, dropped>>

LockFreed ==
    /\ run.locked /\ Over
    /\ run' = [run EXCEPT !.locked = FALSE]
    /\ UNCHANGED <<poll, polling, busy, handled, post, awaited, joined, dropped>>

-----------------------------------------------------------------------------
(* runSpeedtestNow *)

\* manualRunStartInFlight is post # "none".
Click ==
    /\ ~busy /\ post = "none"
    /\ post' = "sent"
    /\ UNCHANGED <<run, poll, polling, busy, handled, awaited, joined, dropped>>

Followed == post' = "follow" /\ awaited' = run'.n

Refused == post' = "refused" /\ UNCHANGED <<run, awaited>>

\* A run starts (202); or one is in progress and is joined (409, "running"); or it
\* is over but its lock is not free yet (409 with the end of that run); or the
\* request is refused in the cooldown, or fails.
PostAnswered ==
    /\ post = "sent"
    /\ \/ StartRun /\ Followed
       \/ run.status = "running" /\ UNCHANGED run /\ Followed
       \/ run.locked /\ run.status = "ended" /\ Refused
       \/ ~run.locked /\ Refused
    /\ UNCHANGED <<poll, polling, busy, handled, joined, dropped>>

\* syncRunStatus returns at once while another of its requests is under way.
Ask(announce) ==
    poll' = IF poll.at = "none"
            THEN [NoPoll EXCEPT !.at = "asked", !.announce = announce]
            ELSE poll

PostFollowed ==
    /\ post = "follow"
    /\ post' = "none"
    /\ busy' = TRUE
    /\ polling' = TRUE
    /\ Ask(TRUE)
    /\ UNCHANGED <<run, handled, awaited, joined, dropped>>

PostRefused ==
    /\ post = "refused"
    /\ post' = "none"
    /\ UNCHANGED <<run, poll, polling, busy, handled, awaited, joined, dropped>>

-----------------------------------------------------------------------------
(* syncRunStatus *)

PollTimer ==
    /\ polling /\ poll.at = "none"
    /\ Ask(TRUE)
    /\ UNCHANGED <<run, polling, busy, handled, post, awaited, joined, dropped>>

PollAnswered ==
    /\ poll.at = "asked"
    /\ poll' = [poll EXCEPT !.at = "answered", !.n = run.n, !.status = run.status]
    /\ UNCHANGED <<run, polling, busy, handled, post, awaited, joined, dropped>>

\* The request fails, or is not answered 200.
PollFails ==
    /\ poll.at = "asked"
    /\ poll' = NoPoll
    /\ UNCHANGED <<run, polling, busy, handled, post, awaited, joined, dropped>>

PollRunning ==
    /\ poll.at = "answered" /\ poll.status = "running"
    /\ busy' = TRUE
    /\ joined' = (joined \/ ~poll.announce)
    /\ poll' = NoPoll
    /\ UNCHANGED <<run, polling, handled, post, awaited, dropped>>

PollIdle ==
    /\ poll.at = "answered" /\ poll.status = "idle"
    /\ poll' = NoPoll
    /\ UNCHANGED <<run, polling, busy, handled, post, awaited, joined, dropped>>

\* What manualRunInFlight becomes with the end of a run.
BusyStill == busy
BusyAfterEnd == FALSE

\* shouldPresentFinal
PresentsAny == poll.n # handled
PresentsFirst == poll.announce /\ handled = 0
Presents == poll.announce /\ poll.n # handled

PollEnded ==
    /\ poll.at = "answered" /\ poll.status = "ended"
    /\ polling' = FALSE
    /\ busy' = BusyAfterEnd
    /\ IF Presents
       THEN /\ handled' = poll.n
            /\ poll' = [poll EXCEPT !.at = "presenting"]
            /\ UNCHANGED dropped
       ELSE /\ poll' = NoPoll
            /\ dropped' = IF polling /\ ~poll.announce THEN awaited ELSE dropped
            /\ UNCHANGED handled
    /\ UNCHANGED <<run, post, awaited, joined>>

\* The metrics it awaits (loadMetrics) are in, or failed.
Presented ==
    /\ poll.at = "presenting"
    /\ poll' = NoPoll
    /\ UNCHANGED <<run, polling, busy, handled, post, awaited, joined, dropped>>

HandleStatus == PollRunning \/ PollIdle \/ PollEnded \/ Presented

ButtonNext ==
    \/ OtherPageStarts \/ RunEnds \/ LockFreed
    \/ Click \/ PostAnswered \/ PostFollowed \/ PostRefused
    \/ PollTimer \/ PollAnswered \/ PollFails \/ HandleStatus

ButtonSpec == ButtonInit /\ [][ButtonNext]_buttonVars

(* Fairness: a test ends and its worker goes on, a request is answered sooner or
   later if it is asked often enough, answers are handled, the interval fires.
   Nobody has to click, and no other page has to start a run. *)
ButtonFairSpec ==
    /\ ButtonSpec
    /\ WF_buttonVars(RunEnds) /\ WF_buttonVars(LockFreed)
    /\ WF_buttonVars(PostAnswered) /\ WF_buttonVars(PostFollowed) /\ WF_buttonVars(PostRefused)
    /\ WF_buttonVars(PollTimer) /\ SF_buttonVars(PollAnswered) /\ WF_buttonVars(HandleStatus)

-----------------------------------------------------------------------------
(* Properties *)

\* The lock is held as long as the run is in progress.
ButtonTypeOK ==
    /\ run.status = "running" => run.locked
    /\ run \in [n : Nat, status : {"idle", "running", "ended"}, locked : BOOLEAN]
    /\ poll \in [at : {"none", "asked", "answered", "presenting"}, announce : BOOLEAN,
                 n : Nat, status : {"idle", "running", "ended"}]
    /\ polling \in BOOLEAN /\ busy \in BOOLEAN /\ joined \in BOOLEAN
    /\ handled \in Nat /\ awaited \in Nat /\ dropped \in Nat
    /\ post \in {"none", "sent", "follow", "refused"}

\* The button is off without polling, so that nothing would turn it on again, only
\* on a page whose first answer was that a run is in progress: the page shows that
\* run and locks the button (syncRunStatus(false) at the start of the page), but
\* does not poll for its end.
StuckOnlyFromFirstAnswer == busy /\ ~polling => joined

\* While a run the page follows is in progress its button is off, unless the page's
\* first status request, answered before that run and handled after its POST,
\* switched it on.  That answer also ends the polling.
OffWhileFollowed ==
    run.status = "running" /\ awaited = run.n /\ post = "none" => busy \/ dropped = awaited

\* A run the page started or joined has its end presented, or that of a later run,
\* unless the page's first answer ended the polling.
EndIsPresented ==
    \A n \in 1 .. MaxRuns :
        awaited = n ~> (handled >= n \/ dropped >= n)
==============================================================================
