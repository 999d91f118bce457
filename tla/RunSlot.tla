------------------------------- MODULE RunSlot -------------------------------
(***************************************************************************)
(* What the manual speed test promises to the people who watch it: one     *)
(* slot, held by at most one run at a time.  Everything the status page    *)
(* shows is written by the run that holds the slot, about itself, and a    *)
(* run that was shown as ended is never shown as running again.  A restart *)
(* of the dashboard empties the slot and shows no run in progress.         *)
(***************************************************************************)
EXTENDS Naturals

VARIABLES
    holder,     \* the run that holds the slot, 0 when it is free
    begun,      \* how many runs ever took the slot; runs are numbered from 1
    shown       \* what the status page shows: the run and its status

slotVars == <<holder, begun, shown>>

ShownStatus == {"idle", "running", "completed", "failed"}
Ended       == {"completed", "failed"}

SlotInit ==
    /\ holder = 0
    /\ begun = 0
    /\ shown = [run |-> 0, status |-> "idle"]

Take ==
    /\ holder = 0
    /\ begun' = begun + 1
    /\ holder' = begun'
    /\ UNCHANGED shown

Show ==
    /\ holder # 0
    /\ \E s \in {"running"} \cup Ended :
        /\ shown.run = holder /\ shown.status \in Ended => s \in Ended
        /\ shown' = [run |-> holder, status |-> s]
    /\ UNCHANGED <<holder, begun>>

Leave ==
    /\ holder # 0
    /\ holder' = 0
    /\ UNCHANGED <<begun, shown>>

Restarted ==
    /\ holder = 0
    /\ \E r \in 0 .. begun, s \in ShownStatus \ {"running"} :
        shown' = [run |-> r, status |-> s]
    /\ UNCHANGED <<holder, begun>>

SlotNext == Take \/ Show \/ Leave \/ Restarted

SlotSpec == SlotInit /\ [][SlotNext]_slotVars
==============================================================================
