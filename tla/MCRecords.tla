------------------------------ MODULE MCRecords -------------------------------
EXTENDS Records

\* No metric broken, or two; the first test broke one.
MCBreaches == {{}, {"download", "ping"}}
MCFirst == {{"download"}}

\* A time on every day, or scans are disabled.
MCSchedules == {[times |-> {0}, days |-> {0, 1}],
                [times |-> {}, days |-> {0, 1}]}

\* A time zone with a clock behind, or ahead.
MCShifts == {-1, 1}
==============================================================================
