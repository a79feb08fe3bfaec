--------------------------- MODULE MCOperationalDay --------------------------
(* A day, a night and a morning in Colombo, by the half hour. *)
EXTENDS OperationalDay

\* Local clock times, in minutes of UTC.
Local(day, hour, minute) == day * Day + hour * 60 + minute - Offset

Stay(i, o, s) == [in |-> i, out |-> o, staff |-> s]

\* Around midnight, around the closing times, and across the opening time.
MCStays ==
    {Stay(Local(0, 20, 0), Local(0, 22, 0), TRUE),
     Stay(Local(0, 23, 0), Local(1, 1, 30), FALSE),
     Stay(Local(1, 5, 0), Local(1, 6, 30), TRUE),
     Stay(Local(1, 8, 30), Local(1, 10, 0), FALSE)}

MCStarts == {540, 600}
MCCloses == {0, 360, 390}
==============================================================================
