---------------------------- MODULE MCBookingForm ----------------------------
(* Units of 7.5 minutes, and a venue that is open from 10:00 to midnight.    *)
EXTENDS BookingForm

At(day, hour, units) == (24 * day + hour) * 8 + units
Stay(t, start, dur) == [table |-> t, start |-> start, dur |-> dur]

MCOthers == {
    Stay(1, At(3, 9, 4), 8),       \* 09:30 to 10:30, across the opening
    Stay(1, At(3, 22, 0), 16),     \* 22:00 to 24:00
    Stay(1, At(4, 0, 4), 8),       \* 00:30 to 01:30
    Stay(2, At(4, 1, 0), 9) }      \* 01:00 to 02:07 on the other table

\* 10:00 and 00:15 of the next calendar day
MCClock == {At(3, 10, 0), At(4, 0, 2)}

\* 00:15, 09:30 and 23:00
MCTimes == {2, 9 * 8 + 4, 23 * 8}
MCHours == {0, 25}
MCMinutes == {1}
MCButtons == {4}

==============================================================================
