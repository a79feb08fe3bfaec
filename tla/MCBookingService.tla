-------------------------- MODULE MCBookingService ---------------------------
(* BookingService on a small venue: the requests that can arrive. *)
EXTENDS BookingService

CONSTANTS t1, t2, b1, b2, r1, r2

MCTimes == 0..3
MCIds == {b1, b2}
MCTables == {t1, t2}
MCRequests == {r1, r2}

Create(t, i, o, s) ==
    [op |-> "create", id |-> NoId, table |-> t, in |-> i, out |-> o,
     paid |-> FALSE, staff |-> s, sets |-> {}]

Update(k, i, o, p, f) ==
    [op |-> "update", id |-> k, table |-> t1, in |-> i, out |-> o,
     paid |-> p, staff |-> FALSE, sets |-> f]

Drop(k) ==
    [op |-> "cancel", id |-> k, table |-> t1, in |-> 0, out |-> 0,
     paid |-> FALSE, staff |-> FALSE, sets |-> {}]

\* Two stays of t1 that touch, one of t2; b1 can be extended into the stay that
\* follows it, b2 moved forward onto the one before it (either may be either
\* stay); a patch carries one or two of the fields, and may be refused.
MCInputs ==
    {Create(t1, 0, 1, TRUE), Create(t1, 1, 3, FALSE), Create(t2, 0, 1, FALSE),
     Update(b1, 0, 2, FALSE, {"out"}), Update(b2, 0, 0, TRUE, {"in", "paid"}),
     Drop(b1)}
==============================================================================
