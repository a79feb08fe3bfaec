-------------------------- MODULE MCVenueScheduler ---------------------------
(* VenueScheduler, watched, on one table. *)
EXTENDS VenueWatch

CONSTANTS b1, b2, r1, c1, c2

MCIds == {b1, b2}
MCTables == {1}
MCTimes == 0..3
MCRequests == {r1}
MCCallbacks == {c1, c2}

Stay(i, o) == [table |-> 1, in |-> i, out |-> o, paid |-> FALSE, status |-> "ACTIVE"]
None == [table |-> 1, in |-> 0, out |-> 0, paid |-> FALSE, status |-> "ABSENT"]

\* Before the first boot one stay has been booked: running, or still to come.
MCInitialDbs ==
    {[k \in MCIds |-> IF k = b1 THEN s ELSE None] : s \in {Stay(0, 1), Stay(1, 2)}}

Body(op, k, i, o, f) ==
    [op |-> op, id |-> k, table |-> 1, in |-> i, out |-> o, paid |-> FALSE,
     staff |-> FALSE, sets |-> f]

\* Beside it b2 is booked, and paid for; b1 is extended, or cancelled.
MCInputs ==
    {Body("create", NoId, 1, 3, {}), Body("update", b2, 0, 0, {"paid"}),
     Body("update", b1, 0, 2, {"out"}), Body("cancel", b1, 0, 0, {})}
==============================================================================
