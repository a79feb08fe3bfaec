---------------------------- MODULE BookingLedger ----------------------------
(***************************************************************************)
(* What the booking service promises, with no locks, no threads and no     *)
(* program counters: a ledger of bookings in which each booking is made,   *)
(* patched or cancelled by ONE atomic step, and in which the live bookings *)
(* of a table never intersect.  BookingService is shown to implement it.   *)
(***************************************************************************)
EXTENDS Integers

CONSTANTS
    Ids,         \* identifiers of booking documents
    Tables,      \* the tables that can be booked
    Times,       \* instants
    HalfMinute   \* the shortest booking that can be made (rounds to 1 minute)

VARIABLE db      \* db[k] is the booking document with identifier k

Booking == [table : Tables, in : Times, out : Times, paid : BOOLEAN,
            status : {"ABSENT", "ACTIVE", "CANCELLED"}]

Live(k) == db[k].status = "ACTIVE"

\* The window [i, o) of table t is free of every live booking but x.
Vacant(t, i, o, x) ==
    \A k \in Ids \ {x} :
        Live(k) /\ db[k].table = t => db[k].out <= i \/ o <= db[k].in

Init ==
    /\ db \in [Ids -> Booking]
    /\ \A k \in Ids : db[k].status = "ABSENT"

Book(k, b) ==
    /\ db[k].status = "ABSENT"
    /\ b.status = "ACTIVE"
    /\ b.out - b.in >= HalfMinute
    /\ Vacant(b.table, b.in, b.out, k)
    /\ db' = [db EXCEPT ![k] = b]

\* Patching never moves a booking to another table and never revives one.
Patch(k, b) ==
    /\ Live(k)
    /\ b.status = "ACTIVE"
    /\ b.table = db[k].table
    /\ b.in < b.out
    /\ Vacant(b.table, b.in, b.out, k)
    /\ db' = [db EXCEPT ![k] = b]

Cancel(k) ==
    /\ Live(k)
    /\ db' = [db EXCEPT ![k].status = "CANCELLED"]

Next ==
    \E k \in Ids :
        \/ \E b \in Booking : Book(k, b) \/ Patch(k, b)
        \/ Cancel(k)

Spec == Init /\ [][Next]_db
==============================================================================
