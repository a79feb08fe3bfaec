----------------------------- MODULE VenueWatch ------------------------------
(***************************************************************************)
(* VenueScheduler with a history of the check-in times of every booking,    *)
(* and what that history is for: a table is not lit before its stay.        *)
(***************************************************************************)
EXTENDS VenueScheduler

VARIABLE ins     \* ins[k]: every check-in time that booking k has had

Recorded == [k \in Ids |-> IF db[k].status = "ABSENT" THEN {} ELSE {db[k].in}]

WatchInit == VenueInit /\ ins = Recorded
WatchNext == VenueNext /\ ins' = [k \in Ids |-> ins[k] \cup Recorded'[k]]

watchVars == <<venueVars, ins>>

WatchSpec == WatchInit /\ [][WatchNext]_watchVars /\ VenueFairness

\* No table is lit for a booking before one of the check-in times it has had,
\* by whichever of the writers of the cache: hydration, a creation, an
\* update, a timer, or the reconcile loop with its one time for all tables.
NotBeforeCheckIn ==
    \A t \in Tables :
        cache[t].id # NoId => \E i \in ins[cache[t].id] : i <= now
==============================================================================
