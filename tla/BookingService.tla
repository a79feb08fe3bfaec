---------------------------- MODULE BookingService ---------------------------
(***************************************************************************)
(* backend/internal/service/booking_service.go with the parts of           *)
(* booking_repo.go and venue_cache.go it calls.  Every HTTP request is a    *)
(* thread with a program counter; each MongoDB call, each cache call and    *)
(* each mutex operation is a step of its own, so threads interleave         *)
(* between any two of them.  A MongoDB call may fail, a write may be        *)
(* applied and still be reported as failed, and the whole process may die   *)
(* and come back between any two steps.                                     *)
(***************************************************************************)
EXTENDS Integers, FiniteSets

CONSTANTS
    Ids,         \* ObjectIDs of the bookings collection
    NoId,        \* "no booking": not an ObjectID
    Tables,      \* the tables of the venue
    Times,       \* instants
    HalfMinute,  \* instants in 30 s: a shorter stay rounds to 0 minutes
    DayStart,    \* start of the operational day that holds all of Times
    MaxNow,      \* bound: the clock stops there
    Requests,    \* concurrent HTTP requests
    Inputs       \* the request bodies that arrive, a subset of Request

VARIABLES
    now,     \* the wall clock
    db,      \* the bookings collection; ABSENT: no such document yet
    mutex,   \* mutex[t]: the request holding tblMu[t], or Free
    pc,      \* where each request is in its handler
    req,     \* the request's body; .table and .id are filled in on the way
    fresh,   \* the request's local copy of the booking
    cache    \* cache[t]: CurrentBooking of table t; AVAILABLE iff id = NoId

vars == <<now, db, mutex, pc, req, fresh, cache>>

CONSTANT Free    \* no request holds the mutex

ASSUME TimesAssumption == Times \subseteq Nat /\ 0..MaxNow \subseteq Times
ASSUME MaxNowAssumption == MaxNow \in Nat
ASSUME HalfMinuteAssumption == HalfMinute \in Nat \ {0}
ASSUME NoIdAssumption == NoId \notin Ids
ASSUME FreeAssumption == Free \notin Requests
ASSUME TablesAssumption == Tables # {}

Booking == [table : Tables, in : Times, out : Times, paid : BOOLEAN,
            status : {"ABSENT", "ACTIVE", "CANCELLED"}]

\* CreateBookingInput, UpdateBookingInput and the id of a cancellation.  An
\* update gives only the fields in .sets (in the code: "" or nil = not given).
Request == [op : {"create", "update", "cancel"}, id : Ids \cup {NoId},
            table : Tables, in : Times, out : Times, paid : BOOLEAN,
            staff : BOOLEAN, sets : SUBSET {"in", "out", "paid"}]

ASSUME InputsAssumption ==
    /\ Inputs \subseteq Request
    /\ \A q \in Inputs : q.op # "create" => q.id \in Ids

Blank == CHOOSE b \in Booking : b.status = "ABSENT"
NoRequest == CHOOSE q \in Request : q.op = "create" /\ q.id = NoId
Available == [id |-> NoId, out |-> 0]
Entry == [id : Ids \cup {NoId}, out : Times]

Labels == {"idle", "fetch", "lock", "refetch", "check", "write", "sync",
           "deactivate", "finish"}

TypeOK ==
    /\ now \in 0..MaxNow
    /\ db \in [Ids -> Booking]
    /\ mutex \in [Tables -> Requests \cup {Free}]
    /\ pc \in [Requests -> Labels]
    /\ req \in [Requests -> Request]
    /\ fresh \in [Requests -> Booking]
    /\ cache \in [Tables -> Entry]

------------------------------------------------------------------------------
(* The repository's queries. *)

Overlaps(b, i, o) == b.in < o /\ b.out > i

HasOverlap(t, i, o, exclude) ==
    \E k \in Ids : /\ k # exclude
                   /\ db[k].status = "ACTIVE"
                   /\ db[k].table = t
                   /\ Overlaps(db[k], i, o)

\* Mutant: the check-in filter of the query is missing.
CoversUntilOut(b, n) == b.out > n

Covers(b, n) == b.in <= n /\ b.out > n

\* FindCurrentForTable and FindAllActiveNow: the bookings they may return.
Current(t, n) ==
    {k \in Ids : db[k].status = "ACTIVE" /\ db[k].table = t /\ Covers(db[k], n)}

Shown(k, b) == [id |-> k, out |-> b.out]

\* hydrateCache at boot: the tables with an active booking become BUSY.
Hydrated ==
    [t \in Tables |->
        IF Current(t, now) = {} THEN Available
        ELSE LET k == CHOOSE k \in Current(t, now) : TRUE IN Shown(k, db[k])]

Init ==
    /\ now = 0
    /\ db = [k \in Ids |-> Blank]
    /\ mutex = [t \in Tables |-> Free]
    /\ pc = [r \in Requests |-> "idle"]
    /\ req = [r \in Requests |-> NoRequest]
    /\ fresh = [r \in Requests |-> Blank]
    /\ cache = [t \in Tables |-> Available]

------------------------------------------------------------------------------
(* The steps of a request. *)

At(r, label) == pc[r] = label
Goto(r, label) == pc' = [pc EXCEPT ![r] = label]

\* A handler returns: its locals are gone.
Forget(r) ==
    /\ Goto(r, "idle")
    /\ req' = [req EXCEPT ![r] = NoRequest]
    /\ fresh' = [fresh EXCEPT ![r] = Blank]

Unlock(r) == mutex' = [mutex EXCEPT ![req[r].table] = Free]

\* Return with the deferred m.Unlock().
Return(r) == Forget(r) /\ Unlock(r)

InSection(r) == pc[r] \in {"refetch", "check", "write", "sync", "deactivate",
                           "finish"}

\* Bound: a creation is submitted only while an unused identifier is left.
Creating == {r \in Requests : pc[r] # "idle" /\ req[r].op = "create"}
Unused == {k \in Ids : db[k].status = "ABSENT"}

Submit(r) ==
    /\ At(r, "idle")
    /\ \E q \in Inputs :
        /\ q.op = "create" => Cardinality(Creating) < Cardinality(Unused)
        /\ req' = [req EXCEPT ![r] = q]
        /\ Goto(r, IF q.op = "create" THEN "lock" ELSE "fetch")
    /\ UNCHANGED <<now, db, mutex, fresh, cache>>

\* The pre-fetch that discovers the table, outside the mutex.
Fetch(r) ==
    /\ At(r, "fetch")
    /\ IF db[req[r].id].status = "ACTIVE"
       THEN /\ req' = [req EXCEPT ![r].table = db[req[r].id].table]
            /\ Goto(r, "lock")
            /\ UNCHANGED fresh
       ELSE Forget(r)                                                 \* 404
    /\ UNCHANGED <<now, db, mutex, cache>>

\* Mutant: the lock does not exclude (tblMu looked up per request, or RLock).
LockShared(r) ==
    /\ At(r, "lock")
    /\ mutex' = [mutex EXCEPT ![req[r].table] = r]
    /\ Goto(r, IF req[r].op = "create" THEN "check" ELSE "refetch")
    /\ UNCHANGED <<now, db, req, fresh, cache>>

Lock(r) ==
    /\ At(r, "lock")
    /\ mutex[req[r].table] = Free
    /\ mutex' = [mutex EXCEPT ![req[r].table] = r]
    /\ Goto(r, IF req[r].op = "create" THEN "check" ELSE "refetch")
    /\ UNCHANGED <<now, db, req, fresh, cache>>

\* Mutant: the query under the mutex has lost its status filter.
RefetchAny(r) ==
    /\ At(r, "refetch")
    /\ fresh' = [fresh EXCEPT ![r] = db[req[r].id]]
    /\ Goto(r, IF req[r].op = "update" THEN "check" ELSE "write")
    /\ UNCHANGED <<now, db, mutex, req, cache>>

\* Mutant: an early return that forgets the unlock.
RefetchLeaks(r) ==
    /\ At(r, "refetch")
    /\ LET b == db[req[r].id] IN
        IF b.status = "ACTIVE"
        THEN /\ fresh' = [fresh EXCEPT ![r] = b]
             /\ Goto(r, IF req[r].op = "update" THEN "check" ELSE "write")
             /\ UNCHANGED <<req, mutex>>
        ELSE Forget(r) /\ UNCHANGED mutex
    /\ UNCHANGED <<now, db, cache>>

Refetch(r) ==
    /\ At(r, "refetch")
    /\ LET b == db[req[r].id] IN
        IF b.status = "ACTIVE"
        THEN /\ fresh' = [fresh EXCEPT ![r] = b]
             /\ Goto(r, IF req[r].op = "update" THEN "check" ELSE "write")
             /\ UNCHANGED <<req, mutex>>
        ELSE Return(r)                                                \* 404
    /\ UNCHANGED <<now, db, cache>>

\* The local copy after the request's fields are assigned to it.
Given(r, f) == req[r].op = "create" \/ f \in req[r].sets
\* Mutant: a field that was not given is the zero time, not the stored one.
NewInOrZero(r) == IF Given(r, "in") THEN req[r].in ELSE -1

NewIn(r) == IF Given(r, "in") THEN req[r].in ELSE fresh[r].in
NewOut(r) == IF Given(r, "out") THEN req[r].out ELSE fresh[r].out

Saved(r) ==
    IF req[r].op = "cancel"
    THEN [fresh[r] EXCEPT !.status = "CANCELLED"]
    ELSE [table |-> req[r].table, in |-> NewIn(r), out |-> NewOut(r),
          paid |-> IF Given(r, "paid") THEN req[r].paid ELSE fresh[r].paid,
          status |-> "ACTIVE"]

\* parseTimes: the rounded duration is positive.  Staff may not book a stay
\* that began before the operational day.
MayCreate(r) ==
    /\ req[r].out - req[r].in >= HalfMinute
    /\ ~(req[r].in < now /\ req[r].staff /\ req[r].in < DayStart)
    /\ ~HasOverlap(req[r].table, req[r].in, req[r].out, NoId)

\* Mutant: the times are checked only when the request gives both.
MayUpdateBoth(r) ==
    {"in", "out"} \subseteq req[r].sets =>
        /\ NewIn(r) < NewOut(r)
        /\ ~HasOverlap(req[r].table, NewIn(r), NewOut(r), req[r].id)

\* The times are checked only when the request gives one of them.
MayUpdate(r) ==
    req[r].sets \cap {"in", "out"} # {} =>
        /\ NewIn(r) < NewOut(r)
        /\ ~HasOverlap(req[r].table, NewIn(r), NewOut(r), req[r].id)

\* Mutant: the mutex is released between the check and the write.
CheckUnlocks(r) ==
    /\ At(r, "check")
    /\ IF IF req[r].op = "create" THEN MayCreate(r) ELSE MayUpdate(r)
       THEN Goto(r, "write") /\ Unlock(r) /\ UNCHANGED <<req, fresh>>
       ELSE Return(r)
    /\ UNCHANGED <<now, db, cache>>

Check(r) ==
    /\ At(r, "check")
    /\ IF IF req[r].op = "create" THEN MayCreate(r) ELSE MayUpdate(r)
       THEN Goto(r, "write") /\ UNCHANGED <<req, fresh, mutex>>
       ELSE Return(r)                                          \* 400 or 409
    /\ UNCHANGED <<now, db, cache>>

\* Create inserts under a new ObjectID, Save replaces the whole document.
Target(r) ==
    IF req[r].op = "create" THEN Unused ELSE {req[r].id}

Write(r) ==
    /\ At(r, "write")
    /\ \E k \in Target(r) :
        /\ db' = [db EXCEPT ![k] = Saved(r)]
        /\ req' = [req EXCEPT ![r].id = k]
    /\ fresh' = [fresh EXCEPT ![r] = Saved(r)]
    /\ Goto(r, "sync")
    /\ UNCHANGED <<now, mutex, cache>>

\* Sync the cache if the booking is running; cancel only looks, then acts.
Sync(r) ==
    /\ At(r, "sync")
    /\ LET t == req[r].table
           k == req[r].id
           running == Covers(fresh[r], now)
           shows == \/ req[r].op = "create"
                    \/ req[r].op = "update" /\ cache[t].id # NoId
       IN  /\ IF running /\ shows
              THEN cache' = [cache EXCEPT ![t] = Shown(k, fresh[r])]
              ELSE UNCHANGED cache
           /\ Goto(r, IF running /\ req[r].op = "cancel" /\ cache[t].id = k
                      THEN "deactivate" ELSE "finish")
    /\ UNCHANGED <<now, db, mutex, req, fresh>>

Deactivate(r) ==
    /\ At(r, "deactivate")
    /\ cache' = [cache EXCEPT ![req[r].table] = Available]
    /\ Goto(r, "finish")
    /\ UNCHANGED <<now, db, mutex, req, fresh>>

\* emitTimelineUpdate (a read and a non-blocking send), then the unlock.
Finish(r) ==
    /\ At(r, "finish")
    /\ Return(r)
    /\ UNCHANGED <<now, db, cache>>

\* A MongoDB call returns an error and the handler returns it.
Fail(r) ==
    /\ pc[r] \in {"fetch", "refetch", "check", "write"}
    /\ Forget(r)
    /\ IF InSection(r) THEN Unlock(r) ELSE UNCHANGED mutex
    /\ UNCHANGED <<now, db, cache>>

\* The write reached MongoDB but its answer did not: the handler returns.
WriteUnanswered(r) ==
    /\ At(r, "write")
    /\ \E k \in Target(r) : db' = [db EXCEPT ![k] = Saved(r)]
    /\ Return(r)
    /\ UNCHANGED <<now, cache>>

Proceed(r) ==
    Fetch(r) \/ Refetch(r) \/ Check(r) \/ Write(r) \/ Sync(r)
        \/ Deactivate(r) \/ Finish(r)

Handle(r) ==
    Submit(r) \/ Lock(r) \/ Proceed(r) \/ Fail(r) \/ WriteUnanswered(r)

------------------------------------------------------------------------------

Tick ==
    /\ now < MaxNow
    /\ now' = now + 1
    /\ UNCHANGED <<db, mutex, pc, req, fresh, cache>>

\* The process dies and boots again: every request, mutex and cache entry is
\* lost, the database is not.  Hydration is skipped when its query fails.
Restart ==
    /\ mutex' = [t \in Tables |-> Free]
    /\ pc' = [r \in Requests |-> "idle"]
    /\ req' = [r \in Requests |-> NoRequest]
    /\ fresh' = [r \in Requests |-> Blank]
    /\ cache' \in {Hydrated, [t \in Tables |-> Available]}
    /\ UNCHANGED <<now, db>>

Next == Tick \/ Restart \/ \E r \in Requests : Handle(r)

\* A handler that can take its next step takes it; sync.Mutex hands the lock
\* over in FIFO order once a waiter has waited 1 ms, hence strong fairness.
Fairness == \A r \in Requests : WF_vars(Proceed(r)) /\ SF_vars(Lock(r))

Spec == Init /\ [][Next]_vars /\ Fairness

------------------------------------------------------------------------------
(* Properties. *)

Live(k) == db[k].status = "ACTIVE"
Disjoint(a, b) == a.out <= b.in \/ b.out <= a.in

\* Two live bookings of one table never intersect, whatever requests run at
\* the same time (the comment on BookingService: no double-booking).
NoDoubleBooking ==
    \A j, k \in Ids :
        j # k /\ Live(j) /\ Live(k) /\ db[j].table = db[k].table =>
            Disjoint(db[j], db[k])

\* What a request has read inside the mutex is still what the database holds
\* when it decides and writes, so Save (which replaces the whole document)
\* loses no other request's fields and revives no cancelled booking.
FreshIsCurrent ==
    \A r \in Requests :
        pc[r] \in {"check", "write"} /\ req[r].op # "create" =>
            fresh[r] = db[req[r].id]

\* A cancelled booking is never written again, by any mixture of requests
\* that fetched it while it was live.
CancelledForever ==
    [][\A k \in Ids : db[k].status = "CANCELLED" => db'[k] = db[k]]_vars

\* Every request that has been submitted is answered: none waits forever for a
\* table's mutex, whichever error path the mutex's holders take.
EveryRequestAnswered ==
    \A r \in Requests : pc[r] # "idle" ~> pc[r] = "idle"

\* The service implements the atomic ledger: each database write is one legal
\* Book, Patch or Cancel at the instant it happens.
Ledger == INSTANCE BookingLedger WITH
              Ids <- Ids, Tables <- Tables, Times <- Times, HalfMinute <- HalfMinute,
              db <- db
ImplementsLedger == Ledger!Spec
==============================================================================
