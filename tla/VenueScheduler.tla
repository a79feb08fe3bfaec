---------------------------- MODULE VenueScheduler ---------------------------
(***************************************************************************)
(* BookingService composed with backend/internal/scheduler/scheduler.go.    *)
(* The scheduler writes the same cache as the booking service but does not  *)
(* take the tables' mutexes, so its steps interleave with every request.    *)
(*                                                                         *)
(* A worker is a goroutine of the scheduler: Main runs InitAll at boot and  *)
(* then the reconcile loop; an element of Callbacks runs the callback of a  *)
(* timer that has fired.  Each query, each cache call and each operation on *)
(* the timer map is a step of its own.                                      *)
(***************************************************************************)
EXTENDS BookingService

CONSTANTS
    Callbacks,    \* bound: timer callbacks that run at the same time
    Main,         \* the goroutine of InitAll and of the reconcile loop
    InitialDbs,   \* what the bookings collection may hold at the first boot
    QueriesFail   \* whether the scheduler's queries may fail

VARIABLES
    timers,    \* timers[t][kind]: the timer with that key in s.timers
    armed,     \* armed[t][kind]: the timers that have been started and have neither
               \* been stopped nor fired, also those s.timers does not know
    wk,        \* wk[w]: what worker w is doing, and its locals
    todo,      \* tables that Main has still to visit in this round
    round,     \* the time at which this reconcile round began
    booting    \* InitAll has not returned: the HTTP server is not up

schedVars == <<timers, armed, wk, todo, round, booting>>
venueVars == <<vars, schedVars>>

Workers == Callbacks \cup {Main}
Kinds == {"start", "end"}
AnyTable == CHOOSE t \in Tables : TRUE

ASSUME SchedulerAssumption ==
    /\ Tables \subseteq Int
    /\ Main \notin Callbacks
    /\ QueriesFail \in BOOLEAN

\* The bookings that the first boot finds were made by the booking service.
ASSUME InitialDbsAssumption ==
    \A d \in InitialDbs :
        /\ d \in [Ids -> Booking]
        /\ \A k \in Ids : d[k].status = "ACTIVE" => d[k].in < d[k].out
        /\ \A j, k \in Ids :
             /\ j # k /\ d[j].table = d[k].table
             /\ d[j].status = "ACTIVE" /\ d[k].status = "ACTIVE"
             => Disjoint(d[j], d[k])

\* A timer that fires at .when for booking .id; Unset: the key has no timer.
Timer == [id : Ids \cup {NoId}, when : Times]
Unset == [id |-> NoId, when |-> 0]

\* Labels of the callbacks, of RescheduleTable and setXTimer, of Main.
WorkerLabels ==
    {"off", "find", "decide", "look", "deactivate", "chain"}
        \cup {"clear", "current", "upcoming", "set", "store"}
        \cup {"idle", "loop", "expire", "findActive", "activate"}

\* The locals of a worker; .n is a time.Now() used in a later query.
Worker == [at : WorkerLabels, table : Tables, kind : Kinds,
           id : Ids \cup {NoId}, when : Times, out : Times, n : Times]

Off == [at |-> "off", table |-> AnyTable, kind |-> "start", id |-> NoId,
        when |-> 0, out |-> 0, n |-> 0]

VenueTypeOK ==
    /\ TypeOK
    /\ timers \in [Tables -> [Kinds -> Timer]]
    /\ armed \in [Tables -> [Kinds -> SUBSET Timer]]
    /\ wk \in [Workers -> Worker]
    /\ todo \subseteq Tables
    /\ round \in Times
    /\ booting \in BOOLEAN

------------------------------------------------------------------------------

\* FindNextUpcoming: the earliest live booking that begins after n.
Upcoming(t, n) ==
    LET later == {k \in Ids : /\ db[k].status = "ACTIVE"
                              /\ db[k].table = t
                              /\ db[k].in > n}
    IN  {k \in later : \A j \in later : db[k].in <= db[j].in}

Booted == [w \in Workers |-> IF w = Main THEN [Off EXCEPT !.at = "loop"] ELSE Off]
NoTimers == [t \in Tables |-> [kind \in Kinds |-> Unset]]
NoneArmed == [t \in Tables |-> [kind \in Kinds |-> {}]]

VenueInit ==
    /\ now = 0
    /\ db \in InitialDbs
    /\ mutex = [t \in Tables |-> Free]
    /\ pc = [r \in Requests |-> "idle"]
    /\ req = [r \in Requests |-> NoRequest]
    /\ fresh = [r \in Requests |-> Blank]
    /\ cache = Hydrated
    /\ timers = NoTimers /\ armed = NoneArmed
    /\ wk = Booted
    /\ todo = Tables
    /\ round = 0
    /\ booting = TRUE

------------------------------------------------------------------------------
(* Steps of a worker. *)

WorkerAt(w, label) == wk[w].at = label
Become(w, v) == wk' = [wk EXCEPT ![w] = v]
Move(w, label) == Become(w, [wk[w] EXCEPT !.at = label])

\* The worker calls RescheduleTable.
Reschedule(w) == Become(w, [Off EXCEPT !.at = "clear", !.table = wk[w].table])

\* The callback returns; RescheduleTable returns to Main's loop over tables.
Done(w) == IF w = Main THEN [Off EXCEPT !.at = "loop"] ELSE Off

\* time.AfterFunc starts the callback at the deadline or later; the callback
\* first deletes the timer's key, whichever timer has it by then.  Free goroutines
\* are all one.
FreeWorker == CHOOSE w \in Callbacks : WorkerAt(w, "off")

Fire(w) ==
    /\ WorkerAt(w, "off")
    /\ w = FreeWorker
    /\ \E t \in Tables, kind \in Kinds : \E timer \in armed[t][kind] :
        /\ timer.when <= now
        /\ armed' = [armed EXCEPT ![t][kind] = @ \ {timer}]
        /\ timers' = [timers EXCEPT ![t][kind] = Unset]
        /\ Become(w, [Off EXCEPT !.at = IF kind = "start" THEN "find" ELSE "look",
                                 !.table = t, !.id = timer.id])
    /\ UNCHANGED cache

(* handleStartFired *)

FindBooking(w) ==
    /\ WorkerAt(w, "find")
    /\ LET b == db[wk[w].id] IN
        IF b.status = "ACTIVE"
        THEN Become(w, [wk[w] EXCEPT !.at = "decide", !.when = b.in, !.out = b.out])
        ELSE Reschedule(w)
    /\ UNCHANGED <<cache, timers, armed>>

Decide(w) ==
    /\ WorkerAt(w, "decide")
    /\ IF wk[w].when <= now /\ wk[w].out > now
       THEN /\ cache' = [cache EXCEPT ![wk[w].table] =
                            [id |-> wk[w].id, out |-> wk[w].out]]
            /\ Become(w, [wk[w] EXCEPT !.at = "set", !.kind = "end",
                                       !.when = wk[w].out, !.out = 0])
       ELSE Reschedule(w) /\ UNCHANGED cache
    /\ UNCHANGED <<timers, armed>>

(* handleEndFired *)

Look(w) ==
    /\ WorkerAt(w, "look")
    /\ Move(w, IF cache[wk[w].table].id = wk[w].id THEN "deactivate" ELSE "chain")
    /\ UNCHANGED <<cache, timers, armed>>

TimerDeactivates(w) ==
    /\ WorkerAt(w, "deactivate")
    /\ cache' = [cache EXCEPT ![wk[w].table] = Available]
    /\ Move(w, "chain")
    /\ UNCHANGED <<timers, armed>>

(* RescheduleTable, and the chaining query of handleEndFired *)

\* The timers of the table that s.timers knows are stopped.
ClearTable(w) ==
    /\ WorkerAt(w, "clear")
    /\ timers' = [timers EXCEPT ![wk[w].table] = [kind \in Kinds |-> Unset]]
    /\ armed' = [armed EXCEPT ![wk[w].table] =
                    [kind \in Kinds |-> @[kind] \ {timers[wk[w].table][kind]}]]
    /\ Become(w, [Off EXCEPT !.at = "current", !.table = wk[w].table])
    /\ UNCHANGED cache

Setting(w, kind, k, when) ==
    [Off EXCEPT !.at = "set", !.table = wk[w].table, !.kind = kind, !.id = k,
                !.when = when]

FindActive(w) ==
    /\ WorkerAt(w, "current")
    /\ LET active == Current(wk[w].table, now) IN
        \/ \E k \in active : Become(w, Setting(w, "end", k, db[k].out))
        \/ /\ active = {}
           /\ Become(w, [wk[w] EXCEPT !.at = "upcoming", !.n = now])
    /\ UNCHANGED <<cache, timers, armed>>

FindUpcoming(w) ==
    /\ wk[w].at \in {"upcoming", "chain"}
    /\ LET n == IF wk[w].at = "chain" THEN now ELSE wk[w].n
           next == Upcoming(wk[w].table, n)
       IN  \/ \E k \in next : Become(w, Setting(w, "start", k, db[k].in))
           \/ next = {} /\ Become(w, Done(w))
    /\ UNCHANGED <<cache, timers, armed>>

\* setStartTimer and setEndTimer stop the timer of their key and start another
\* one.  (Two alike that are armed are one.)
SetTimer(w) ==
    /\ WorkerAt(w, "set")
    /\ LET t == wk[w].table
           kind == wk[w].kind
       IN  /\ armed' = [armed EXCEPT ![t][kind] =
                           (@ \ {timers[t][kind]}) \cup {[id |-> wk[w].id, when |-> wk[w].when]}]
           /\ timers' = [timers EXCEPT ![t][kind] = Unset]
    /\ Move(w, "store")
    /\ UNCHANGED cache

\* The key is given the timer, which may have fired by now (that is as if it had
\* none), and is taken from any timer that another goroutine has stored.
StoreTimer(w) ==
    /\ WorkerAt(w, "store")
    /\ LET timer == [id |-> wk[w].id, when |-> wk[w].when] IN
        timers' = [timers EXCEPT ![wk[w].table][wk[w].kind] =
                      IF timer \in armed[wk[w].table][wk[w].kind] THEN timer ELSE Unset]
    /\ Become(w, Done(w))
    /\ UNCHANGED <<cache, armed>>

\* A MongoDB query returns an error: it is logged and the worker gives up.
GiveUp(w) ==
    /\ QueriesFail
    /\ wk[w].at \in {"find", "current", "upcoming", "chain", "findActive"}
    /\ Become(w, Done(w))
    /\ UNCHANGED <<cache, timers, armed>>

WorkerStep(w) ==
    FindBooking(w) \/ Decide(w) \/ Look(w) \/ TimerDeactivates(w)
        \/ ClearTable(w) \/ FindActive(w) \/ FindUpcoming(w)
        \/ SetTimer(w) \/ StoreTimer(w)

------------------------------------------------------------------------------
(* Main: InitAll and the reconcile loop. *)

\* The ticker fires: a new round, with one time.Now() for all its tables.
StartRound ==
    /\ WorkerAt(Main, "idle")
    /\ Move(Main, "loop")
    /\ todo' = Tables
    /\ round' = now
    /\ UNCHANGED <<cache, timers, armed, booting>>

\* Mutants: the round skips the BUSY tables; it skips the AVAILABLE ones.
InspectedAvailable(t) ==
    IF booting THEN "clear"
    ELSE IF cache[t].id = NoId THEN "findActive" ELSE "loop"

InspectedBusy(t) ==
    IF booting THEN "clear"
    ELSE IF cache[t].id # NoId /\ cache[t].out <= round THEN "expire" ELSE "loop"

\* At boot each table is rescheduled.  Later each is looked at with GetTable:
\* BUSY and over, BUSY and running, or AVAILABLE.
Inspected(t) ==
    LET shown == cache[t] IN
        IF booting THEN "clear"
        ELSE IF shown.id = NoId THEN "findActive"
        ELSE IF shown.out <= round THEN "expire"
        ELSE "loop"

NextTable ==
    /\ WorkerAt(Main, "loop")
    /\ \E t \in todo :
        /\ \A u \in todo : t <= u
        /\ todo' = todo \ {t}
        /\ Become(Main, [Off EXCEPT !.table = t, !.at = Inspected(t)])
    /\ UNCHANGED <<cache, timers, armed, round, booting>>

EndRound ==
    /\ WorkerAt(Main, "loop")
    /\ todo = {}
    /\ booting' = FALSE
    /\ round' = 0
    /\ Become(Main, [Off EXCEPT !.at = "idle"])
    /\ UNCHANGED <<cache, timers, armed, todo>>

Expire ==
    /\ WorkerAt(Main, "expire")
    /\ cache' = [cache EXCEPT ![wk[Main].table] = Available]
    /\ Reschedule(Main)
    /\ UNCHANGED <<timers, armed, todo, round, booting>>

ReconcileFind ==
    /\ WorkerAt(Main, "findActive")
    /\ LET active == Current(wk[Main].table, round) IN
        \/ \E k \in active :
              Become(Main, [Off EXCEPT !.at = "activate", !.id = k,
                              !.table = wk[Main].table, !.out = db[k].out])
        \/ active = {} /\ Become(Main, Done(Main))
    /\ UNCHANGED <<cache, timers, armed, todo, round, booting>>

ReconcileActivates ==
    /\ WorkerAt(Main, "activate")
    /\ cache' = [cache EXCEPT ![wk[Main].table] =
                    [id |-> wk[Main].id, out |-> wk[Main].out]]
    /\ Reschedule(Main)
    /\ UNCHANGED <<timers, armed, todo, round, booting>>

Reconcile ==
    StartRound \/ NextTable \/ EndRound \/ Expire \/ ReconcileFind
        \/ ReconcileActivates

------------------------------------------------------------------------------

\* Everything but the database is lost; hydration and InitAll follow.
VenueRestart ==
    /\ Restart
    /\ timers' = NoTimers /\ armed' = NoneArmed
    /\ wk' = Booted
    /\ todo' = Tables
    /\ round' = 0
    /\ booting' = TRUE

\* Requests arrive once the HTTP server is up.
RequestStep(r) ==
    /\ Handle(r)
    /\ booting => ~At(r, "idle")
    /\ UNCHANGED schedVars

ServiceIdle == UNCHANGED <<now, db, mutex, pc, req, fresh>>

CallbackStep(w) ==
    /\ WorkerStep(w) \/ Fire(w)
    /\ ServiceIdle
    /\ UNCHANGED <<todo, round, booting>>

GiveUpStep(w) ==
    /\ GiveUp(w)
    /\ ServiceIdle
    /\ UNCHANGED <<todo, round, booting>>

ReconcileStep == Reconcile /\ ServiceIdle

ClockStep == Tick /\ UNCHANGED schedVars

VenueNext ==
    \/ ClockStep
    \/ VenueRestart
    \/ \E r \in Requests : RequestStep(r)
    \/ \E w \in Workers : CallbackStep(w) \/ GiveUpStep(w)
    \/ ReconcileStep

\* Goroutines are scheduled, the ticker ticks and time passes; a query that is
\* tried in round after round is answered in one of them, and the process does
\* not crash over and over for ever.
VenueFairness ==
    /\ <>[][~VenueRestart]_venueVars
    /\ WF_venueVars(ClockStep)
    /\ WF_venueVars(ReconcileStep)
    /\ SF_venueVars(ReconcileFind /\ ReconcileStep)
    /\ \A w \in Workers : WF_venueVars(CallbackStep(w))

VenueSpec == VenueInit /\ [][VenueNext]_venueVars /\ VenueFairness

------------------------------------------------------------------------------
(* Properties. *)

\* A table never goes on showing a booking that is over: whichever timer was
\* lost, stopped or never set, the reconcile loop makes the table AVAILABLE or
\* hands it to a booking that is not over.
ExpiredIsCleared ==
    \A t \in Tables :
        (cache[t].id # NoId /\ cache[t].out <= now)
            ~> (cache[t].id = NoId \/ cache[t].out > now)

\* A table with a booking that is running does not stay AVAILABLE, whichever
\* race between requests, timers and restarts made it AVAILABLE.
ActiveIsShown ==
    \A t \in Tables :
        (cache[t].id = NoId /\ Current(t, now) # {})
            ~> (cache[t].id # NoId \/ Current(t, now) = {})

\* The end timer "fires at the exact checkOutTime" of the booking (scheduler.go,
\* package comment and handleEndFired): it does not fire for a booking that,
\* by what the database says, is still running.
EndsAtCheckOut ==
    [][\A w \in Callbacks :
          wk[w].at = "off" /\ wk'[w].at = "look"
                => wk'[w].id \notin Current(wk'[w].table, now)]_venueVars
==============================================================================
