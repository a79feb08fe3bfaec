---------------------------- MODULE OperationalDay ---------------------------
(***************************************************************************)
(* The venue's operational day: backend/pkg/timeutil/time.go, the timeline  *)
(* of today and the staff rule of booking_service.go, and the venue config  *)
(* they read.  An instant is a number of minutes of UTC; a date is the      *)
(* number of a calendar day, in whichever zone it is taken.                 *)
(***************************************************************************)
EXTENDS Integers, FiniteSets

CONSTANTS
    Offset,     \* minutes the venue's zone is ahead of UTC (Asia/Colombo: 330)
    Starts,     \* values of venueStartTime, in minutes of the day
    Closes,     \* values of venueCloseTime
    Step,       \* minutes between two instants of the clock
    MaxNow,     \* bound: the clock stops there
    Stays,      \* the stays that are asked for; .staff: by a member of the staff
    MaxStays,   \* bound: live bookings
    MaxDelay,   \* bound: minutes that a GetTodayTimeline may take
    ReadsFail   \* whether reading the config may fail

VARIABLES
    now,
    config,     \* the GLOBAL_CONFIG document
    stays,      \* the live bookings of a table
    view        \* a GetTodayTimeline on its way

vars == <<now, config, stays, view>>

Day == 1440

ASSUME DayAssumption ==
    /\ Offset \in Int
    /\ Starts \subseteq 0..(Day - 1)
    /\ Closes \subseteq 0..(Day - 1)
    /\ Step \in Nat \ {0}
    /\ MaxNow \in Nat
    /\ MaxStays \in Nat
    /\ Stays \subseteq [in : Int, out : Int, staff : BOOLEAN]
    /\ MaxDelay \in Nat
    /\ ReadsFail \in BOOLEAN
    /\ 540 \in Starts /\ 0 \in Closes

Config == [start : Starts, close : Closes]

\* Mutant: midnight written 24:00, a time that ParseTime does not know.
DefaultLate == [start |-> 540, close |-> 1440]

\* EnsureDefault: 09:00 and 00:00.  What is used when the config cannot be
\* read: 09:00 and 06:00.
Default == [start |-> 540, close |-> 0]
Fallback == [start |-> 540, close |-> 360]

------------------------------------------------------------------------------
(* timeutil *)

\* GetOperationalDayBounds(date, start, close).
Bounds(date, cfg) ==
    [start |-> date * Day + cfg.start - Offset,
     end |-> (date + 1) * Day + cfg.close - Offset]

\* Mutant: the date of the venue's calendar, as at any hour of the day.
CalendarDate(n, close) == (n + Offset) \div Day

\* TodayVenueString(close): the date rolls over at the closing time.
Today(n, close) == (n + Offset - close) \div Day

\* now.Format("2006-01-02") of a time in UTC, as CreateBooking takes it.
UtcDate(n) == n \div Day

\* Mutant: only the stays that begin in the day.
BeginsIn(bounds) == {s \in stays : s.in >= bounds.start /\ s.in < bounds.end}

\* FindTimeline.
Timeline(bounds) == {s \in stays : s.in < bounds.end /\ s.out > bounds.start}

------------------------------------------------------------------------------

Idle == [at |-> "idle"]

\* .steady: what has been read of the config is what it is now.
View == [at : {"dated", "shown"}, date : Int, when : 0..MaxNow,
         steady : BOOLEAN, shown : SUBSET Stays]

\* What configRepo.Get may lead to.
Read == IF ReadsFail THEN {config, Fallback} ELSE {config}

DayTypeOK ==
    /\ now \in 0..MaxNow
    /\ config \in Config
    /\ stays \subseteq Stays
    /\ view \in View \cup {Idle}

Init ==
    /\ now = 0
    /\ config = Default
    /\ stays = {}
    /\ view = Idle

Tick ==
    /\ now + Step <= MaxNow
    /\ view # Idle => now + Step <= view.when + MaxDelay
    /\ now' = now + Step
    /\ UNCHANGED <<config, stays, view>>

\* PATCH /api/configs gives one of the times, or both.
UpdateConfig ==
    /\ config' \in Config \ {config}
    /\ view' = IF view.at = "dated" THEN [view EXCEPT !.steady = FALSE] ELSE view
    /\ UNCHANGED <<now, stays>>

\* GetTodayTimeline reads the config for the date of today ...
ReadDate ==
    /\ view = Idle
    /\ \E cfg \in Read :
        view' = [at |-> "dated", date |-> Today(now, cfg.close), when |-> now,
                 steady |-> cfg = config, shown |-> {}]
    /\ UNCHANGED <<now, config, stays>>

\* ... and GetTimeline reads it once more for the day's bounds.
ReadTimeline ==
    /\ view.at = "dated"
    /\ \E cfg \in Read :
        view' = [view EXCEPT !.at = "shown", !.steady = @ /\ cfg = config,
                             !.shown = Timeline(Bounds(view.date, cfg))]
    /\ UNCHANGED <<now, config, stays>>

Respond ==
    /\ view.at = "shown"
    /\ view' = Idle
    /\ UNCHANGED <<now, config, stays>>

\* CreateBooking: the restriction of the staff, then the overlap check.
PastDay(i, cfg) == i < now /\ i < Bounds(UtcDate(now), cfg).start

CreateBooking ==
    /\ Cardinality(stays) < MaxStays
    /\ \E s \in Stays, cfg \in Read :
        /\ ~(s.staff /\ PastDay(s.in, cfg))
        /\ \A x \in stays : x.out <= s.in \/ s.out <= x.in
        /\ stays' = stays \cup {s}
    /\ UNCHANGED <<now, config, view>>

\* To the timeline, an update that moves a stay is this and a creation.
CancelBooking ==
    /\ \E s \in stays : stays' = stays \ {s}
    /\ UNCHANGED <<now, config, view>>

Next ==
    \/ Tick
    \/ UpdateConfig
    \/ ReadDate
    \/ ReadTimeline
    \/ Respond
    \/ CreateBooking
    \/ CancelBooking

Spec == Init /\ [][Next]_vars

------------------------------------------------------------------------------
(* Properties. *)

\* The venue is open at instant n: the day "spans midnight", from its start to
\* the closing time of the next morning.
Open(n, cfg) ==
    LET minute == (n + Offset) % Day IN minute >= cfg.start \/ minute < cfg.close

Within(n, bounds) == n >= bounds.start /\ n < bounds.end

\* TodayVenueString and GetOperationalDayBounds fit together: whenever the
\* venue is open, the day that is called today is the one day that holds this
\* instant, also after midnight, and whatever times the admin configures.
TodayIsTheOneDay ==
    config.close <= config.start /\ Open(now, config) =>
        \A date \in (UtcDate(now) - 2)..(UtcDate(now) + 2) :
            Within(now, Bounds(date, config)) <=> date = Today(now, config.close)

\* The timeline of today shows every stay that is running, also one that began
\* before midnight or goes on after closing, although the date and the bounds
\* come from two reads of the config and time passes between them.
RunningIsOnTimeline ==
    [][(/\ view.at = "dated" /\ view'.at = "shown" /\ view'.steady
        /\ Open(view.when, config) /\ config.close <= config.start)
            => \A s \in stays :
                  s.in <= view.when /\ view.when < s.out => s \in view'.shown]_vars

\* "Staff cannot create bookings in the past outside the current operational
\* day" (CreateBooking): a stay they enter late began in the day of today.
StaffKeepToToday ==
    [][\A s \in stays' \ stays :
          s.staff /\ s.in < now =>
              s.in >= Bounds(Today(now, config.close), config).start]_vars
==============================================================================
