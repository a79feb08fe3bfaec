------------------------- MODULE OperationalDayProofs ------------------------
(***************************************************************************)
(* What OperationalDay's runs check for one time zone, three closing times  *)
(* and one week-end of the clock, for every zone, every pair of configured  *)
(* times and every instant.                                                 *)
(***************************************************************************)
EXTENDS OperationalDay, TLAPS

\* The date that TodayVenueString computes, by its characteristic inequality.
LEMMA TodayBetween ==
    ASSUME NEW n \in Int, NEW close \in Int
    PROVE  /\ Today(n, close) \in Int
           /\ Today(n, close) * Day <= n + Offset - close
           /\ n + Offset - close < (Today(n, close) + 1) * Day
BY DayAssumption DEF Today, Day

\* It is the only date with that property.
LEMMA TodayUnique ==
    ASSUME NEW n \in Int, NEW close \in Int, NEW date \in Int,
           date * Day <= n + Offset - close,
           n + Offset - close < (date + 1) * Day
    PROVE  date = Today(n, close)
<1> DEFINE k == Today(n, close)
           m == n + Offset - close
<1>1. m \in Int /\ k \in Int
  BY DayAssumption, TodayBetween
<1>2. k * Day <= m /\ m < (k + 1) * Day
  BY TodayBetween
<1>3. date * Day <= m /\ m < (date + 1) * Day
  OBVIOUS
<1> HIDE DEF k, m
<1>4. date = k
  BY <1>1, <1>2, <1>3 DEF Day
<1>5. QED
  BY <1>4 DEF k

\* The arithmetic of it: m is a local time, x its minute of the day q, c and st
\* the closing and the opening time, k the day called today.
LEMMA OpenedToday ==
    ASSUME NEW m \in Int, NEW q \in Int, NEW x \in Int, NEW k \in Int,
           NEW st \in Int, NEW c \in Int,
           0 <= c, c <= st, st < Day,
           m = q * Day + x, 0 <= x, x < Day,
           x >= st \/ x < c,
           k * Day <= m - c, m - c < (k + 1) * Day
    PROVE  k * Day + st <= m
<1>1. CASE x >= st
  <2>1. q = k
    BY <1>1 DEF Day
  <2>2. QED
    BY <1>1, <2>1 DEF Day
<1>2. CASE x < c
  <2>1. q = k + 1
    BY <1>2 DEF Day
  <2>2. QED
    BY <2>1 DEF Day
<1>3. QED
  BY <1>1, <1>2

\* The configured times, as numbers.
LEMMA ConfigTimes ==
    ASSUME NEW cfg \in Config
    PROVE  /\ cfg.start \in Int /\ 0 <= cfg.start /\ cfg.start < Day
           /\ cfg.close \in Int /\ 0 <= cfg.close /\ cfg.close < Day
<1>1. cfg.start \in Starts /\ cfg.close \in Closes
  BY DEF Config
<1>2. cfg.start \in 0..(Day - 1) /\ cfg.close \in 0..(Day - 1)
  BY <1>1, DayAssumption
<1>3. Day - 1 \in Int /\ \A v \in 0..(Day - 1) : v \in Int /\ 0 <= v /\ v < Day
  BY DEF Day
<1>4. QED
  BY <1>2, <1>3

\* While the venue is open, the day called today holds the instant.
LEMMA TodayHolds ==
    ASSUME NEW n \in Int, NEW cfg \in Config,
           cfg.close <= cfg.start, Open(n, cfg)
    PROVE  Within(n, Bounds(Today(n, cfg.close), cfg))
<1> DEFINE m == n + Offset
           k == Today(n, cfg.close)
           q == m \div Day
           x == m % Day
           st == cfg.start
           c == cfg.close
<1>1. /\ st \in Int /\ c \in Int /\ 0 <= c /\ c <= st /\ st < Day
  BY ConfigTimes
<1>2. m \in Int /\ Offset \in Int
  BY DayAssumption
<1>3. k \in Int /\ k * Day <= m - c /\ m - c < (k + 1) * Day
  <2>1. cfg.close \in Int
    BY <1>1
  <2>2. /\ Today(n, cfg.close) \in Int
        /\ Today(n, cfg.close) * Day <= n + Offset - cfg.close
        /\ n + Offset - cfg.close < (Today(n, cfg.close) + 1) * Day
    BY <2>1, TodayBetween
  <2>3. QED
    BY <1>1, <1>2, <2>2 DEF Day
<1>4. x >= st \/ x < c
  BY DEF Open
<1>5. /\ q \in Int /\ x \in Int /\ m = q * Day + x
      /\ 0 <= x /\ x < Day
  <2> HIDE DEF m
  <2> QED
    BY <1>2 DEF Day
<1>6. k * Day + st <= m
  <2> HIDE DEF m, k, q, x, st, c
  <2> QED
    BY <1>1, <1>2, <1>3, <1>4, <1>5, OpenedToday
<1>7. m < (k + 1) * Day + c
  <2> HIDE DEF m, k, st, c
  <2> QED
    BY <1>1, <1>2, <1>3 DEF Day
<1>8. k * Day + st - Offset <= n /\ n < (k + 1) * Day + c - Offset
  <2> HIDE DEF k, st, c
  <2> QED
    BY <1>1, <1>2, <1>3, <1>6, <1>7 DEF Day
<1>9. QED
  BY <1>8 DEF Within, Bounds

\* ... and no other day does.
LEMMA OnlyToday ==
    ASSUME NEW n \in Int, NEW cfg \in Config, NEW date \in Int,
           cfg.close <= cfg.start, Within(n, Bounds(date, cfg))
    PROVE  date = Today(n, cfg.close)
<1> DEFINE st == cfg.start
           c == cfg.close
<1>1. st \in Int /\ c \in Int /\ 0 <= c /\ c <= st /\ Offset \in Int
  BY ConfigTimes, DayAssumption
<1>2. date * Day + st - Offset <= n /\ n < (date + 1) * Day + c - Offset
  BY DEF Within, Bounds
<1>3. date * Day <= n + Offset - c /\ n + Offset - c < (date + 1) * Day
  <2> HIDE DEF st, c
  <2> QED
    BY <1>1, <1>2 DEF Day
<1>4. QED
  BY <1>1, <1>3, TodayUnique

------------------------------------------------------------------------------

\* What a GetTodayTimeline has computed is right for the config it read, and
\* for the current one as long as it is steady.
ViewInv ==
    view.at = "dated" /\ view.steady => view.date = Today(view.when, config.close)

IInv == DayTypeOK /\ ViewInv

\* The invariant holds at boot.
LEMMA InitIInv == Init => IInv
<1> SUFFICES ASSUME Init PROVE IInv
  OBVIOUS
<1>1. config \in Config
  BY DayAssumption DEF Init, Default, Config
<1>2. now \in 0..MaxNow
  BY DayAssumption DEF Init
<1>3. view = Idle /\ view.at # "dated"
  BY DEF Init, Idle
<1>4. QED
  BY <1>1, <1>2, <1>3 DEF Init, IInv, DayTypeOK, ViewInv

\* Every step keeps it.
LEMMA StepIInv == IInv /\ [Next]_vars => IInv'
<1> SUFFICES ASSUME IInv, [Next]_vars PROVE IInv'
  OBVIOUS
<1> USE DEF IInv, DayTypeOK, ViewInv
<1>1. CASE Tick
  <2>1. now' = now + Step /\ now' <= MaxNow
    BY <1>1 DEF Tick
  <2>2. now' \in 0..MaxNow
    BY <2>1, DayAssumption
  <2>3. QED
    BY <1>1, <2>2 DEF Tick
<1>2. CASE UpdateConfig
  <2>1. config' \in Config
    BY <1>2 DEF UpdateConfig
  <2>2. CASE view.at = "dated"
    <3>1. view \in View /\ view' = [view EXCEPT !.steady = FALSE]
      BY <1>2, <2>2 DEF UpdateConfig, Idle
    <3>2. view' \in View /\ ~view'.steady
      BY <3>1 DEF View
    <3>3. QED
      BY <1>2, <2>1, <3>2 DEF UpdateConfig
  <2>3. CASE view.at # "dated"
    BY <1>2, <2>1, <2>3 DEF UpdateConfig
  <2>4. QED
    BY <2>2, <2>3
<1>3. CASE ReadDate
  <2>1. PICK cfg \in Read :
          view' = [at |-> "dated", date |-> Today(now, cfg.close), when |-> now,
                   steady |-> cfg = config, shown |-> {}]
    BY <1>3 DEF ReadDate
  <2>2. now \in Int /\ cfg.close \in Int
    <3>1. cfg = config \/ cfg = Fallback
      BY DEF Read
    <3>2. now \in Int
      OBVIOUS
    <3>3. QED
      BY <3>1, <3>2, ConfigTimes DEF Fallback
  <2>3. view' \in View
    BY <2>1, <2>2, TodayBetween DEF View
  <2>4. view'.steady => view'.date = Today(view'.when, config.close)
    BY <2>1
  <2>5. QED
    BY <1>3, <2>3, <2>4 DEF ReadDate
<1>4. CASE ReadTimeline
  <2>1. PICK cfg \in Read :
          view' = [view EXCEPT !.at = "shown", !.steady = @ /\ cfg = config,
                               !.shown = Timeline(Bounds(view.date, cfg))]
    BY <1>4 DEF ReadTimeline
  <2>2. view \in View
    BY <1>4 DEF ReadTimeline, Idle
  <2>3. Timeline(Bounds(view.date, cfg)) \subseteq Stays
    BY DEF Timeline
  <2>4. view' \in View /\ view'.at = "shown"
    BY <2>1, <2>2, <2>3 DEF View
  <2>5. QED
    BY <1>4, <2>4 DEF ReadTimeline
<1>5. CASE Respond
  BY <1>5 DEF Respond, Idle
<1>6. CASE CreateBooking
  BY <1>6 DEF CreateBooking
<1>7. CASE CancelBooking
  BY <1>7 DEF CancelBooking
<1>8. CASE UNCHANGED vars
  BY <1>8 DEF vars
<1>9. QED
  BY <1>1, <1>2, <1>3, <1>4, <1>5, <1>6, <1>7, <1>8 DEF Next

\* The inductive invariant.
LEMMA Invariant == Spec => []IInv
BY InitIInv, StepIInv, PTL DEF Spec

------------------------------------------------------------------------------

\* Type correctness of the operational day's state.
THEOREM DayTypes == Spec => []DayTypeOK
<1>1. IInv => DayTypeOK
  BY DEF IInv
<1>2. QED
  BY <1>1, Invariant, PTL

\* TodayVenueString and GetOperationalDayBounds fit together in every zone, for
\* every pair of configured times that spans midnight, and at every instant.
THEOREM OneDay == Spec => []TodayIsTheOneDay
<1>1. IInv => TodayIsTheOneDay
  <2> SUFFICES ASSUME IInv, config.close <= config.start, Open(now, config),
                      NEW date \in (UtcDate(now) - 2)..(UtcDate(now) + 2)
               PROVE  Within(now, Bounds(date, config))
                         <=> date = Today(now, config.close)
    BY DEF TodayIsTheOneDay
  <2>1. now \in Int /\ config \in Config
    BY DEF IInv, DayTypeOK
  <2>2. date \in Int
    BY <2>1 DEF UtcDate, Day
  <2>3. QED
    BY <2>1, <2>2, TodayHolds, OnlyToday
<1>2. QED
  BY <1>1, Invariant, PTL

\* Whatever happens between the two reads of the config and the query, the
\* timeline of today shows every stay that was running when it was asked for.
THEOREM RunningShown == Spec => RunningIsOnTimeline
<1> DEFINE Act == (/\ view.at = "dated" /\ view'.at = "shown" /\ view'.steady
                   /\ Open(view.when, config) /\ config.close <= config.start)
                    => \A s \in stays :
                          s.in <= view.when /\ view.when < s.out => s \in view'.shown
<1>1. IInv /\ [Next]_vars => [Act]_vars
  <2> SUFFICES ASSUME IInv, Next, view.at = "dated", view'.at = "shown", view'.steady,
                      Open(view.when, config), config.close <= config.start,
                      NEW s \in stays, s.in <= view.when, view.when < s.out
               PROVE  s \in view'.shown
    OBVIOUS
  <2>1. view \in View /\ config \in Config /\ s \in Stays
    BY DEF IInv, DayTypeOK, Idle
  <2>2. ReadTimeline
    BY <2>1 DEF Next, Tick, UpdateConfig, ReadDate, Respond, Idle, View,
                CreateBooking, CancelBooking
  <2>3. PICK cfg \in Read :
          view' = [view EXCEPT !.at = "shown", !.steady = @ /\ cfg = config,
                               !.shown = Timeline(Bounds(view.date, cfg))]
    BY <2>2 DEF ReadTimeline
  <2>4. /\ view'.steady = (view.steady /\ cfg = config)
        /\ view'.shown = Timeline(Bounds(view.date, cfg))
    BY <2>1, <2>3 DEF View
  <2>5. view.steady /\ cfg = config
    BY <2>4
  <2>6. view.date = Today(view.when, config.close)
    BY <2>5 DEF IInv, ViewInv
  <2> DEFINE bounds == Bounds(view.date, config)
  <2>7. view.when \in Int
    BY <2>1 DEF View
  <2>8. Within(view.when, bounds)
    BY <2>1, <2>6, <2>7, TodayHolds
  <2>9. /\ bounds.start \in Int /\ bounds.end \in Int
        /\ s.in \in Int /\ s.out \in Int
    <3>1. view.date \in Int /\ Offset \in Int
      BY <2>1, DayAssumption DEF View
    <3>2. s.in \in Int /\ s.out \in Int
      BY <2>1, DayAssumption
    <3>3. QED
      BY <2>1, <3>1, <3>2, ConfigTimes DEF Bounds, Day
  <2>10. s.in < bounds.end /\ s.out > bounds.start
    <3> HIDE DEF bounds
    <3> QED
      BY <2>7, <2>8, <2>9 DEF Within
  <2>11. QED
    BY <2>4, <2>5, <2>10 DEF Timeline
<1>2. QED
  BY <1>1, Invariant, PTL DEF Spec, RunningIsOnTimeline
==============================================================================
