--------------------------- MODULE BookingFormProofs ---------------------------
(***************************************************************************)
(* What the booking page offers and sends, for any unit of time, opening    *)
(* and closing hour, any tables and bookings, and whatever is typed.        *)
(***************************************************************************)
EXTENDS BookingForm, FiniteSetTheorems, TLAPS

(***************************************************************************)
(* Arithmetic.                                                             *)
(***************************************************************************)
LEMMA Multiples ==
    ASSUME NEW a \in Int, NEW b \in Int, NEW p \in Nat, a <= b
    PROVE  a * p <= b * p
  OBVIOUS

\* Equal up to whole days.
Congruent(a, b) == \E k \in Int : a = b + k * Day

LEMMA DayIs == Day \in Nat \ {0} /\ Day = 24 * Hour /\ Hour \in Nat \ {0} /\ Hour < Day
  BY FormAssumption DEF Day

LEMMA CongruentSum ==
    ASSUME NEW a \in Int, NEW b \in Int, NEW c \in Int, Congruent(a, b)
    PROVE  Congruent(a + c, b + c)
<1>1. PICK k \in Int : a = b + k * Day
  BY DEF Congruent
<1>2. k * Day \in Int
  BY DayIs
<1>3. a + c = (b + c) + k * Day
  BY <1>1, <1>2
<1> QED BY <1>3 DEF Congruent

LEMMA CongruentTrans ==
    ASSUME NEW a \in Int, NEW b \in Int, NEW c \in Int, Congruent(a, b), Congruent(b, c)
    PROVE  Congruent(a, c)
<1>1. PICK k \in Int : a = b + k * Day
  BY DEF Congruent
<1>2. PICK l \in Int : b = c + l * Day
  BY DEF Congruent
<1>3. /\ k * Day \in Int /\ l * Day \in Int /\ Day \in Int
      /\ (k + l) * Day = k * Day + l * Day
  BY DayIs
<1>4. a = c + (k + l) * Day
  BY <1>1, <1>2, <1>3
<1>5. k + l \in Int
  OBVIOUS
<1> QED BY <1>4, <1>5 DEF Congruent

LEMMA CongruentSwap ==
    ASSUME NEW a \in Int, NEW b \in Int, Congruent(a, b)
    PROVE  Congruent(b, a)
<1>1. PICK k \in Int : a = b + k * Day
  BY DEF Congruent
<1>2. k * Day \in Int /\ (-k) * Day = -(k * Day) /\ -k \in Int
  BY DayIs
<1>3. b = a + (-k) * Day
  BY <1>1, <1>2
<1> QED BY <1>2, <1>3 DEF Congruent

\* Of the instants of a day, only one has a given time of day.
LEMMA OneInADay ==
    ASSUME NEW s \in Int, NEW a \in Int, NEW b \in Int, Congruent(a, b),
           s <= a, a < s + Day, s <= b, b < s + Day
    PROVE  a = b
<1>1. PICK k \in Int : a = b + k * Day
  BY DEF Congruent
<1>2. Day \in Nat /\ k * Day \in Int /\ -Day < k * Day /\ k * Day < Day
  BY <1>1, DayIs
<1>3. ~(k >= 1)
  <2>1. k >= 1 => 1 * Day <= k * Day
    BY <1>2, Multiples
  <2> QED BY <1>2, <2>1
<1>4. ~(k <= -1)
  <2>1. k <= -1 => k * Day <= (-1) * Day
    BY <1>2, Multiples
  <2>2. (-1) * Day = -Day
    BY <1>2
  <2> QED BY <1>2, <2>1, <2>2
<1>5. k = 0
  BY <1>3, <1>4
<1>6. 0 * Day = 0
  BY <1>2
<1> QED BY <1>1, <1>5, <1>6

LEMMA TimeOfDayIs ==
    ASSUME NEW t \in Int
    PROVE  /\ TimeOfDay(t) \in 0 .. Day - 1 /\ t \div Day \in Int
           /\ t = (t \div Day) * Day + TimeOfDay(t)
           /\ Congruent(t, TimeOfDay(t))
<1>1. Day \in Nat \ {0}
  BY DayIs
<1> DEFINE d == Day
<1>2. d \in Nat \ {0}
  BY <1>1
<1> HIDE DEF d
<1>3. t % d \in 0 .. d - 1 /\ t \div d \in Int /\ t = (t \div d) * d + (t % d)
  BY <1>2
<1>4. (t \div d) * d \in Int
  BY <1>2, <1>3
<1>5. t = (t % d) + (t \div d) * d
  BY <1>2, <1>3, <1>4
<1> QED BY <1>3, <1>5 DEF d, TimeOfDay, Congruent

\* ... and the time of day is the only one that is one.
LEMMA TimeOfDayOnly ==
    ASSUME NEW t \in Int, NEW v \in 0 .. Day - 1, Congruent(t, v)
    PROVE  TimeOfDay(t) = v
<1>1. Day \in Nat
  BY DayIs
<1>2. /\ TimeOfDay(t) \in Int /\ 0 <= TimeOfDay(t) /\ TimeOfDay(t) < 0 + Day
      /\ v \in Int /\ 0 <= v /\ v < 0 + Day
  BY <1>1, TimeOfDayIs
<1>3. Congruent(TimeOfDay(t), v)
  <2>1. Congruent(TimeOfDay(t), t)
    BY <1>2, TimeOfDayIs, CongruentSwap
  <2> QED BY <1>2, <2>1, CongruentTrans
<1> QED BY <1>2, <1>3, OneInADay

\* A time is before the opening hour as the hour of it is.
LEMMA BeforeOpening ==
    ASSUME NEW v \in Int
    PROVE  v \div Hour < OpenHour <=> v < OpenHour * Hour
<1> DEFINE h == Hour
           q == v \div h
<1>1. h \in Nat \ {0} /\ OpenHour \in Int
  BY FormAssumption
<1> HIDE DEF h
<1>2. q \in Int /\ q * h <= v /\ v < (q + 1) * h
  BY <1>1
<1> HIDE DEF q
<1>3. ASSUME q < OpenHour PROVE v < OpenHour * h
  <2>1. (q + 1) * h <= OpenHour * h
    BY <1>1, <1>2, <1>3, Multiples
  <2> QED BY <1>1, <1>2, <2>1
<1>4. ASSUME q >= OpenHour PROVE v >= OpenHour * h
  <2>1. OpenHour * h <= q * h
    BY <1>1, <1>2, <1>4, Multiples
  <2> QED BY <1>1, <1>2, <2>1
<1>5. OpenHour * h \in Int
  BY <1>1
<1> QED BY <1>1, <1>2, <1>3, <1>4, <1>5 DEF q, h

LEMMA OpeningIs == OpenHour * Hour \in Int /\ 0 <= OpenHour * Hour /\ OpenHour * Hour < Day
  BY FormAssumption DEF Day

(***************************************************************************)
(* Times of day, written and read again.                                    *)
(***************************************************************************)

\* A business day begins at its opening hour and lasts a day.
LEMMA StartOfDayIs ==
    ASSUME NEW t \in Int
    PROVE  /\ StartOfDay(t) \in Int /\ StartOfDay(t) <= t /\ t < StartOfDay(t) + Day
           /\ \E k \in Int : StartOfDay(t) = k * Day + OpenHour * Hour
<1> DEFINE q == t \div Day
           r == TimeOfDay(t)
           o == OpenHour * Hour
           late == r \div Hour < OpenHour
<1>1. q \in Int /\ r \in 0 .. Day - 1 /\ t = q * Day + r
  BY TimeOfDayIs
<1>2. o \in Int /\ 0 <= o /\ o < Day /\ Day \in Nat /\ (late <=> r < o)
  BY <1>1, DayIs, OpeningIs, BeforeOpening
<1>3. StartOfDay(t) = q * Day + o - (IF late THEN Day ELSE 0)
  BY DEF StartOfDay
<1> HIDE DEF q, r, o, late
<1>4. q * Day \in Int /\ (q - 1) * Day = q * Day - Day
  BY <1>1, <1>2
<1>5. CASE late
  <2>1. StartOfDay(t) = (q - 1) * Day + o /\ q - 1 \in Int
    BY <1>1, <1>2, <1>3, <1>4, <1>5
  <2>2. \E k \in Int : StartOfDay(t) = k * Day + o
    BY <2>1
  <2>3. StartOfDay(t) = q * Day + o - Day /\ r < o
    BY <1>2, <1>3, <1>5
  <2>4. StartOfDay(t) \in Int /\ StartOfDay(t) <= t /\ t < StartOfDay(t) + Day
    BY <1>1, <1>2, <1>4, <2>3
  <2> QED BY <2>2, <2>4 DEF o
<1>6. CASE ~late
  <2>1. StartOfDay(t) = q * Day + o
    BY <1>1, <1>2, <1>3, <1>4, <1>6
  <2> QED BY <1>1, <1>2, <1>4, <1>6, <2>1 DEF o
<1> QED BY <1>5, <1>6

\* A time of day is read as the instant of the business day that has it.
LEMMA ParseTimeIs ==
    ASSUME NEW base \in Int, NEW v \in 0 .. Day - 1
    PROVE  /\ ParseTime(v, base) \in Int
           /\ StartOfDay(base) <= ParseTime(v, base)
           /\ ParseTime(v, base) < StartOfDay(base) + Day
           /\ Congruent(ParseTime(v, base), v)
<1> DEFINE o == OpenHour * Hour
           s == StartOfDay(base)
           late == v \div Hour < OpenHour
<1>1. PICK k \in Int : s = k * Day + o
  BY StartOfDayIs
<1>2. Day \in Nat /\ v \in Int /\ 0 <= v /\ v < Day
  BY DayIs
<1>3. o \in Int /\ 0 <= o /\ o < Day /\ (late <=> v < o)
  BY <1>2, OpeningIs, BeforeOpening
<1>4. ParseTime(v, base) = s - o + v + (IF late THEN Day ELSE 0)
  BY <1>2 DEF ParseTime, Blank
<1> HIDE DEF o, s, late
<1>5. k * Day \in Int /\ (k + 1) * Day = k * Day + Day /\ k + 1 \in Int
  BY <1>2
<1>6. CASE late
  <2>1. ParseTime(v, base) = v + (k + 1) * Day
    BY <1>1, <1>2, <1>3, <1>4, <1>5, <1>6
  <2> QED BY <1>1, <1>2, <1>3, <1>5, <1>6, <2>1 DEF Congruent, s
<1>7. CASE ~late
  <2>1. ParseTime(v, base) = v + k * Day
    BY <1>1, <1>2, <1>3, <1>4, <1>5, <1>7
  <2> QED BY <1>1, <1>2, <1>3, <1>5, <1>7, <2>1 DEF Congruent, s
<1> QED BY <1>6, <1>7

\* Any value of an input is read as some instant.
LEMMA ParseTimeType ==
    ASSUME NEW base \in Int, NEW v \in Input
    PROVE  ParseTime(v, base) \in Int
<1>1. CASE v = Blank
  <2>1. Epoch \in Int
    BY FormAssumption, DayIs
  <2> QED BY <1>1, <2>1 DEF ParseTime
<1>2. CASE v \in 0 .. Day - 1
  BY <1>2, ParseTimeIs
<1> QED BY <1>1, <1>2 DEF Input

LEMMA RoundTrip ==
    ASSUME NEW t \in Int
    PROVE  ParseTime(TimeOfDay(t), t) = t
<1> DEFINE p == ParseTime(TimeOfDay(t), t)
           s == StartOfDay(t)
<1>1. TimeOfDay(t) \in 0 .. Day - 1 /\ Congruent(t, TimeOfDay(t)) /\ TimeOfDay(t) \in Int
  BY TimeOfDayIs
<1>2. p \in Int /\ s <= p /\ p < s + Day /\ Congruent(p, TimeOfDay(t))
  BY <1>1, ParseTimeIs
<1>3. s \in Int /\ s <= t /\ t < s + Day
  BY StartOfDayIs
<1> HIDE DEF p, s
<1>4. Congruent(TimeOfDay(t), t)
  BY <1>1, CongruentSwap
<1>5. Congruent(p, t)
  BY <1>1, <1>2, <1>4, CongruentTrans
<1>6. p = t
  BY <1>2, <1>3, <1>5, OneInADay
<1> QED BY <1>6 DEF p

\* The stay of a form whose times of day are dur apart, up to a day, takes dur.
LEMMA StayOfForm ==
    ASSUME NEW base \in Int, NEW in \in 0 .. Day - 1, NEW out \in 0 .. Day - 1,
           NEW dur \in Int, 0 <= dur, dur < Day, Congruent(in + dur, out),
           NEW from, from = ParseTime(in, base), NEW to, to = ParseTime(out, base)
    PROVE  from + dur = to + (IF to < from THEN Day ELSE 0)
<1> DEFINE s == StartOfDay(base)
           end == to + (IF to < from THEN Day ELSE 0)
<1>1. Day \in Nat /\ in \in Int /\ out \in Int /\ s \in Int
  BY DayIs, StartOfDayIs
<1>2. /\ from \in Int /\ s <= from /\ from < s + Day /\ Congruent(from, in)
      /\ to \in Int /\ s <= to /\ to < s + Day /\ Congruent(to, out)
  BY ParseTimeIs
<1>3. end \in Int /\ from <= end /\ end < from + Day
  BY <1>1, <1>2
<1>4. Congruent(end, to)
  <2>1. end = to + 1 * Day \/ end = to + 0 * Day
    BY <1>1, <1>2
  <2> QED BY <2>1 DEF Congruent
<1> HIDE DEF s, end
<1>5. Congruent(from + dur, out)
  <2>1. Congruent(from + dur, in + dur)
    BY <1>1, <1>2, CongruentSum
  <2>2. from + dur \in Int /\ in + dur \in Int
    BY <1>1, <1>2
  <2> QED BY <1>1, <2>1, <2>2, CongruentTrans
<1>6. Congruent(from + dur, end)
  <2>1. Congruent(end, out)
    BY <1>1, <1>2, <1>3, <1>4, CongruentTrans
  <2>2. Congruent(out, end)
    BY <1>1, <1>3, <2>1, CongruentSwap
  <2> QED BY <1>1, <1>2, <1>3, <1>5, <2>2, CongruentTrans
<1>7. from + dur \in Int /\ from <= from + dur /\ from + dur < from + Day
  BY <1>1, <1>2
<1>8. from + dur = end
  BY <1>2, <1>3, <1>6, <1>7, OneInADay
<1> QED BY <1>8 DEF end


(***************************************************************************)
(* The largest and the smallest of finitely many numbers.                   *)
(***************************************************************************)
LEMMA MaxOf ==
    ASSUME NEW S \in SUBSET Int, IsFiniteSet(S), S # {}
    PROVE  Max(S) \in S /\ \A x \in S : x <= Max(S)
<1> DEFINE Largest(U, m) == m \in U /\ \A x \in U : x <= m
           Without == {U \in FiniteSubsetsOf(S) : U # {} /\ ~ \E m \in U : Largest(U, m)}
<1>1. Without = {}
  <2> SUFFICES ASSUME Without # {} PROVE FALSE
    OBVIOUS
  <2>1. IsWellFoundedOn(StrictSubsetOrdering(S), FiniteSubsetsOf(S))
    BY FS_StrictSubsetOrderingWellFounded
  <2>2. Without \subseteq FiniteSubsetsOf(S)
    OBVIOUS
  <2> HIDE DEF Without
  <2>3. PICK U \in Without : \A V \in Without : <<V, U>> \notin StrictSubsetOrdering(S)
    BY <2>1, <2>2, WFMin
  <2>4. /\ U \subseteq S /\ IsFiniteSet(U) /\ U # {}
        /\ ~ \E m \in U : \A x \in U : x <= m
    BY <2>3 DEF Without, FiniteSubsetsOf
  <2>5. PICK u \in U : TRUE
    BY <2>4
  <2> DEFINE V == U \ {u}
  <2>6. V \subseteq S /\ V # U /\ V \subseteq U /\ IsFiniteSet(V)
    BY <2>4, <2>5, FS_RemoveElement
  <2>7. <<V, U>> \in StrictSubsetOrdering(S)
    BY <2>4, <2>6 DEF StrictSubsetOrdering
  <2>8. V \notin Without
    BY <2>3, <2>7
  <2>9. V = {} \/ \E m \in V : \A x \in V : x <= m
    BY <2>6, <2>8 DEF Without, FiniteSubsetsOf
  <2>10. CASE V = {}
    <3>1. \A x \in U : x = u /\ x <= u
      BY <2>4, <2>10
    <3> QED BY <2>4, <2>5, <3>1
  <2>11. CASE \E m \in V : \A x \in V : x <= m
    <3>1. PICK m \in V : \A x \in V : x <= m
      BY <2>11
    <3>2. m \in Int /\ u \in Int /\ m \in U
      BY <2>4, <2>5, <3>1
    <3>3. CASE u <= m
      <4>1. \A x \in U : x <= m
        BY <3>1, <3>3
      <4> QED BY <2>4, <3>2, <4>1
    <3>4. CASE ~(u <= m)
      <4>1. \A x \in U : x \in Int /\ x <= u
        BY <2>4, <3>1, <3>2, <3>4
      <4> QED BY <2>4, <2>5, <4>1
    <3> QED BY <3>3, <3>4
  <2> QED BY <2>9, <2>10, <2>11
<1>2. S \in FiniteSubsetsOf(S)
  BY DEF FiniteSubsetsOf
<1>3. \E m \in S : \A x \in S : x <= m
  BY <1>1, <1>2
<1>4. \E m \in S : \A x \in S : m >= x
  BY <1>3
<1>5. Max(S) \in S /\ \A x \in S : Max(S) >= x
  BY <1>4, Zenon DEF Max
<1> QED BY <1>5

LEMMA MaxOfTwo ==
    ASSUME NEW a \in Int, NEW b \in Int
    PROVE  /\ Max({a, b}) \in Int /\ Max({a, b}) \in {a, b}
           /\ a <= Max({a, b}) /\ b <= Max({a, b})
<1>1. IsFiniteSet({a, b})
  <2>1. IsFiniteSet({a} \cup {b})
    BY FS_Singleton, FS_AddElement
  <2>2. {a} \cup {b} = {a, b}
    OBVIOUS
  <2> QED BY <2>1, <2>2
<1>2. {a, b} \in SUBSET Int /\ {a, b} # {}
  OBVIOUS
<1>3. Max({a, b}) \in {a, b} /\ \A x \in {a, b} : x <= Max({a, b})
  BY <1>1, <1>2, MaxOf
<1> QED BY <1>3

LEMMA MinOfTwo ==
    ASSUME NEW a \in Int, NEW b \in Int
    PROVE  Min({a, b}) \in Int
<1>1. \E m \in {a, b} : \A y \in {a, b} : m =< y
  <2>1. a <= b \/ b <= a
    OBVIOUS
  <2> QED BY <2>1
<1>2. Min({a, b}) \in {a, b}
  BY <1>1, Zenon DEF Min
<1> QED BY <1>2


(***************************************************************************)
(* Types.                                                                   *)
(***************************************************************************)

LEMMA BookingIs ==
    ASSUME NEW b \in Booking
    PROVE  /\ b.id \in Ids /\ b.table \in Tables
           /\ b.start \in Int /\ b.dur \in Nat \ {0} /\ End(b) \in Int /\ b.start < End(b)
  BY DEF Booking, End

LEMMA NowIs ==
    ASSUME FormTypeOK
    PROVE  now \in Int /\ StartOfDay(now) \in Int /\ StartOfDay(now) <= now
<1>1. now \in Int
  BY FormAssumption DEF FormTypeOK
<1> QED BY <1>1, StartOfDayIs

\* The ends of some bookings, and a number: finitely many numbers.
LEMMA EndsAre ==
    ASSUME NEW B, B \subseteq Booking, IsFiniteSet(B), NEW n \in Int
    PROVE  LET S == {n} \cup {End(b) : b \in B}
           IN  S \in SUBSET Int /\ IsFiniteSet(S) /\ S # {}
<1> DEFINE ends == {End(b) : b \in B}
           e == [b \in B |-> End(b)]
<1>1. \A b \in B : End(b) \in Int
  BY BookingIs
<1>2. e \in Surjection(B, ends)
  BY DEF Surjection
<1>3. IsFiniteSet(ends)
  BY <1>2, FS_Surjection
<1>4. IsFiniteSet({n} \cup ends)
  BY <1>3, FS_Singleton, FS_Union
<1>5. {n} \cup ends \in SUBSET Int /\ {n} \cup ends # {}
  BY <1>1
<1> QED BY <1>4, <1>5

LEMMA CursorIs ==
    ASSUME FormTypeOK, NEW B, B \subseteq bookings
    PROVE  /\ Cursor(B) \in Int /\ StartOfDay(now) <= Cursor(B)
           /\ Cursor(B) = StartOfDay(now) \/ \E b \in B : Cursor(B) = End(b)
           /\ \A b \in B : End(b) <= Cursor(B)
<1>1. B \subseteq Booking /\ IsFiniteSet(B) /\ StartOfDay(now) \in Int
  BY NowIs, FS_Subset DEF FormTypeOK
<1> DEFINE S == {StartOfDay(now)} \cup {End(b) : b \in B}
<1>2. S \in SUBSET Int /\ IsFiniteSet(S) /\ S # {}
  BY <1>1, EndsAre
<1>3. Max(S) \in S /\ \A x \in S : x <= Max(S)
  BY <1>2, MaxOf
<1>4. Cursor(B) = Max(S)
  BY DEF Cursor
<1> QED BY <1>2, <1>3, <1>4

LEMMA CloseTimeIs ==
    ASSUME FormTypeOK
    PROVE  CloseTime \in Int
<1> DEFINE h(b) == OpenHour - ((StartOfDay(now) - End(b)) \div Hour)
           hours == {h(b) : b \in bookings}
           S == {BaseCloseHour} \cup hours
           f == [b \in bookings |-> h(b)]
<1>1. StartOfDay(now) \in Int /\ Hour \in Nat \ {0} /\ OpenHour \in Int
  BY NowIs, FormAssumption
<1>2. \A b \in bookings : End(b) \in Int
  BY BookingIs DEF FormTypeOK
<1>3. \A b \in bookings : h(b) \in Int
  BY <1>1, <1>2
<1>4. BaseCloseHour \in Int
  BY FormAssumption DEF BaseCloseHour
<1>5. f \in Surjection(bookings, hours)
  <2> HIDE DEF h
  <2> QED BY DEF Surjection
<1>6. IsFiniteSet(hours)
  BY <1>5, FS_Surjection DEF FormTypeOK
<1> HIDE DEF h
<1>7. IsFiniteSet(S)
  <2> HIDE DEF hours
  <2> QED BY <1>6, FS_Singleton, FS_Union
<1>8. S \in SUBSET Int /\ S # {}
  BY <1>3, <1>4
<1>9. Max(S) \in Int
  BY <1>7, <1>8, MaxOf
<1>10. DynamicCloseHour = Min({Max(S), OpenHour + 20})
  BY DEF DynamicCloseHour, h
<1> HIDE DEF S
<1>11. DynamicCloseHour \in Int
  BY <1>1, <1>9, <1>10, MinOfTwo
<1>12. (DynamicCloseHour - OpenHour) * Hour \in Int
  BY <1>1, <1>11
<1> QED BY <1>1, <1>12 DEF CloseTime


(***************************************************************************)
(* The free slots.                                                          *)
(***************************************************************************)
LEMMA RowIs ==
    ASSUME FormTypeOK, NEW t
    PROVE  /\ Row(t) \subseteq bookings /\ Row(t) \subseteq Booking
           /\ \A b \in Row(t) : b.table = t /\ Earlier(b) \subseteq bookings
                                /\ Earlier(b) = {a \in Row(t) : a.start < b.start}
  BY DEF Row, Earlier, FormTypeOK

\* A slot begins where the cursor is, or now.
LEMMA SlotIs ==
    ASSUME FormTypeOK, NEW from \in Int, NEW to \in Int, NEW s
    PROVE  s \in SlotIfValid(from, to) <=>
              \E x \in {from, now} :
                 /\ from <= x /\ now <= x /\ to - x >= MinSlot
                 /\ s = [start |-> x, dur |-> to - x]
<1> DEFINE m == Max({from, now})
<1>1. now \in Int /\ MinSlot \in Nat \ {0}
  BY NowIs, FormAssumption
<1>2. m \in Int /\ m \in {from, now} /\ from <= m /\ now <= m
  BY <1>1, MaxOfTwo
<1>3. SlotIfValid(from, to) = IF from < to /\ to - m >= MinSlot
                                THEN {[start |-> m, dur |-> to - m]} ELSE {}
  BY DEF SlotIfValid
<1> HIDE DEF m
<1>4. \A x \in {from, now} : from <= x /\ now <= x => x = m
  BY <1>1, <1>2
<1>5. to - m >= MinSlot => from < to
  BY <1>1, <1>2
<1> QED BY <1>2, <1>3, <1>4, <1>5

\* From x to y there is a gap in the row of t.
IsGap(t, x, y) ==
    /\ x = now \/ \E b \in Row(t) : x = End(b)
    /\ (\E b \in Row(t) : y = b.start) \/ (y = CloseTime /\ \A b \in Row(t) : b.start < y)
    /\ x >= now /\ y - x >= MinSlot
    /\ \A b \in Row(t) : ~Meets(b, x, y)

LEMMA SlotIsGap ==
    ASSUME FormTypeOK, NEW t, NEW s \in FreeSlots(t)
    PROVE  \E x, y \in Int : IsGap(t, x, y) /\ s = [start |-> x, dur |-> y - x]
<1>1. now \in Int /\ StartOfDay(now) \in Int /\ StartOfDay(now) <= now /\ CloseTime \in Int
      /\ MinSlot \in Nat \ {0}
  BY NowIs, CloseTimeIs, FormAssumption
<1>2. \A b \in Row(t) : b.start \in Int /\ End(b) \in Int /\ b.start < End(b)
  BY RowIs, BookingIs
<1>3. ASSUME NEW B, B \subseteq Row(t), NEW y \in Int, s \in SlotIfValid(Cursor(B), y)
      PROVE  \E x \in Int :
                /\ x = now \/ \E b \in Row(t) : x = End(b)
                /\ x >= now /\ y - x >= MinSlot /\ s = [start |-> x, dur |-> y - x]
                /\ \A b \in B : End(b) <= x
  <2>1. B \subseteq bookings
    BY <1>3, RowIs
  <2>2. /\ Cursor(B) \in Int /\ StartOfDay(now) <= Cursor(B)
        /\ Cursor(B) = StartOfDay(now) \/ \E b \in B : Cursor(B) = End(b)
        /\ \A b \in B : End(b) <= Cursor(B)
    BY <2>1, CursorIs
  <2>3. PICK x \in {Cursor(B), now} :
           /\ Cursor(B) <= x /\ now <= x /\ y - x >= MinSlot
           /\ s = [start |-> x, dur |-> y - x]
    BY <1>3, <2>2, SlotIs
  <2>4. x \in Int /\ x >= now
    BY <1>1, <2>2, <2>3
  <2>5. x = now \/ \E b \in Row(t) : x = End(b)
    <3>1. CASE x = now
      BY <3>1
    <3>2. CASE x = Cursor(B) /\ Cursor(B) = StartOfDay(now)
      BY <1>1, <2>3, <3>2
    <3>3. CASE x = Cursor(B) /\ \E b \in B : Cursor(B) = End(b)
      BY <1>3, <3>3
    <3> QED BY <2>2, <2>3, <3>1, <3>2, <3>3
  <2>6. \A b \in B : End(b) <= x
    <3>1. \A b \in B : End(b) \in Int
      BY <1>2, <1>3
    <3> QED BY <2>2, <2>3, <2>4, <3>1
  <2> QED BY <2>3, <2>4, <2>5, <2>6
<1>4. CASE \E b \in Row(t) : s \in SlotIfValid(Cursor(Earlier(b)), b.start)
  <2>1. PICK b \in Row(t) : s \in SlotIfValid(Cursor(Earlier(b)), b.start)
    BY <1>4
  <2>2. Earlier(b) = {a \in Row(t) : a.start < b.start} /\ b.start \in Int
    BY <1>2, RowIs
  <2>3. PICK x \in Int :
           /\ x = now \/ \E a \in Row(t) : x = End(a)
           /\ x >= now /\ b.start - x >= MinSlot /\ s = [start |-> x, dur |-> b.start - x]
           /\ \A a \in Earlier(b) : End(a) <= x
    BY <1>3, <2>1, <2>2
  <2>4. \A a \in Row(t) : ~Meets(a, x, b.start)
    BY <1>2, <2>2, <2>3 DEF Meets
  <2> QED BY <2>2, <2>3, <2>4 DEF IsGap
<1>5. CASE s \in SlotIfValid(Cursor(Row(t)), CloseTime)
  <2>1. PICK x \in Int :
           /\ x = now \/ \E a \in Row(t) : x = End(a)
           /\ x >= now /\ CloseTime - x >= MinSlot /\ s = [start |-> x, dur |-> CloseTime - x]
           /\ \A a \in Row(t) : End(a) <= x
    BY <1>1, <1>3, <1>5
  <2>2. \A a \in Row(t) : ~Meets(a, x, CloseTime) /\ a.start < CloseTime
    BY <1>1, <1>2, <2>1 DEF Meets
  <2> QED BY <1>1, <2>1, <2>2 DEF IsGap
<1> QED BY <1>4, <1>5 DEF FreeSlots

LEMMA GapIsSlot ==
    ASSUME FormTypeOK, NEW t, NEW x \in Int, NEW y \in Int, IsGap(t, x, y)
    PROVE  [start |-> x, dur |-> y - x] \in FreeSlots(t)
<1> DEFINE s == [start |-> x, dur |-> y - x]
<1>1. now \in Int /\ StartOfDay(now) \in Int /\ StartOfDay(now) <= now /\ CloseTime \in Int
      /\ MinSlot \in Nat \ {0}
  BY NowIs, CloseTimeIs, FormAssumption
<1>2. \A b \in Row(t) : b.start \in Int /\ End(b) \in Int /\ b.start < End(b)
  BY RowIs, BookingIs
<1>3. x >= now /\ y - x >= MinSlot /\ x < y
  BY <1>1 DEF IsGap
<1>4. \A b \in Row(t) : b.start < y => End(b) <= x
  BY <1>2, <1>3 DEF IsGap, Meets
<1>5. ASSUME NEW B, B = {b \in Row(t) : b.start < y}
      PROVE  s \in SlotIfValid(Cursor(B), y)
  <2>1. B \subseteq bookings
    BY <1>5, RowIs
  <2>2. /\ Cursor(B) \in Int /\ StartOfDay(now) <= Cursor(B)
        /\ Cursor(B) = StartOfDay(now) \/ \E b \in B : Cursor(B) = End(b)
        /\ \A b \in B : End(b) <= Cursor(B)
    BY <2>1, CursorIs
  <2>3. Cursor(B) <= x
    <3>1. CASE Cursor(B) = StartOfDay(now)
      BY <1>1, <1>3, <3>1
    <3>2. CASE \E b \in B : Cursor(B) = End(b)
      BY <1>4, <1>5, <3>2
    <3> QED BY <2>2, <3>1, <3>2
  <2>4. x \in {Cursor(B), now}
    <3>1. CASE x = now
      BY <3>1
    <3>2. CASE \E b \in Row(t) : x = End(b)
      <4>1. PICK b \in Row(t) : x = End(b)
        BY <3>2
      <4>2. b \in B
        BY <1>2, <1>3, <1>5, <4>1
      <4>3. x <= Cursor(B)
        BY <2>2, <4>1, <4>2
      <4> QED BY <2>2, <2>3, <4>3
    <3> QED BY <3>1, <3>2 DEF IsGap
  <2> HIDE DEF s
  <2>5. \E z \in {Cursor(B), now} :
           Cursor(B) <= z /\ now <= z /\ y - z >= MinSlot /\ s = [start |-> z, dur |-> y - z]
    BY <1>3, <2>3, <2>4 DEF s
  <2> QED BY <2>2, <2>5, SlotIs
<1>6. CASE \E b \in Row(t) : y = b.start
  <2>1. PICK b \in Row(t) : y = b.start
    BY <1>6
  <2>2. Earlier(b) = {a \in Row(t) : a.start < y}
    BY <2>1, RowIs
  <2>3. s \in SlotIfValid(Cursor(Earlier(b)), b.start)
    BY <1>5, <2>1, <2>2
  <2> QED BY <2>3 DEF FreeSlots
<1>7. CASE y = CloseTime /\ \A b \in Row(t) : b.start < y
  <2>1. Row(t) = {b \in Row(t) : b.start < y}
    BY <1>7
  <2>2. s \in SlotIfValid(Cursor(Row(t)), CloseTime)
    BY <1>5, <1>7, <2>1
  <2> QED BY <2>2 DEF FreeSlots
<1> QED BY <1>6, <1>7 DEF IsGap

LEMMA SlotsFound == FormTypeOK => SlotsAreTheGaps
<1> SUFFICES ASSUME FormTypeOK, NEW t \in Tables
             PROVE  LET from == {now} \cup {End(b) : b \in Row(t)}
                        until == {b.start : b \in Row(t)}
                    IN  FreeSlots(t) =
                          {[start |-> g[1], dur |-> g[2] - g[1]] :
                             g \in {p \in from \X (until \cup {Max({CloseTime} \cup until)}) :
                                      /\ p[1] >= now
                                      /\ p[2] - p[1] >= MinSlot
                                      /\ \A b \in Row(t) : ~Meets(b, p[1], p[2])}}
  BY DEF SlotsAreTheGaps
<1> DEFINE from == {now} \cup {End(b) : b \in Row(t)}
           until == {b.start : b \in Row(t)}
           last == Max({CloseTime} \cup until)
           gaps == {p \in from \X (until \cup {last}) :
                      /\ p[1] >= now
                      /\ p[2] - p[1] >= MinSlot
                      /\ \A b \in Row(t) : ~Meets(b, p[1], p[2])}
<1>1. now \in Int /\ CloseTime \in Int
  BY NowIs, CloseTimeIs
<1>2. \A b \in Row(t) : b.start \in Int /\ End(b) \in Int
  BY RowIs, BookingIs
<1>3. last \in {CloseTime} \cup until /\ \A x \in {CloseTime} \cup until : x <= last
  <2>1. IsFiniteSet(Row(t))
    BY RowIs, FS_Subset DEF FormTypeOK
  <2> DEFINE f == [b \in Row(t) |-> b.start]
  <2>2. f \in Surjection(Row(t), until)
    BY DEF Surjection
  <2>3. IsFiniteSet(until)
    BY <2>1, <2>2, FS_Surjection
  <2>4. until \in SUBSET Int
    BY <1>2
  <2> HIDE DEF until
  <2>5. IsFiniteSet({CloseTime} \cup until)
    BY <2>3, FS_Singleton, FS_Union
  <2>6. {CloseTime} \cup until \in SUBSET Int /\ {CloseTime} \cup until # {}
    BY <1>1, <2>4
  <2> QED BY <2>5, <2>6, MaxOf
<1> HIDE DEF last
<1>4. ASSUME NEW x, NEW y
      PROVE  <<x, y>> \in gaps <=> x \in Int /\ y \in Int /\ IsGap(t, x, y)
  <2>1. x \in from <=> x = now \/ \E b \in Row(t) : x = End(b)
    OBVIOUS
  <2>2. y \in until <=> \E b \in Row(t) : y = b.start
    OBVIOUS
  <2>3. y \in until \cup {last} <=>
          y \in until \/ (y = CloseTime /\ \A b \in Row(t) : b.start < y)
    <3>1. ASSUME y = last, y \notin until
          PROVE  y = CloseTime /\ \A b \in Row(t) : b.start < y
      <4>1. y = CloseTime
        BY <1>3, <3>1
      <4>2. \A b \in Row(t) : b.start <= y /\ b.start # y
        BY <1>3, <2>2, <3>1
      <4> QED BY <1>1, <1>2, <4>1, <4>2
    <3>2. ASSUME y = CloseTime, \A b \in Row(t) : b.start < y
          PROVE  y = last
      <4>1. last \in Int /\ y <= last
        BY <1>1, <1>2, <1>3, <3>2
      <4>2. \A b \in Row(t) : last = b.start => last < y
        BY <3>2
      <4>3. last = y \/ last < y
        BY <1>3, <3>2, <4>2
      <4> QED BY <1>1, <3>2, <4>1, <4>3
    <3> QED BY <3>1, <3>2
  <2>4. <<x, y>> \in gaps <=>
          /\ x \in from /\ y \in until \cup {last}
          /\ x >= now /\ y - x >= MinSlot
          /\ \A b \in Row(t) : ~Meets(b, x, y)
    <3> HIDE DEF from, until
    <3> QED OBVIOUS
  <2>5. x \in from => x \in Int
    BY <1>1, <1>2
  <2>6. y \in until \cup {last} => y \in Int
    BY <1>1, <1>2, <1>3
  <2> HIDE DEF from, until, gaps
  <2> QED BY <2>1, <2>2, <2>3, <2>4, <2>5, <2>6 DEF IsGap
<1>5. \A p \in gaps : p = <<p[1], p[2]>>
  OBVIOUS
<1> HIDE DEF gaps
<1>6. ASSUME NEW s \in FreeSlots(t)
      PROVE  \E g \in gaps : s = [start |-> g[1], dur |-> g[2] - g[1]]
  <2>1. PICK x \in Int, y \in Int : IsGap(t, x, y) /\ s = [start |-> x, dur |-> y - x]
    BY SlotIsGap
  <2>2. <<x, y>> \in gaps
    BY <1>4, <2>1
  <2> QED BY <2>1, <2>2
<1>7. ASSUME NEW g \in gaps
      PROVE  [start |-> g[1], dur |-> g[2] - g[1]] \in FreeSlots(t)
  <2>1. <<g[1], g[2]>> \in gaps
    BY <1>5
  <2>2. g[1] \in Int /\ g[2] \in Int /\ IsGap(t, g[1], g[2])
    BY <1>4, <2>1
  <2> QED BY <2>2, GapIsSlot
<1>8. FreeSlots(t) = {[start |-> g[1], dur |-> g[2] - g[1]] : g \in gaps}
  BY <1>6, <1>7
<1> QED BY <1>8 DEF gaps, last


(***************************************************************************)
(* The form.                                                                *)
(***************************************************************************)

\* As long as its duration is that of a stay, the two times of the form are
\* that far apart, up to whole days.
ReviewFits ==
    form.checkIn # Blank /\ form.checkOut # Blank /\ form.dur > 0 =>
        Congruent(form.checkIn + form.dur, form.checkOut)

\* What is reviewed has been validated against the slot.
Validated == slot # None /\ step = "summary" => InSlot

FormType == [checkIn : Input, checkOut : Input, dur : Int]
TextType ==
    /\ slot \in {None} \cup Slot /\ editing \in {None} \cup Booking
    /\ slot = None \/ editing = None
    /\ form \in FormType /\ step \in {"form", "summary"}
    /\ step = "summary" /\ IsOpen => Blank \notin {form.checkIn, form.checkOut}

LEMMA TypeSplits ==
    FormTypeOK <=>
        /\ bookings \subseteq Booking /\ IsFiniteSet(bookings) /\ now \in Clock
        /\ TextType /\ request \in {None} \cup Request /\ effort \in 0 .. MaxEffort
  BY Zenon DEF FormTypeOK, TextType, FormType

LEMMA TypeSplitsNext ==
    FormTypeOK' <=>
        /\ bookings' \subseteq Booking /\ IsFiniteSet(bookings') /\ now' \in Clock
        /\ TextType' /\ request' \in {None} \cup Request /\ effort' \in 0 .. MaxEffort
  BY Zenon DEF FormTypeOK, TextType, FormType

LEMMA BlankIs == Blank \notin 0 .. Day - 1 /\ Blank \in Input /\ 0 .. Day - 1 \subseteq Input
                 /\ \A v \in Input : v # Blank => v \in 0 .. Day - 1
  BY DayIs DEF Blank, Input

LEMMA BaseIs ==
    ASSUME TextType, IsOpen
    PROVE  Base \in Int /\ CheckInTime \in Int
<1>1. Base \in Int
  <2>1. CASE editing # None
    BY <2>1 DEF TextType, Base, Booking
  <2>2. CASE editing = None
    BY <2>2 DEF TextType, Base, Slot, IsOpen
  <2> QED BY <2>1, <2>2
<1>2. form.checkIn \in Input
  BY DEF TextType, FormType
<1> QED BY <1>1, <1>2, ParseTimeType DEF CheckInTime

LEMMA FilledIs ==
    ASSUME NEW start \in Int, NEW dur \in Int
    PROVE  /\ Filled(start, dur) \in FormType
           /\ Filled(start, dur).checkIn = TimeOfDay(start)
           /\ Filled(start, dur).checkOut = TimeOfDay(start + dur)
           /\ Filled(start, dur).dur = dur
           /\ Congruent(TimeOfDay(start) + dur, TimeOfDay(start + dur))
<1>1. /\ TimeOfDay(start) \in 0 .. Day - 1 /\ TimeOfDay(start + dur) \in 0 .. Day - 1
      /\ Congruent(start, TimeOfDay(start))
      /\ Congruent(start + dur, TimeOfDay(start + dur))
  BY TimeOfDayIs
<1>2. TimeOfDay(start) \in Int /\ TimeOfDay(start + dur) \in Int
  BY <1>1, DayIs
<1>3. Congruent(TimeOfDay(start), start)
  BY <1>1, <1>2, CongruentSwap
<1>4. Congruent(TimeOfDay(start) + dur, start + dur)
  BY <1>2, <1>3, CongruentSum
<1>5. TimeOfDay(start) + dur \in Int /\ start + dur \in Int
  BY <1>2
<1>6. Congruent(TimeOfDay(start) + dur, TimeOfDay(start + dur))
  BY <1>1, <1>2, <1>4, <1>5, CongruentTrans
<1>7. Filled(start, dur) \in FormType
  BY <1>1, BlankIs DEF Filled, FormType
<1> QED BY <1>6, <1>7 DEF Filled

\* A stay that is shown with its two times of day is read as it is.
LEMMA FilledIsRead ==
    ASSUME NEW start \in Int, NEW dur \in Nat, dur < Day, Base = start,
           form = Filled(start, dur)
    PROVE  CheckInTime = start /\ CheckOutTime = start + dur
<1> DEFINE in == TimeOfDay(start)
           out == TimeOfDay(start + dur)
<1>1. form.checkIn = in /\ form.checkOut = out /\ Congruent(in + dur, out)
  <2>1. dur \in Int
    OBVIOUS
  <2> QED BY <2>1, FilledIs
<1>2. in \in 0 .. Day - 1 /\ out \in 0 .. Day - 1
  BY TimeOfDayIs
<1>3. CheckInTime = ParseTime(in, start)
  BY <1>1 DEF CheckInTime
<1>4. CheckInTime = start
  BY <1>3, RoundTrip
<1> DEFINE to == ParseTime(out, start)
<1>5. CheckOutTime = to + (IF to < CheckInTime THEN Day ELSE 0)
  BY <1>1 DEF CheckOutTime
<1>6. CheckInTime + dur = to + (IF to < CheckInTime THEN Day ELSE 0)
  <2> HIDE DEF in, out
  <2>1. 0 <= dur /\ dur \in Int
    OBVIOUS
  <2> QED BY <1>1, <1>2, <1>3, <2>1, StayOfForm
<1> QED BY <1>4, <1>5, <1>6

LEMMA InitForm == Init => FormTypeOK /\ ReviewFits /\ Validated
<1> SUFFICES ASSUME Init PROVE FormTypeOK /\ ReviewFits /\ Validated
  OBVIOUS
<1>1. form \in FormType
  BY BlankIs, DayIs DEF Init, FormType
<1>2. TextType
  BY <1>1 DEF Init, TextType
<1>3. FormTypeOK
  BY <1>2, TypeSplits, FormAssumption, FS_EmptySet DEF Init
<1>4. ReviewFits /\ Validated
  BY DEF Init, ReviewFits, Validated
<1> QED BY <1>3, <1>4

\* Steps that leave the form alone.
LEMMA FormKept ==
    ASSUME TextType, ReviewFits, Validated, UNCHANGED modal
    PROVE  TextType' /\ ReviewFits' /\ Validated'
  BY DEF modal, TextType, IsOpen, ReviewFits, Validated, InSlot, CheckInTime, CheckOutTime, Base

LEMMA FormWorld ==
    ASSUME FormTypeOK, ReviewFits, Validated, OthersBook \/ CancelBooking \/ Tick \/ Refused
    PROVE  FormTypeOK' /\ ReviewFits' /\ Validated'
<1>1. TextType' /\ ReviewFits' /\ Validated'
  <2>1. UNCHANGED modal
    BY DEF OthersBook, CancelBooking, Tick, Refused
  <2> QED BY <2>1, TypeSplits, FormKept
<1>2. bookings' \subseteq Booking /\ IsFiniteSet(bookings')
  <2>1. CASE OthersBook
    <3>1. PICK s \in Others, id \in Ids :
            bookings' = bookings \cup
              {[id |-> id, table |-> s.table, start |-> s.start, dur |-> s.dur]}
      BY <2>1 DEF OthersBook
    <3>2. s \in [table : Tables, start : Int, dur : Nat \ {0}]
      BY FormAssumption
    <3>3. [id |-> id, table |-> s.table, start |-> s.start, dur |-> s.dur] \in Booking
      BY <3>2 DEF Booking
    <3> QED BY <3>1, <3>3, FS_AddElement DEF FormTypeOK
  <2>2. CASE CancelBooking
    BY <2>2, FS_RemoveElement DEF CancelBooking, FormTypeOK
  <2>3. CASE UNCHANGED bookings
    BY <2>3 DEF FormTypeOK
  <2> QED BY <2>1, <2>2, <2>3 DEF Tick, Refused
<1>3. now' \in Clock /\ request' \in {None} \cup Request /\ effort' \in 0 .. MaxEffort
  BY DEF FormTypeOK, OthersBook, CancelBooking, Tick, Refused
<1> QED BY <1>1, <1>2, <1>3, TypeSplitsNext

LEMMA FormOpens ==
    ASSUME FormTypeOK, OpenSlot \/ OpenBooking
    PROVE  FormTypeOK' /\ ReviewFits' /\ Validated'
<1>1. ASSUME NEW s, NEW e, NEW start \in Int, NEW dur \in Int, Open(s, e, Filled(start, dur)),
             s \in {None} \cup Slot, e \in {None} \cup Booking, s = None \/ e = None
      PROVE  FormTypeOK' /\ ReviewFits' /\ Validated'
  <2>1. /\ slot' = s /\ editing' = e /\ form' = Filled(start, dur) /\ step' = "form"
        /\ effort + 2 <= MaxEffort /\ effort' = effort + 2
        /\ UNCHANGED <<bookings, now, request>>
    BY <1>1 DEF Open
  <2>2. form' \in FormType
    BY <2>1, FilledIs
  <2>3. TextType'
    BY <1>1, <2>1, <2>2 DEF TextType
  <2>4. effort' \in 0 .. MaxEffort
    BY <2>1, FormAssumption DEF FormTypeOK
  <2>5. FormTypeOK'
    BY <2>1, <2>3, <2>4, TypeSplits, TypeSplitsNext
  <2>6. ReviewFits' /\ Validated'
    BY <2>1, FilledIs DEF ReviewFits, Validated
  <2> QED BY <2>5, <2>6
<1>2. CASE OpenSlot
  <2>1. PICK t \in Tables : \E s \in FreeSlots(t) :
          Open([table |-> t, start |-> s.start, dur |-> s.dur], None, Filled(s.start, Hour))
    BY <1>2 DEF OpenSlot
  <2>2. PICK s \in FreeSlots(t) :
          Open([table |-> t, start |-> s.start, dur |-> s.dur], None, Filled(s.start, Hour))
    BY <2>1
  <2>3. s.start \in Int /\ s.dur \in Int
    BY SlotIsGap
  <2>4. [table |-> t, start |-> s.start, dur |-> s.dur] \in Slot /\ Hour \in Int
    BY <2>3, DayIs DEF Slot
  <2> QED BY <1>1, <2>2, <2>3, <2>4
<1>3. CASE OpenBooking
  <2>1. PICK b \in bookings : Open(None, b, Filled(b.start, b.dur))
    BY <1>3 DEF OpenBooking
  <2>2. b \in Booking /\ b.start \in Int /\ b.dur \in Int
    BY BookingIs DEF FormTypeOK
  <2> QED BY <1>1, <2>1, <2>2
<1> QED BY <1>2, <1>3

LEMMA FormTyped ==
    ASSUME FormTypeOK, NEW f \in FormType, Type(f),
           f.checkIn # Blank /\ f.checkOut # Blank /\ f.dur > 0 =>
               Congruent(f.checkIn + f.dur, f.checkOut)
    PROVE  FormTypeOK' /\ ReviewFits' /\ Validated'
<1>1. /\ form' = f /\ step' = "form" /\ effort < MaxEffort /\ effort' = effort + 1
      /\ UNCHANGED <<bookings, now, slot, editing, request>>
  BY DEF Type
<1>2. TextType'
  BY <1>1 DEF FormTypeOK, TextType
<1>3. effort' \in 0 .. MaxEffort
  BY <1>1, FormAssumption DEF FormTypeOK
<1>4. FormTypeOK'
  BY <1>1, <1>2, <1>3, TypeSplits, TypeSplitsNext
<1> QED BY <1>1, <1>4 DEF ReviewFits, Validated

LEMMA FormChanges ==
    ASSUME FormTypeOK, ReviewFits,
           \/ \E val \in Times \cup {Blank} : ChangeCheckIn(val) \/ ChangeCheckOut(val)
           \/ TypeDuration
    PROVE  FormTypeOK' /\ ReviewFits' /\ Validated'
<1>1. /\ form \in FormType /\ form.checkIn \in Input /\ form.checkOut \in Input
      /\ form.dur \in Int /\ TextType
  BY TypeSplits DEF TextType, FormType
<1>2. IsOpen
  BY DEF ChangeCheckIn, ChangeCheckOut, TypeDuration, ChangeDuration, Type
<1>3. Base \in Int /\ CheckInTime \in Int
  BY <1>1, <1>2, BaseIs
<1>4. \A val \in Times \cup {Blank} : val \in Input
  BY FormAssumption, BlankIs
<1>5. ASSUME NEW val \in Times \cup {Blank}, ChangeCheckIn(val)
      PROVE  FormTypeOK' /\ ReviewFits' /\ Validated'
  <2> DEFINE p == ParseTime(val, Base)
             out == IF form.dur > 0 THEN TimeOfDay(p + form.dur) ELSE form.checkOut
             f == [form EXCEPT !.checkIn = val, !.checkOut = out]
  <2>1. val \in Input /\ p \in Int
    BY <1>3, <1>4, ParseTimeType
  <2>2. /\ TimeOfDay(p + form.dur) \in 0 .. Day - 1
        /\ Congruent(p + form.dur, TimeOfDay(p + form.dur))
    BY <1>1, <2>1, TimeOfDayIs
  <2>3. out \in Input
    BY <1>1, <2>2, BlankIs
  <2>4. Type(f)
    BY <1>5 DEF ChangeCheckIn
  <2>5. ASSUME val # Blank, form.dur > 0 PROVE Congruent(val + form.dur, out)
    <3>1. val \in 0 .. Day - 1 /\ val \in Int
      BY <2>1, <2>5, BlankIs, DayIs
    <3>2. Congruent(p, val)
      BY <1>3, <3>1, ParseTimeIs
    <3>3. Congruent(val, p)
      BY <2>1, <3>1, <3>2, CongruentSwap
    <3>4. Congruent(val + form.dur, p + form.dur)
      BY <1>1, <2>1, <3>1, <3>3, CongruentSum
    <3>5. out = TimeOfDay(p + form.dur) /\ out \in Int
      BY <2>2, <2>5, DayIs
    <3> HIDE DEF p, out
    <3>6. val + form.dur \in Int /\ p + form.dur \in Int
      BY <1>1, <2>1, <3>1
    <3> QED BY <2>2, <3>4, <3>5, <3>6, CongruentTrans
  <2> HIDE DEF out
  <2>6. f \in FormType /\ f.checkIn = val /\ f.checkOut = out /\ f.dur = form.dur
    BY <1>1, <2>1, <2>3 DEF FormType
  <2> HIDE DEF f
  <2> QED BY <2>4, <2>5, <2>6, FormTyped
<1>6. ASSUME NEW val \in Times \cup {Blank}, ChangeCheckOut(val)
      PROVE  FormTypeOK' /\ ReviewFits' /\ Validated'
  <2> DEFINE p == ParseTime(val, Base)
             diff == p - CheckInTime
             dur == IF form.checkIn = Blank THEN form.dur
                    ELSE diff + (IF diff < 0 THEN Day ELSE 0)
             f == [form EXCEPT !.checkOut = val, !.dur = dur]
  <2>1. val \in Input /\ p \in Int /\ Day \in Int
    BY <1>3, <1>4, ParseTimeType, DayIs
  <2>2. diff \in Int /\ dur \in Int
    BY <1>1, <1>3, <2>1
  <2>3. Type(f)
    BY <1>6 DEF ChangeCheckOut
  <2>4. ASSUME val # Blank, form.checkIn # Blank PROVE Congruent(form.checkIn + dur, val)
    <3>1. val \in 0 .. Day - 1 /\ form.checkIn \in 0 .. Day - 1
      BY <1>1, <2>1, <2>4, BlankIs
    <3>2. val \in Int /\ form.checkIn \in Int
      BY <3>1, DayIs
    <3>3. Congruent(p, val) /\ Congruent(CheckInTime, form.checkIn)
      BY <1>3, <3>1, ParseTimeIs DEF CheckInTime
    <3>4. Congruent(form.checkIn, CheckInTime)
      BY <1>3, <3>2, <3>3, CongruentSwap
    <3>5. Congruent(form.checkIn + dur, CheckInTime + dur)
      <4> HIDE DEF dur
      <4> QED BY <1>3, <2>2, <3>2, <3>4, CongruentSum
    <3>6. Congruent(CheckInTime + dur, p)
      <4>1. CheckInTime + dur = p + 1 * Day \/ CheckInTime + dur = p + 0 * Day
        BY <1>3, <2>1, <2>4
      <4> HIDE DEF dur, p
      <4> QED BY <4>1 DEF Congruent
    <3>7. Congruent(CheckInTime + dur, val)
      <4>1. CheckInTime + dur \in Int
        BY <1>3, <2>2
      <4> HIDE DEF dur, p
      <4> QED BY <2>1, <3>2, <3>3, <3>6, <4>1, CongruentTrans
    <3>8. form.checkIn + dur \in Int /\ CheckInTime + dur \in Int
      BY <1>3, <2>2, <3>2
    <3> HIDE DEF dur, p
    <3> QED BY <3>2, <3>5, <3>7, <3>8, CongruentTrans
  <2> HIDE DEF dur
  <2>5. f \in FormType /\ f.checkIn = form.checkIn /\ f.checkOut = val /\ f.dur = dur
    BY <1>1, <2>1, <2>2 DEF FormType
  <2> HIDE DEF f
  <2> QED BY <2>3, <2>4, <2>5, FormTyped
<1>7. ASSUME NEW dur \in Int, ChangeDuration(dur)
      PROVE  FormTypeOK' /\ ReviewFits' /\ Validated'
  <2> DEFINE out == IF dur > 0 /\ form.checkIn # Blank
                      THEN TimeOfDay(CheckInTime + dur) ELSE form.checkOut
             f == [form EXCEPT !.dur = dur, !.checkOut = out]
  <2>1. /\ TimeOfDay(CheckInTime + dur) \in 0 .. Day - 1
        /\ Congruent(CheckInTime + dur, TimeOfDay(CheckInTime + dur))
    BY <1>3, TimeOfDayIs
  <2>2. out \in Input
    BY <1>1, <2>1, BlankIs
  <2>3. Type(f)
    BY <1>7 DEF ChangeDuration
  <2>4. ASSUME form.checkIn # Blank, dur > 0 PROVE Congruent(form.checkIn + dur, out)
    <3>1. form.checkIn \in 0 .. Day - 1 /\ form.checkIn \in Int
      BY <1>1, <2>4, BlankIs, DayIs
    <3>2. Congruent(CheckInTime, form.checkIn)
      BY <1>3, <3>1, ParseTimeIs DEF CheckInTime
    <3>3. Congruent(form.checkIn, CheckInTime)
      BY <1>3, <3>1, <3>2, CongruentSwap
    <3>4. Congruent(form.checkIn + dur, CheckInTime + dur)
      BY <1>3, <3>1, <3>3, CongruentSum
    <3>5. out = TimeOfDay(CheckInTime + dur) /\ out \in Int
      BY <2>1, <2>4, DayIs
    <3> HIDE DEF out
    <3>6. form.checkIn + dur \in Int /\ CheckInTime + dur \in Int
      BY <1>3, <3>1
    <3> QED BY <2>1, <3>4, <3>5, <3>6, CongruentTrans
  <2> HIDE DEF out
  <2>5. f \in FormType /\ f.checkIn = form.checkIn /\ f.checkOut = out /\ f.dur = dur
    BY <1>1, <2>2 DEF FormType
  <2> HIDE DEF f
  <2> QED BY <2>3, <2>4, <2>5, FormTyped
<1>8. ASSUME TypeDuration PROVE \E dur \in Int : ChangeDuration(dur)
  <2> DEFINE h == Hour
  <2>1. h \in Nat \ {0}
    BY DayIs
  <2>2. RestOfHour \in Int /\ form.dur \div Hour \in Int
    <3>1. RestOfHour = IF form.dur < 0 THEN -((-form.dur) % h) ELSE form.dur % h
      BY DEF RestOfHour
    <3> HIDE DEF h
    <3> QED BY <1>1, <2>1, <3>1 DEF h
  <2>3. \A n \in Hours : n * Hour + RestOfHour \in Int
    BY <2>1, <2>2, FormAssumption
  <2>4. \A m \in Minutes : (form.dur \div Hour) * Hour + m \in Int
    BY <2>1, <2>2, FormAssumption
  <2>5. Buttons \subseteq Int
    BY FormAssumption
  <2> QED BY <1>8, <2>3, <2>4, <2>5 DEF TypeDuration
<1> QED BY <1>5, <1>6, <1>7, <1>8

LEMMA FormSteps ==
    ASSUME FormTypeOK, ReviewFits, Validated, Submit \/ Back \/ Close \/ Confirm
    PROVE  FormTypeOK' /\ ReviewFits' /\ Validated'
<1>1. TextType /\ request \in {None} \cup Request
  BY TypeSplits
<1>2. /\ UNCHANGED <<bookings, now, form, effort>>
      /\ ReviewFits'
  BY DEF Submit, Back, Close, Confirm, ReviewFits
<1>3. TextType' /\ Validated'
  <2>1. CASE Submit
    <3>1. UNCHANGED <<slot, editing>> /\ step' = "summary"
      BY <2>1 DEF Submit
    <3>2. TextType'
      BY <1>1, <1>2, <2>1, <3>1 DEF Submit, MayContinue, TextType, IsOpen
    <3>3. slot # None => InSlot
      BY <1>1, <2>1 DEF Submit, MayContinue, TextType
    <3>4. InSlot' <=> InSlot
      BY <1>2, <3>1 DEF InSlot, CheckInTime, CheckOutTime, Base
    <3> QED BY <3>1, <3>2, <3>3, <3>4 DEF Validated
  <2>2. CASE Back
    BY <1>1, <1>2, <2>2 DEF Back, TextType, Validated
  <2>3. CASE Close \/ Confirm
    BY <1>1, <1>2, <2>3 DEF Close, Confirm, TextType, Validated, IsOpen
  <2> QED BY <2>1, <2>2, <2>3
<1>4. request' \in {None} \cup Request
  <2>1. CASE Confirm
    <3>1. IsOpen /\ request' = Payload
      BY <2>1 DEF Confirm
    <3>2. CheckInTime \in Int
      BY <1>1, <3>1, BaseIs
    <3>3. SentDuration \in Int
      BY <1>1, DayIs DEF TextType, FormType, SentDuration
    <3>4. (IF editing # None THEN editing.table ELSE slot.table) \in Tables
      BY <1>1, <3>1 DEF TextType, IsOpen, Booking, Slot
    <3>5. editing \in {None} \cup Booking
      BY <1>1 DEF TextType
    <3>6. Payload \in Request
      BY <3>2, <3>3, <3>4, <3>5 DEF Payload, Request
    <3> QED BY <3>1, <3>6
  <2>2. CASE UNCHANGED request
    BY <1>1, <2>2
  <2> QED BY <2>1, <2>2 DEF Submit, Back, Close
<1> QED BY <1>2, <1>3, <1>4, TypeSplits, TypeSplitsNext

LEMMA FormAccepted ==
    ASSUME FormTypeOK, ReviewFits, Validated, Accepted
    PROVE  FormTypeOK' /\ ReviewFits' /\ Validated'
<1>1. /\ UNCHANGED <<now, form, step, effort>> /\ request' = None
      /\ request \in Request /\ request.dur > 0
      /\ slot' \in {slot, None} /\ editing' \in {editing, None}
      /\ slot' = slot \/ editing' = editing
  BY DEF Accepted, FormTypeOK
<1>2. TextType
  BY TypeSplits
<1>3. request.start \in Int /\ request.dur \in Nat \ {0} /\ request.table \in Tables
  BY <1>1 DEF Request
<1>4. bookings' \subseteq Booking /\ IsFiniteSet(bookings')
  <2>1. CASE request.booking = None
    <3>1. PICK id \in Ids :
            bookings' = bookings \cup
                    {[id |-> id, table |-> request.table,
                      start |-> request.start, dur |-> request.dur]}
      BY <2>1 DEF Accepted
    <3>2. [id |-> id, table |-> request.table,
           start |-> request.start, dur |-> request.dur] \in Booking
      BY <1>3 DEF Booking
    <3> QED BY <3>1, <3>2, FS_AddElement DEF FormTypeOK
  <2>2. CASE request.booking # None
    <3>1. PICK b \in bookings :
            bookings' = (bookings \ {b}) \cup
                    {[b EXCEPT !.start = request.start, !.dur = request.dur]}
      BY <2>2 DEF Accepted
    <3>2. b \in Booking
      BY DEF FormTypeOK
    <3>3. [b EXCEPT !.start = request.start, !.dur = request.dur] \in Booking
      BY <1>3, <3>2 DEF Booking
    <3>4. IsFiniteSet(bookings \ {b})
      BY FS_RemoveElement DEF FormTypeOK
    <3> QED BY <3>1, <3>3, <3>4, FS_AddElement DEF FormTypeOK
  <2> QED BY <2>1, <2>2
<1>5. TextType'
  BY <1>1, <1>2 DEF TextType, IsOpen
<1>6. ReviewFits'
  BY <1>1 DEF ReviewFits
<1>7. Validated'
  <2> SUFFICES ASSUME slot' # None, step' = "summary" PROVE InSlot'
    BY DEF Validated
  <2>1. slot' = slot /\ editing = None /\ editing' = None
    BY <1>1, <1>2 DEF TextType
  <2>2. InSlot
    BY <1>1, <2>1 DEF Validated
  <2> QED BY <1>1, <2>1, <2>2 DEF InSlot, CheckInTime, CheckOutTime, Base
<1>8. now' \in Clock /\ request' \in {None} \cup Request /\ effort' \in 0 .. MaxEffort
  BY <1>1 DEF FormTypeOK
<1> QED BY <1>4, <1>5, <1>6, <1>7, <1>8, TypeSplitsNext

LEMMA StepForm ==
    FormTypeOK /\ ReviewFits /\ Validated /\ [Next]_vars =>
        (FormTypeOK /\ ReviewFits /\ Validated)'
<1> SUFFICES ASSUME FormTypeOK, ReviewFits, Validated, [Next]_vars
             PROVE  FormTypeOK' /\ ReviewFits' /\ Validated'
  OBVIOUS
<1>1. CASE UNCHANGED vars
  <2>1. TextType' /\ ReviewFits' /\ Validated'
    BY <1>1, TypeSplits, FormKept DEF vars
  <2> QED BY <1>1, <2>1, TypeSplits, TypeSplitsNext DEF vars
<1>2. CASE Next
  BY <1>2, FormWorld, FormOpens, FormChanges, FormSteps, FormAccepted DEF Next
<1> QED BY <1>1, <1>2

LEMMA FormInvariant == Spec => [](FormTypeOK /\ ReviewFits /\ Validated)
  BY InitForm, StepForm, PTL DEF Spec

(***************************************************************************)
(* Theorems.                                                                *)
(***************************************************************************)

\* Every reachable state of the page is well typed: the bookings are finitely
\* many and last, and the form holds times of day.
THEOREM FormTypes == Spec => []FormTypeOK
  BY FormInvariant, PTL

\* For any bookings, hours and instants: the free slots of a row are its gaps.
THEOREM SlotsOfRow == Spec => []SlotsAreTheGaps
  BY FormInvariant, SlotsFound, PTL

\* Whatever has been typed in whatever order: what is sent is what is reviewed.
THEOREM ReviewIsSentForm == Spec => []ReviewIsSent
<1>1. FormTypeOK /\ ReviewFits => ReviewIsSent
  <2> SUFFICES ASSUME FormTypeOK, ReviewFits, IsOpen, step = "summary",
                      form.dur > 0, form.dur < Day
               PROVE  CheckInTime + SentDuration = CheckOutTime
    BY DEF ReviewIsSent
  <2>1. /\ form.checkIn \in Input /\ form.checkOut \in Input /\ form.dur \in Int
        /\ form.checkIn # Blank /\ form.checkOut # Blank /\ TextType
    BY TypeSplits DEF TextType, FormType
  <2>2. form.checkIn \in 0 .. Day - 1 /\ form.checkOut \in 0 .. Day - 1
    BY <2>1, BlankIs
  <2>3. Congruent(form.checkIn + form.dur, form.checkOut)
    BY <2>1 DEF ReviewFits
  <2>4. Base \in Int /\ 0 <= form.dur
    BY <2>1, BaseIs
  <2> DEFINE to == ParseTime(form.checkOut, Base)
  <2>5. CheckInTime = ParseTime(form.checkIn, Base)
    BY DEF CheckInTime
  <2>6. CheckInTime + form.dur = to + (IF to < CheckInTime THEN Day ELSE 0)
    BY <2>1, <2>2, <2>3, <2>4, <2>5, StayOfForm
  <2>7. SentDuration = form.dur
    BY <2>1 DEF SentDuration
  <2> QED BY <2>6, <2>7 DEF CheckOutTime
<1> QED BY <1>1, FormInvariant, PTL

\* For any booking: an edit that changes no time sends back its times.
THEOREM UntouchedEditKeepsForm == Spec => []UntouchedEditKeeps
<1>1. FormTypeOK => UntouchedEditKeeps
  <2> SUFFICES ASSUME FormTypeOK, editing # None, form = Filled(editing.start, editing.dur)
               PROVE  CheckInTime = editing.start /\ SentDuration = editing.dur
    BY DEF UntouchedEditKeeps
  <2>1. editing.start \in Int /\ editing.dur \in Nat \ {0}
    BY BookingIs DEF FormTypeOK
  <2>2. form.checkIn = TimeOfDay(editing.start) /\ form.dur = editing.dur
    <3>1. editing.dur \in Int
      BY <2>1
    <3> QED BY <2>1, <3>1, FilledIs
  <2>3. CheckInTime = ParseTime(TimeOfDay(editing.start), editing.start)
    BY <2>2 DEF CheckInTime, Base
  <2> QED BY <2>1, <2>2, <2>3, RoundTrip DEF SentDuration
<1> QED BY <1>1, FormInvariant, PTL

\* For any free slot of an hour or more: the form that opens on it can be
\* submitted as it is.
THEOREM OfferIsAcceptedForm == Spec => []OfferIsAccepted
<1>1. FormTypeOK => OfferIsAccepted
  <2> SUFFICES ASSUME FormTypeOK, slot # None, slot.dur >= Hour,
                      form = Filled(slot.start, Hour)
               PROVE  MayContinue
    BY DEF OfferIsAccepted
  <2>1. slot.start \in Int /\ slot.dur \in Int /\ editing = None
    BY DEF FormTypeOK, Slot
  <2>2. Hour \in Nat \ {0} /\ Hour < Day /\ MinSlot \in Nat \ {0} /\ MinSlot <= Hour
    BY DayIs, FormAssumption
  <2>3. Base = slot.start
    BY <2>1 DEF Base
  <2>4. CheckInTime = slot.start /\ CheckOutTime = slot.start + Hour
    BY <2>1, <2>2, <2>3, FilledIsRead
  <2>5. form.checkIn # Blank /\ form.checkOut # Blank
    <3>1. form.checkIn \in 0 .. Day - 1 /\ form.checkOut \in 0 .. Day - 1
      <4>1. Hour \in Int /\ slot.start + Hour \in Int
        BY <2>1, <2>2
      <4> QED BY <2>1, <4>1, FilledIs, TimeOfDayIs
    <3> QED BY <3>1, BlankIs
  <2>6. InSlot
    BY <2>1, <2>2, <2>4 DEF InSlot, End
  <2> QED BY <2>1, <2>2, <2>4, <2>5, <2>6 DEF MayContinue
<1> QED BY <1>1, FormInvariant, PTL

\* For any bookings that others make meanwhile: a creation that has been validated
\* clashes, while its slot is offered, only by checking in early.
THEOREM OnlyEarlyClashesForm == Spec => []OnlyEarlyClashes
<1>1. FormTypeOK /\ Validated => OnlyEarlyClashes
  <2> SUFFICES ASSUME FormTypeOK, Validated, slot # None, step = "summary",
                      [start |-> slot.start, dur |-> slot.dur] \in FreeSlots(slot.table),
                      NEW b \in Row(slot.table), Overlapped(b)
               PROVE  End(b) <= slot.start /\ End(b) > slot.start - MinSlot
    BY DEF OnlyEarlyClashes
  <2>1. /\ slot.start \in Int /\ slot.dur \in Int /\ IsOpen /\ TextType
        /\ form.checkIn \in Input /\ form.checkOut \in Input
    BY TypeSplits DEF TextType, FormType, Slot, IsOpen
  <2>2. CheckInTime \in Int /\ Base \in Int /\ MinSlot \in Nat /\ Day \in Int
    BY <2>1, BaseIs, FormAssumption, DayIs
  <2>3. CheckOutTime \in Int
    <3>1. ParseTime(form.checkOut, Base) \in Int
      BY <2>1, <2>2, ParseTimeType
    <3> QED BY <2>2, <3>1 DEF CheckOutTime
  <2>4. b.start \in Int /\ End(b) \in Int /\ b.start < End(b)
    BY RowIs, BookingIs
  <2>5. CheckInTime >= slot.start - MinSlot /\ CheckOutTime <= End(slot)
    BY DEF Validated, InSlot
  <2>6. CheckInTime < End(b) /\ CheckOutTime > b.start
    BY DEF Overlapped, Meets
  <2>7. ~Meets(b, slot.start, slot.start + slot.dur)
    <3>1. PICK x \in Int, y \in Int :
            /\ IsGap(slot.table, x, y)
            /\ [start |-> slot.start, dur |-> slot.dur] = [start |-> x, dur |-> y - x]
      BY SlotIsGap
    <3>2. slot.start = x /\ slot.dur = y - x
      BY <3>1
    <3>3. y = slot.start + slot.dur
      BY <2>1, <3>2
    <3> QED BY <3>1, <3>2, <3>3 DEF IsGap
  <2>8. End(slot) = slot.start + slot.dur
    BY DEF End
  <2> QED BY <2>1, <2>2, <2>3, <2>4, <2>5, <2>6, <2>7, <2>8 DEF Meets
<1> QED BY <1>1, FormInvariant, PTL

==============================================================================
