----------------------------- MODULE BookingForm -----------------------------
(***************************************************************************)
(* The staff's booking page: the row of a table with its bookings and free  *)
(* slots, and the form that opens on a free slot or on a booking. The form  *)
(* keeps times of day, as its inputs do, and a duration; the instants they  *)
(* stand for are found again from the day of the slot or of the booking.    *)
(*                                                                         *)
(* Instants and durations are numbers of equal units, Hour of them to the   *)
(* hour; midnights are the multiples of Day. The browser is in the venue's  *)
(* zone. Players, amounts and the look of the page are left out.            *)
(***************************************************************************)
EXTENDS Integers, FiniteSetsExt

CONSTANTS
    Hour,        \* units of time to an hour
    MinSlot,     \* 15 minutes: TIMELINE_CONFIG.MIN_SLOT_MINS
    OpenHour,    \* hours of venueStartTime
    CloseHour,   \* hours of venueCloseTime
    Epoch,       \* the instant 0 of the browser: 05:30 in Colombo
    Tables,
    Ids,         \* bound: bookings that can be made
    Others,      \* stays, with their table, that other browsers book
    Clock,       \* bound: instants at which the page is rendered
    Times,       \* bound: times of day that are typed
    Hours,       \* bound: numbers typed into the field of the hours
    Minutes,     \* bound: ... and of the minutes, in units of time
    Buttons,     \* durations of the four buttons
    MaxEffort    \* bound: what the staff do; a form counts 2, a change 1

VARIABLES
    bookings,    \* the timeline of the store: the live bookings of the backend
    now,         \* currentTime
    slot,        \* selectedSlot, with its table
    editing,     \* editingBooking, as it was when it was clicked
    form,        \* checkIn, checkOut and durationMins of the form
    step,        \* "form" or "summary"
    request,     \* the request that waits for its answer
    effort       \* what the staff have done so far

modal == <<slot, editing, form, step>>
vars == <<bookings, now, modal, request, effort>>

Day == 24 * Hour
None == [none |-> TRUE]
Blank == -1                   \* an input of type "time" that is not filled in
End(b) == b.start + b.dur

ASSUME FormAssumption ==
    /\ Hour \in Nat \ {0} /\ MinSlot \in 1..Hour
    /\ OpenHour \in 0..23 /\ CloseHour \in 0..23 /\ Epoch \in 0 .. Day - 1
    /\ Others \subseteq [table : Tables, start : Int, dur : Nat \ {0}]
    /\ Clock \subseteq Int
    /\ \A t \in Clock : t > 2 * Day      \* 1970 is over
    /\ Times \subseteq 0 .. Day - 1
    /\ Hours \subseteq Int /\ Minutes \subseteq Int /\ Buttons \subseteq Int
    /\ MaxEffort \in Nat

(***************************************************************************)
(* Times of day and instants.                                              *)
(***************************************************************************)
TimeOfDay(t) == t % Day

\* A bug: the opening hour of the calendar day.
StartOfCalendarDay(t) == (t \div Day) * Day + OpenHour * Hour

\* The opening hour of the business day of t.
StartOfDay(t) ==
    (t \div Day) * Day + OpenHour * Hour
        - (IF TimeOfDay(t) \div Hour < OpenHour THEN Day ELSE 0)

\* A bug: a time after midnight stays on the day of the opening.
ParseSameDay(val, base) ==
    IF val = Blank THEN Epoch ELSE StartOfDay(base) - OpenHour * Hour + val

ParseTime(val, base) ==
    IF val = Blank THEN Epoch
    ELSE StartOfDay(base) - OpenHour * Hour + val
            + (IF val \div Hour < OpenHour THEN Day ELSE 0)

(***************************************************************************)
(* The row of a table. It ends at the closing hour, later if a booking of   *)
(* any table does, and 20 hours after the opening at the latest. (The page   *)
(* keeps that hour until the bookings change: within a business day it is    *)
(* the same.)                                                                *)
(***************************************************************************)
Row(t) == {b \in bookings : b.table = t}

BaseCloseHour ==
    IF CloseHour = 0 THEN 24
    ELSE IF CloseHour < OpenHour THEN CloseHour + 24 ELSE CloseHour

DynamicCloseHour ==
    LET EndHour(b) == OpenHour - ((StartOfDay(now) - End(b)) \div Hour)
        latest == Max({BaseCloseHour} \cup {EndHour(b) : b \in bookings})
    IN  Min({latest, OpenHour + 20})

CloseTime == StartOfDay(now) + (DynamicCloseHour - OpenHour) * Hour

\* A bug: a slot that has begun is offered from its beginning.
SlotInThePast(from, to) ==
    IF to - from >= MinSlot THEN {[start |-> from, dur |-> to - from]} ELSE {}

SlotIfValid(from, to) ==
    LET start == Max({from, now})
    IN  IF from < to /\ to - start >= MinSlot
        THEN {[start |-> start, dur |-> to - start]} ELSE {}

\* currentCursor, once the pass over the sorted row has been over these bookings.
Cursor(passed) == Max({StartOfDay(now)} \cup {End(b) : b \in passed})
Earlier(b) == {a \in Row(b.table) : a.start < b.start}

FreeSlots(t) ==
    (UNION {SlotIfValid(Cursor(Earlier(b)), b.start) : b \in Row(t)})
        \cup SlotIfValid(Cursor(Row(t)), CloseTime)

(***************************************************************************)
(* The form.                                                               *)
(***************************************************************************)
IsOpen == slot # None \/ editing # None
Base == IF editing # None THEN editing.start ELSE slot.start
Filled(start, dur) ==
    [checkIn |-> TimeOfDay(start), checkOut |-> TimeOfDay(start + dur), dur |-> dur]

\* The stay that the form is read as.
CheckInTime == ParseTime(form.checkIn, Base)
CheckOutTime ==
    LET out == ParseTime(form.checkOut, Base)
    IN  out + (IF out < CheckInTime THEN Day ELSE 0)

Meets(b, start, end) == start < End(b) /\ end > b.start
Overlapped(b) == Meets(b, CheckInTime, CheckOutTime)

\* A bug: the last check is not made.
InSlotAtFirst ==
    /\ CheckInTime >= slot.start - MinSlot
    /\ CheckInTime <= End(slot) - MinSlot
    /\ CheckOutTime >= slot.start

InSlot ==
    /\ CheckInTime >= slot.start - MinSlot
    /\ CheckInTime <= End(slot) - MinSlot
    /\ CheckOutTime >= slot.start
    /\ CheckOutTime <= End(slot)

MayContinue ==
    /\ Blank \notin {form.checkIn, form.checkOut}
    /\ CheckOutTime - CheckInTime >= MinSlot
    /\ IF editing # None
       THEN ~ \E b \in Row(editing.table) : b.id # editing.id /\ Overlapped(b)
       ELSE InSlot

\* The duration that is sent: durationMins || 60.
SentDuration == IF form.dur = 0 THEN Hour ELSE form.dur

Booking == [id : Ids, table : Tables, start : Int, dur : Nat \ {0}]
Slot == [table : Tables, start : Int, dur : Int]
Request == [table : Tables, booking : {None} \cup Booking, start : Int, dur : Int]
Input == {Blank} \cup (0 .. Day - 1)

FormTypeOK ==
    /\ bookings \subseteq Booking /\ IsFiniteSet(bookings)
    /\ now \in Clock
    /\ slot \in {None} \cup Slot
    /\ editing \in {None} \cup Booking
    /\ slot = None \/ editing = None
    /\ form \in [checkIn : Input, checkOut : Input, dur : Int]
    /\ step \in {"form", "summary"}
    /\ step = "summary" /\ IsOpen => Blank \notin {form.checkIn, form.checkOut}
    /\ request \in {None} \cup Request
    /\ effort \in 0 .. MaxEffort

Init ==
    /\ bookings = {} /\ now \in Clock
    /\ slot = None /\ editing = None
    /\ form = [checkIn |-> Blank, checkOut |-> Blank, dur |-> Hour]
    /\ step = "form"
    /\ request = None
    /\ effort = 0

(***************************************************************************)
(* Other browsers and the clock. The backend refuses what overlaps, and     *)
(* the timeline it pushes replaces the one of the page.                     *)
(***************************************************************************)
Vacant(t, start, end, but) ==
    \A b \in Row(t) : b.id # but => ~Meets(b, start, end)

OthersBook ==
    \E s \in Others, id \in Ids :
        /\ \A b \in bookings : b.id # id
        /\ Vacant(s.table, s.start, End(s), id)
        /\ bookings' = bookings \cup
              {[id |-> id, table |-> s.table, start |-> s.start, dur |-> s.dur]}
        /\ UNCHANGED <<now, modal, request, effort>>

CancelBooking ==
    \E b \in bookings :
        /\ b.start >= now
        /\ bookings' = bookings \ {b}
        /\ UNCHANGED <<now, modal, request, effort>>

Tick ==
    /\ \E t \in Clock : t > now /\ now' = t
    /\ UNCHANGED <<bookings, modal, request, effort>>

(***************************************************************************)
(* The staff at the form.                                                  *)
(***************************************************************************)
Open(s, e, f) ==
    /\ ~IsOpen /\ effort + 2 <= MaxEffort
    /\ slot' = s /\ editing' = e /\ form' = f /\ step' = "form"
    /\ effort' = effort + 2
    /\ UNCHANGED <<bookings, now, request>>

OpenSlot ==
    \E t \in Tables : \E s \in FreeSlots(t) :
        Open([table |-> t, start |-> s.start, dur |-> s.dur], None, Filled(s.start, Hour))

OpenBooking ==
    \E b \in bookings : Open(None, b, Filled(b.start, b.dur))

Type(f) ==
    /\ IsOpen /\ step = "form"
    /\ effort < MaxEffort
    /\ form' = f
    /\ effort' = effort + 1
    /\ UNCHANGED <<bookings, now, slot, editing, step, request>>

ChangeCheckIn(val) ==
    Type([form EXCEPT
        !.checkIn = val,
        !.checkOut = IF form.dur > 0 THEN TimeOfDay(ParseTime(val, Base) + form.dur) ELSE @])

ChangeDuration(dur) ==
    Type([form EXCEPT
        !.dur = dur,
        !.checkOut = IF dur > 0 /\ form.checkIn # Blank THEN TimeOfDay(CheckInTime + dur) ELSE @])

\* The two fields of the duration: each keeps the other's part of it.
RestOfHour == IF form.dur < 0 THEN - ((- form.dur) % Hour) ELSE form.dur % Hour
TypeDuration ==
    \/ \E h \in Hours : ChangeDuration(h * Hour + RestOfHour)
    \/ \E m \in Minutes : ChangeDuration((form.dur \div Hour) * Hour + m)
    \/ \E d \in Buttons : ChangeDuration(d)

\* A bug: the duration is left as it was.
ChangeCheckOutOnly(val) == Type([form EXCEPT !.checkOut = val])

ChangeCheckOut(val) ==
    LET diff == ParseTime(val, Base) - CheckInTime
    IN  Type([form EXCEPT
            !.checkOut = val,
            !.dur = IF form.checkIn = Blank THEN @
                    ELSE diff + (IF diff < 0 THEN Day ELSE 0)])

Submit ==
    /\ IsOpen /\ step = "form"
    /\ MayContinue
    /\ step' = "summary"
    /\ UNCHANGED <<bookings, now, slot, editing, form, request, effort>>

Back ==
    /\ IsOpen /\ step = "summary"
    /\ step' = "form"
    /\ UNCHANGED <<bookings, now, slot, editing, form, request, effort>>

Close ==
    /\ IsOpen
    /\ slot' = None /\ editing' = None
    /\ UNCHANGED <<bookings, now, form, step, request, effort>>

\* What is sent: a new booking of the table, or both times of the one edited.
Payload ==
    [table |-> IF editing # None THEN editing.table ELSE slot.table,
     booking |-> editing, start |-> CheckInTime, dur |-> SentDuration]

Confirm ==
    /\ IsOpen /\ step = "summary"
    /\ request = None
    /\ request' = Payload
    /\ slot' = None /\ editing' = None
    /\ UNCHANGED <<bookings, now, form, step, effort>>

(***************************************************************************)
(* The answer. handleCreateBooking and handleUpdateBooking close the form   *)
(* once more, whichever form is open by then; an error is only logged.      *)
(***************************************************************************)
Accepted ==
    /\ request # None
    /\ request.dur > 0
    /\ IF request.booking = None
       THEN \E id \in Ids :
              /\ \A b \in bookings : b.id # id
              /\ Vacant(request.table, request.start, End(request), id)
              /\ bookings' = bookings \cup
                    {[id |-> id, table |-> request.table,
                      start |-> request.start, dur |-> request.dur]}
              /\ slot' = None /\ UNCHANGED editing
       ELSE \E b \in bookings :
              /\ b.id = request.booking.id
              /\ Vacant(b.table, request.start, End(request), b.id)
              /\ bookings' = (bookings \ {b}) \cup
                    {[b EXCEPT !.start = request.start, !.dur = request.dur]}
              /\ editing' = None /\ UNCHANGED slot
    /\ request' = None
    /\ UNCHANGED <<now, form, step, effort>>

Refused ==
    /\ request # None
    /\ request' = None
    /\ UNCHANGED <<bookings, now, modal, effort>>

Next ==
    \/ OthersBook \/ CancelBooking \/ Tick
    \/ OpenSlot \/ OpenBooking \/ Close
    \/ \E val \in Times \cup {Blank} : ChangeCheckIn(val) \/ ChangeCheckOut(val)
    \/ TypeDuration
    \/ Submit \/ Back \/ Confirm
    \/ Accepted \/ Refused

Spec == Init /\ [][Next]_vars

(***************************************************************************)
(* Properties.                                                             *)
(***************************************************************************)

\* What calculateFreeSlots finds with its cursor are exactly the gaps of the
\* row: from now or the end of a booking to the end of the row or the start
\* of a booking, free of bookings, and no shorter than a quarter of an hour.
SlotsAreTheGaps ==
    \A t \in Tables :
        LET from == {now} \cup {End(b) : b \in Row(t)}
            until == {b.start : b \in Row(t)}
        IN  FreeSlots(t) =
              {[start |-> g[1], dur |-> g[2] - g[1]] :
                 g \in {p \in from \X (until \cup {Max({CloseTime} \cup until)}) :
                          /\ p[1] >= now
                          /\ p[2] - p[1] >= MinSlot
                          /\ \A b \in Row(t) : ~Meets(b, p[1], p[2])}}

\* What Confirm sends is the stay that was validated and that the summary
\* shows for review, whatever was typed in whatever order, unless the
\* duration is not that of a stay: a duration of 0, which is sent as an hour,
\* a negative one, or one of a day and more.
ReviewIsSent ==
    (IsOpen /\ step = "summary" /\ form.dur > 0 /\ form.dur < Day) =>
        CheckInTime + SentDuration = CheckOutTime

\* An edit in which no time is changed sends back the times of the booking,
\* on whichever side of midnight or of the opening hour they are: writing
\* them as times of day and reading them again loses nothing.
UntouchedEditKeeps ==
    (editing # None /\ form = Filled(editing.start, editing.dur)) =>
        CheckInTime = editing.start /\ SentDuration = editing.dur

\* The form that opens on a free slot of an hour or more can be submitted as
\* it is: its validation accepts what the row offers.
OfferIsAccepted ==
    (slot # None /\ slot.dur >= Hour /\ form = Filled(slot.start, Hour)) => MayContinue

\* A creation that has been validated against a slot which the row still
\* offers clashes with a booking only by checking in before the slot starts,
\* by a quarter of an hour at most.
OnlyEarlyClashes ==
    (slot # None /\ step = "summary"
       /\ [start |-> slot.start, dur |-> slot.dur] \in FreeSlots(slot.table)) =>
        \A b \in Row(slot.table) :
            Overlapped(b) => End(b) <= slot.start /\ End(b) > slot.start - MinSlot

==============================================================================
