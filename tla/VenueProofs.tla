----------------------------- MODULE VenueProofs -----------------------------
(***************************************************************************)
(* Theorems about the booking service composed with the scheduler, for      *)
(* every set of tables, bookings, requests and goroutines.                  *)
(*                                                                         *)
(* The service's invariant IInv survives the composition, because it asks   *)
(* nothing of the cache but its type.  NotBeforeCheckIn is not inductive: a *)
(* goroutine carries a check-in time, or a booking found to be running, for *)
(* several steps before it lights the table.  WatchInv says what those      *)
(* locals are worth: times and bookings that the history knows.             *)
(***************************************************************************)
EXTENDS VenueWatch, BookingServiceProofs

\* Booking k has had a check-in time that has passed.
Lit(k) == k \in Ids /\ \E i \in ins[k] : i <= now

GoodEntry(e) == e \in Entry /\ (e.id # NoId => Lit(e.id))

\* What the locals of a goroutine say of the booking they name.
Knows(v) ==
    /\ v \in Worker
    /\ v.at \in {"find", "decide", "set", "store", "activate"} => v.id \in Ids
    /\ v.at = "decide" => v.when \in ins[v.id]
    /\ v.at = "activate" => Lit(v.id)

Started == [id : Ids, when : Times]

HistoryInv ==
    /\ ins \in [Ids -> SUBSET Times]
    /\ \A k \in Ids : db[k].status # "ABSENT" => db[k].in \in ins[k]

RequestKnows ==
    \A r \in Requests :
        pc[r] = "sync" => req[r].id \in Ids /\ fresh[r].in \in ins[req[r].id]

CacheInv == cache \in [Tables -> Entry] /\ \A t \in Tables : GoodEntry(cache[t])

TimersInv ==
    /\ timers \in [Tables -> [Kinds -> Timer]]
    /\ armed \in [Tables -> [Kinds -> SUBSET Started]]

WorkersInv == wk \in [Workers -> Worker] /\ \A w \in Workers : Knows(wk[w])

RoundInv ==
    /\ todo \subseteq Tables
    /\ round \in Times /\ round <= now
    /\ booting \in BOOLEAN

WatchInv ==
    /\ IInv
    /\ HistoryInv
    /\ RequestKnows
    /\ CacheInv
    /\ TimersInv
    /\ WorkersInv
    /\ RoundInv

------------------------------------------------------------------------------
(* Types. *)

LEMMA TimeFacts == /\ 0 \in Times /\ Times \subseteq Nat
                   /\ \A n \in 0..MaxNow : n \in Times
BY TimesAssumption, MaxNowAssumption

LEMMA AnyTableType == AnyTable \in Tables
BY TablesAssumption DEF AnyTable

LEMMA OffType == Off \in Worker
BY AnyTableType, TimeFacts DEF Off, Worker, WorkerLabels, Kinds

\* What ClearTable, Fire and VenueRestart leave of a goroutine's locals.
LEMMA RestingKnows ==
    ASSUME NEW t \in Tables, NEW label \in WorkerLabels,
           label \notin {"find", "decide", "set", "store", "activate"}
    PROVE  Knows([Off EXCEPT !.at = label, !.table = t])
<1>1. [Off EXCEPT !.at = label, !.table = t] \in Worker
  BY OffType DEF Worker
<1>2. [Off EXCEPT !.at = label, !.table = t].at = label
  BY DEF Off
<1> QED
  BY <1>1, <1>2 DEF Knows

LEMMA DoneKnows == ASSUME NEW w \in Workers PROVE Knows(Done(w))
<1>1. Done(w) \in Worker /\ Done(w).at \in {"off", "loop"}
  BY OffType DEF Done, Worker, WorkerLabels, Off
<1> QED
  BY <1>1 DEF Knows

LEMMA AvailableIsGood == GoodEntry(Available)
BY TimeFacts DEF Available, GoodEntry, Entry

DatabaseKnown == db \in [Ids -> Booking] /\ now \in Nat /\ HistoryInv

LEMMA WatchKnowsDatabase == WatchInv => DatabaseKnown
BY MaxNowAssumption DEF WatchInv, IInv, TypeOK, DatabaseKnown

\* A booking that a query for running bookings found has begun.
LEMMA CurrentIsLit ==
    ASSUME DatabaseKnown, NEW t \in Tables, NEW n \in Nat, n <= now,
           NEW k \in Current(t, n)
    PROVE  Lit(k) /\ GoodEntry(Shown(k, db[k])) /\ k \in Ids /\ db[k].out \in Times
<1>1. k \in Ids /\ db[k].status = "ACTIVE" /\ db[k].in <= n
  BY DEF Current, Covers
<1>2. db[k] \in Booking /\ now \in Nat
  BY <1>1 DEF DatabaseKnown
<1>3. db[k].in \in ins[k] /\ db[k].in \in Nat /\ db[k].out \in Times
  BY <1>1, <1>2, TimeFacts DEF DatabaseKnown, HistoryInv, Booking
<1>4. db[k].in <= now
  BY <1>1, <1>2, <1>3
<1>5. Lit(k)
  BY <1>1, <1>3, <1>4 DEF Lit
<1>6. Shown(k, db[k]) \in Entry /\ Shown(k, db[k]).id = k
  BY <1>1, <1>3 DEF Shown, Entry
<1> QED
  BY <1>1, <1>3, <1>5, <1>6 DEF GoodEntry

LEMMA HydratedIsGood ==
    ASSUME DatabaseKnown
    PROVE  Hydrated \in [Tables -> Entry] /\ \A t \in Tables : GoodEntry(Hydrated[t])
<1>1. ASSUME NEW t \in Tables PROVE GoodEntry(Hydrated[t])
  <2>1. CASE Current(t, now) = {}
    BY <2>1, AvailableIsGood DEF Hydrated
  <2>2. CASE Current(t, now) # {}
    <3> DEFINE k == CHOOSE k \in Current(t, now) : TRUE
    <3>1. k \in Current(t, now)
      BY <2>2
    <3>2. Hydrated[t] = Shown(k, db[k])
      BY <2>2 DEF Hydrated
    <3>3. now \in Nat /\ now <= now
      BY DEF DatabaseKnown
    <3> HIDE DEF k
    <3> QED
      BY <3>1, <3>2, <3>3, CurrentIsLit
  <2> QED
    BY <2>1, <2>2
<1>2. Hydrated = [t \in Tables |-> Hydrated[t]]
  BY DEF Hydrated
<1> QED
  BY <1>1, <1>2 DEF GoodEntry

------------------------------------------------------------------------------
(* Steps of the goroutines. *)

\* One goroutine moves on; cache and timers stay good.
Kept(w) ==
    /\ \E v : Knows(v) /\ wk' = [wk EXCEPT ![w] = v]
    /\ cache' \in [Tables -> Entry] /\ \A t \in Tables : GoodEntry(cache'[t])
    /\ timers' \in [Tables -> [Kinds -> Timer]]
    /\ armed' \in [Tables -> [Kinds -> SUBSET Started]]

\* A step that only moves the goroutine on.
LEMMA MoveKept ==
    ASSUME WatchInv, NEW w \in Workers, NEW v, Knows(v), Become(w, v),
           UNCHANGED <<cache, timers, armed>>
    PROVE  Kept(w)
BY DEF WatchInv, CacheInv, TimersInv, Become, Kept

LEMMA RescheduleKnows ==
    ASSUME WatchInv, NEW w \in Workers
    PROVE  Knows([Off EXCEPT !.at = "clear", !.table = wk[w].table])
<1>1. wk[w].table \in Tables /\ "clear" \in WorkerLabels
  BY DEF WatchInv, WorkersInv, Worker, WorkerLabels
<1> QED
  BY <1>1, RestingKnows

\* The locals with which RescheduleTable and the callbacks call setXTimer.
LEMMA SettingKnows ==
    ASSUME WatchInv, NEW w \in Workers, NEW kind \in Kinds, NEW k \in Ids,
           NEW when \in Times
    PROVE  Knows(Setting(w, kind, k, when))
<1>1. wk[w].table \in Tables
  BY DEF WatchInv, WorkersInv, Worker
<1>2. /\ Setting(w, kind, k, when) \in Worker
      /\ Setting(w, kind, k, when).at = "set"
      /\ Setting(w, kind, k, when).id = k
  BY <1>1, OffType DEF Setting, Worker, WorkerLabels
<1> QED
  BY <1>2 DEF Knows

LEMMA FireKept ==
    ASSUME WatchInv, NEW w \in Workers, Fire(w)
    PROVE  Kept(w)
<1>1. PICK t \in Tables, kind \in Kinds : \E timer \in armed[t][kind] :
        /\ armed' = [armed EXCEPT ![t][kind] = @ \ {timer}]
        /\ timers' = [timers EXCEPT ![t][kind] = Unset]
        /\ Become(w, [Off EXCEPT !.at = IF kind = "start" THEN "find" ELSE "look",
                                 !.table = t, !.id = timer.id])
  BY DEF Fire
<1>2. PICK timer \in armed[t][kind] :
        /\ armed' = [armed EXCEPT ![t][kind] = @ \ {timer}]
        /\ timers' = [timers EXCEPT ![t][kind] = Unset]
        /\ Become(w, [Off EXCEPT !.at = IF kind = "start" THEN "find" ELSE "look",
                                 !.table = t, !.id = timer.id])
  BY <1>1
<1> DEFINE label == IF kind = "start" THEN "find" ELSE "look"
           v == [Off EXCEPT !.at = label, !.table = t, !.id = timer.id]
<1>3. timer.id \in Ids
  BY <1>1 DEF WatchInv, TimersInv, Started
<1>4. label \in WorkerLabels
  BY DEF WorkerLabels
<1>5. v \in Worker /\ v.at = label /\ v.id = timer.id
  <2> HIDE DEF label
  <2> QED
    BY <1>3, <1>4, OffType DEF Worker
<1>6. Knows(v)
  BY <1>3, <1>5 DEF Knows
<1>7. Unset \in Timer
  BY TimeFacts DEF Unset, Timer
<1>8. timers' \in [Tables -> [Kinds -> Timer]]
  BY <1>1, <1>7 DEF WatchInv, TimersInv
<1>9. armed' \in [Tables -> [Kinds -> SUBSET Started]]
  BY <1>2 DEF WatchInv, TimersInv
<1>10. UNCHANGED cache
  BY DEF Fire
<1>11. wk' = [wk EXCEPT ![w] = v]
  BY <1>2 DEF Become
<1> HIDE DEF v
<1> QED
  BY <1>6, <1>8, <1>9, <1>10, <1>11 DEF Kept, WatchInv, CacheInv

LEMMA FindBookingKept ==
    ASSUME WatchInv, NEW w \in Workers, FindBooking(w)
    PROVE  Kept(w)
<1> DEFINE b == db[wk[w].id]
<1>1. wk[w] \in Worker /\ wk[w].at = "find" /\ wk[w].id \in Ids
  BY DEF WatchInv, WorkersInv, Knows, FindBooking, WorkerAt
<1>2. UNCHANGED <<cache, timers, armed>>
  BY DEF FindBooking
<1>3. CASE b.status = "ACTIVE"
  <2> DEFINE v == [wk[w] EXCEPT !.at = "decide", !.when = b.in, !.out = b.out]
  <2>1. b \in Booking /\ b.in \in ins[wk[w].id]
    BY <1>1, <1>3 DEF WatchInv, IInv, TypeOK, HistoryInv
  <2>2. v \in Worker /\ v.at = "decide" /\ v.when = b.in /\ v.id = wk[w].id
    BY <1>1, <2>1 DEF Worker, WorkerLabels, Booking
  <2>3. Knows(v)
    BY <1>1, <2>1, <2>2 DEF Knows
  <2>4. Become(w, v)
    BY <1>3 DEF FindBooking
  <2> QED
    BY <1>2, <2>3, <2>4, MoveKept
<1>4. CASE b.status # "ACTIVE"
  BY <1>2, <1>4, RescheduleKnows, MoveKept DEF FindBooking, Reschedule
<1> QED
  BY <1>3, <1>4

LEMMA DecideKept ==
    ASSUME WatchInv, NEW w \in Workers, Decide(w)
    PROVE  Kept(w)
<1>1. /\ wk[w] \in Worker /\ wk[w].at = "decide" /\ wk[w].id \in Ids
      /\ wk[w].when \in ins[wk[w].id]
  BY DEF WatchInv, WorkersInv, Knows, Decide, WorkerAt
<1>2. CASE wk[w].when <= now /\ wk[w].out > now
  <2> DEFINE e == [id |-> wk[w].id, out |-> wk[w].out]
             v == [wk[w] EXCEPT !.at = "set", !.kind = "end", !.when = wk[w].out,
                                !.out = 0]
  <2>1. GoodEntry(e)
    BY <1>1, <1>2 DEF GoodEntry, Lit, Entry, Worker
  <2>2. cache' = [cache EXCEPT ![wk[w].table] = e]
    BY <1>2 DEF Decide
  <2>3. v \in Worker /\ v.at = "set" /\ v.id = wk[w].id
    BY <1>1, TimeFacts DEF Worker, WorkerLabels, Kinds
  <2>4. Knows(v)
    BY <1>1, <2>3 DEF Knows
  <2>5. wk' = [wk EXCEPT ![w] = v] /\ UNCHANGED <<timers, armed>>
    BY <1>2 DEF Decide, Become
  <2>6. cache' \in [Tables -> Entry] /\ \A t \in Tables : GoodEntry(cache'[t])
    <3> HIDE DEF e
    <3> QED
      BY <2>1, <2>2 DEF WatchInv, CacheInv, GoodEntry
  <2> HIDE DEF v
  <2> QED
    BY <2>4, <2>5, <2>6 DEF Kept, WatchInv, TimersInv
<1>3. CASE ~(wk[w].when <= now /\ wk[w].out > now)
  <2>1. Reschedule(w) /\ UNCHANGED <<cache, timers, armed>>
    BY <1>3 DEF Decide
  <2> QED
    BY <2>1, RescheduleKnows, MoveKept DEF Reschedule
<1> QED
  BY <1>2, <1>3

LEMMA LookKept ==
    ASSUME WatchInv, NEW w \in Workers, Look(w)
    PROVE  Kept(w)
<1> DEFINE label == IF cache[wk[w].table].id = wk[w].id THEN "deactivate" ELSE "chain"
           v == [wk[w] EXCEPT !.at = label]
<1>1. wk[w] \in Worker /\ label \in {"deactivate", "chain"}
  BY DEF WatchInv, WorkersInv
<1>2. Become(w, v) /\ UNCHANGED <<cache, timers, armed>>
  BY DEF Look, Move
<1>3. Knows(v)
  <2> HIDE DEF label
  <2> QED
    BY <1>1 DEF Knows, Worker, WorkerLabels
<1> HIDE DEF v
<1> QED
  BY <1>2, <1>3, MoveKept

LEMMA TimerDeactivatesKept ==
    ASSUME WatchInv, NEW w \in Workers, TimerDeactivates(w)
    PROVE  Kept(w)
<1> DEFINE v == [wk[w] EXCEPT !.at = "chain"]
<1>1. Knows(v)
  BY DEF WatchInv, WorkersInv, Knows, Worker, WorkerLabels
<1>2. wk' = [wk EXCEPT ![w] = v] /\ UNCHANGED <<timers, armed>>
  BY DEF TimerDeactivates, Move, Become
<1>3. cache' = [cache EXCEPT ![wk[w].table] = Available]
  BY DEF TimerDeactivates
<1>4. cache' \in [Tables -> Entry] /\ \A t \in Tables : GoodEntry(cache'[t])
  BY <1>3, AvailableIsGood DEF WatchInv, CacheInv, GoodEntry
<1> HIDE DEF v
<1> QED
  BY <1>1, <1>2, <1>4 DEF Kept, WatchInv, TimersInv

LEMMA ClearTableKept ==
    ASSUME WatchInv, NEW w \in Workers, ClearTable(w)
    PROVE  Kept(w)
<1> DEFINE v == [Off EXCEPT !.at = "current", !.table = wk[w].table]
<1>1. wk[w].table \in Tables /\ "current" \in WorkerLabels
  BY DEF WatchInv, WorkersInv, Worker, WorkerLabels
<1>2. Knows(v)
  BY <1>1, RestingKnows
<1>3. wk' = [wk EXCEPT ![w] = v] /\ UNCHANGED cache
  BY DEF ClearTable, Become
<1>4. Unset \in Timer
  BY TimeFacts DEF Unset, Timer
<1>5. timers' \in [Tables -> [Kinds -> Timer]]
  <2>1. [kind \in Kinds |-> Unset] \in [Kinds -> Timer]
    BY <1>4
  <2>2. timers' = [timers EXCEPT ![wk[w].table] = [kind \in Kinds |-> Unset]]
    BY DEF ClearTable
  <2> QED
    BY <2>1, <2>2 DEF WatchInv, TimersInv
<1>6. armed' \in [Tables -> [Kinds -> SUBSET Started]]
  <2> DEFINE rest == [kind \in Kinds |-> armed[wk[w].table][kind]
                                            \ {timers[wk[w].table][kind]}]
  <2>1. armed' = [armed EXCEPT ![wk[w].table] = rest]
    BY <1>1 DEF ClearTable, WatchInv, TimersInv
  <2>2. rest \in [Kinds -> SUBSET Started]
    BY <1>1 DEF WatchInv, TimersInv
  <2> HIDE DEF rest
  <2> QED
    BY <2>1, <2>2 DEF WatchInv, TimersInv
<1> HIDE DEF v
<1> QED
  BY <1>2, <1>3, <1>5, <1>6 DEF Kept, WatchInv, CacheInv

LEMMA FindActiveKept ==
    ASSUME WatchInv, NEW w \in Workers, FindActive(w)
    PROVE  Kept(w)
<1>1. UNCHANGED <<cache, timers, armed>> /\ wk[w] \in Worker /\ now \in Times
  BY TimeFacts DEF FindActive, WatchInv, WorkersInv, IInv, TypeOK
<1>2. ASSUME NEW k \in Current(wk[w].table, now),
             Become(w, Setting(w, "end", k, db[k].out))
      PROVE  Kept(w)
  <2>1. k \in Ids
    BY DEF Current
  <2>2. db[k].out \in Times
    BY <2>1 DEF WatchInv, IInv, TypeOK, Booking
  <2>3. Knows(Setting(w, "end", k, db[k].out))
    BY <2>1, <2>2, SettingKnows DEF Kinds
  <2> QED
    BY <1>1, <1>2, <2>3, MoveKept
<1>3. ASSUME Become(w, [wk[w] EXCEPT !.at = "upcoming", !.n = now]) PROVE Kept(w)
  <2>1. Knows([wk[w] EXCEPT !.at = "upcoming", !.n = now])
    BY <1>1 DEF Knows, Worker, WorkerLabels
  <2> QED
    BY <1>1, <1>3, <2>1, MoveKept
<1> QED
  BY <1>2, <1>3 DEF FindActive

LEMMA FindUpcomingKept ==
    ASSUME WatchInv, NEW w \in Workers, FindUpcoming(w)
    PROVE  Kept(w)
<1> DEFINE n == IF wk[w].at = "chain" THEN now ELSE wk[w].n
<1>1. UNCHANGED <<cache, timers, armed>>
  BY DEF FindUpcoming
<1>2. ASSUME NEW k \in Upcoming(wk[w].table, n),
             Become(w, Setting(w, "start", k, db[k].in))
      PROVE  Kept(w)
  <2>1. k \in Ids
    BY DEF Upcoming
  <2>2. db[k].in \in Times
    BY <2>1 DEF WatchInv, IInv, TypeOK, Booking
  <2>3. Knows(Setting(w, "start", k, db[k].in))
    BY <2>1, <2>2, SettingKnows DEF Kinds
  <2> QED
    BY <1>1, <1>2, <2>3, MoveKept
<1>3. ASSUME Become(w, Done(w)) PROVE Kept(w)
  BY <1>1, <1>3, DoneKnows, MoveKept
<1> QED
  BY <1>2, <1>3 DEF FindUpcoming

LEMMA SetTimerKept ==
    ASSUME WatchInv, NEW w \in Workers, SetTimer(w)
    PROVE  Kept(w)
<1> DEFINE t == wk[w].table
           kind == wk[w].kind
           v == [wk[w] EXCEPT !.at = "store"]
           timer == [id |-> wk[w].id, when |-> wk[w].when]
<1>1. wk[w] \in Worker /\ wk[w].id \in Ids
  BY DEF WatchInv, WorkersInv, Knows, SetTimer, WorkerAt
<1>2. t \in Tables /\ kind \in Kinds /\ timer \in Started
  BY <1>1 DEF Worker, Started
<1>3. /\ armed' = [armed EXCEPT ![t][kind] = (@ \ {timers[t][kind]}) \cup {timer}]
      /\ timers' = [timers EXCEPT ![t][kind] = Unset]
      /\ wk' = [wk EXCEPT ![w] = v]
      /\ UNCHANGED cache
  BY DEF SetTimer, Move, Become
<1>4. Knows(v)
  BY <1>1 DEF Knows, Worker, WorkerLabels
<1>5. Unset \in Timer
  BY TimeFacts DEF Unset, Timer
<1> HIDE DEF t, kind, v, timer
<1>6. timers' \in [Tables -> [Kinds -> Timer]]
  BY <1>2, <1>3, <1>5 DEF WatchInv, TimersInv
<1>7. armed' \in [Tables -> [Kinds -> SUBSET Started]]
  BY <1>2, <1>3 DEF WatchInv, TimersInv
<1> QED
  BY <1>3, <1>4, <1>6, <1>7 DEF Kept, WatchInv, CacheInv

LEMMA StoreTimerKept ==
    ASSUME WatchInv, NEW w \in Workers, StoreTimer(w)
    PROVE  Kept(w)
<1> DEFINE t == wk[w].table
           kind == wk[w].kind
           timer == [id |-> wk[w].id, when |-> wk[w].when]
           stored == IF timer \in armed[t][kind] THEN timer ELSE Unset
<1>1. t \in Tables /\ kind \in Kinds /\ timer \in Timer
  BY DEF WatchInv, WorkersInv, Worker, Timer
<1>2. stored \in Timer
  BY <1>1, TimeFacts DEF Unset, Timer
<1>3. /\ timers' = [timers EXCEPT ![t][kind] = stored]
      /\ wk' = [wk EXCEPT ![w] = Done(w)]
      /\ UNCHANGED <<cache, armed>>
  BY DEF StoreTimer, Become
<1> HIDE DEF t, kind, timer, stored
<1>4. timers' \in [Tables -> [Kinds -> Timer]]
  BY <1>1, <1>2, <1>3 DEF WatchInv, TimersInv
<1> QED
  BY <1>3, <1>4, DoneKnows DEF Kept, WatchInv, CacheInv, TimersInv

LEMMA GiveUpKept ==
    ASSUME WatchInv, NEW w \in Workers, GiveUp(w)
    PROVE  Kept(w)
BY DoneKnows, MoveKept DEF GiveUp

LEMMA MainIsAWorker == Main \in Workers /\ \A v : Become(Main, v) <=> wk' = [wk EXCEPT ![Main] = v]
BY DEF Workers, Become

RoundKept == todo' \subseteq Tables /\ round' \in Times /\ round' <= now
                /\ booting' \in BOOLEAN

LEMMA ReconcileKept ==
    ASSUME WatchInv, Reconcile
    PROVE  Kept(Main) /\ RoundKept
<1>1. /\ Main \in Workers /\ wk[Main] \in Worker /\ wk[Main].table \in Tables
      /\ now \in Times /\ now \in Nat /\ round \in Nat
  BY MainIsAWorker, TimeFacts, MaxNowAssumption
     DEF WatchInv, WorkersInv, Worker, RoundInv, IInv, TypeOK
<1>2. CASE StartRound
  <2>1. Knows([wk[Main] EXCEPT !.at = "loop"])
    BY <1>1 DEF Knows, Worker, WorkerLabels
  <2>2. Kept(Main)
    BY <1>1, <1>2, <2>1, MoveKept DEF StartRound, Move
  <2> QED
    BY <1>1, <1>2, <2>2 DEF StartRound, RoundKept, WatchInv, RoundInv
<1>3. CASE NextTable
  <2>1. PICK t \in todo : Become(Main, [Off EXCEPT !.table = t, !.at = Inspected(t)])
    BY <1>3 DEF NextTable
  <2>2. t \in Tables
    BY DEF WatchInv, RoundInv
  <2>3. Inspected(t) \in {"clear", "findActive", "expire", "loop"}
    BY DEF Inspected
  <2> DEFINE v == [Off EXCEPT !.table = t, !.at = Inspected(t)]
  <2>4. v \in Worker /\ v.at = Inspected(t)
    BY <2>2, <2>3, OffType DEF Worker, WorkerLabels
  <2>5. Knows(v)
    BY <2>3, <2>4 DEF Knows
  <2>6. Kept(Main)
    BY <1>1, <1>3, <2>1, <2>5, MoveKept DEF NextTable
  <2> QED
    BY <1>3, <2>6 DEF NextTable, RoundKept, WatchInv, RoundInv
<1>4. CASE EndRound
  <2>1. [Off EXCEPT !.at = "idle"] \in Worker /\ [Off EXCEPT !.at = "idle"].at = "idle"
    BY OffType DEF Worker, WorkerLabels
  <2>2. Knows([Off EXCEPT !.at = "idle"])
    BY <2>1 DEF Knows
  <2>3. Kept(Main)
    BY <1>1, <1>4, <2>2, MoveKept DEF EndRound
  <2>4. todo' = todo /\ round' = 0 /\ booting' = FALSE /\ 0 <= now
    BY <1>1, <1>4 DEF EndRound
  <2>5. todo' \subseteq Tables /\ round' \in Times /\ round' <= now
    BY <2>4, TimeFacts DEF WatchInv, RoundInv
  <2> QED
    BY <2>3, <2>4, <2>5, Zenon DEF RoundKept
<1>5. CASE Expire
  <2>1. cache' = [cache EXCEPT ![wk[Main].table] = Available]
    BY <1>5 DEF Expire
  <2>2. cache' \in [Tables -> Entry] /\ \A t \in Tables : GoodEntry(cache'[t])
    BY <2>1, AvailableIsGood DEF WatchInv, CacheInv, GoodEntry
  <2>3. Kept(Main)
    BY <1>1, <1>5, <2>2, RescheduleKnows
       DEF Expire, Reschedule, Become, Kept, WatchInv, TimersInv
  <2> QED
    BY <1>5, <2>3 DEF Expire, RoundKept, WatchInv, RoundInv
<1>6. CASE ReconcileFind
  <2>1. ASSUME NEW k \in Current(wk[Main].table, round),
               Become(Main, [Off EXCEPT !.at = "activate", !.id = k,
                               !.table = wk[Main].table, !.out = db[k].out])
        PROVE  Kept(Main)
    <3> DEFINE v == [Off EXCEPT !.at = "activate", !.id = k,
                               !.table = wk[Main].table, !.out = db[k].out]
    <3>1. Lit(k) /\ k \in Ids /\ db[k].out \in Times
      BY <1>1, CurrentIsLit, WatchKnowsDatabase DEF WatchInv, RoundInv
    <3>2. v \in Worker /\ v.at = "activate" /\ v.id = k
      BY <1>1, <3>1, OffType DEF Worker, WorkerLabels
    <3>3. Knows(v)
      BY <3>1, <3>2 DEF Knows
    <3> QED
      BY <1>1, <1>6, <2>1, <3>3, MoveKept DEF ReconcileFind
  <2>2. ASSUME Become(Main, Done(Main)) PROVE Kept(Main)
    BY <1>1, <1>6, <2>2, DoneKnows, MoveKept DEF ReconcileFind
  <2> QED
    BY <1>6, <2>1, <2>2 DEF ReconcileFind, RoundKept, WatchInv, RoundInv
<1>7. CASE ReconcileActivates
  <2> DEFINE e == [id |-> wk[Main].id, out |-> wk[Main].out]
  <2>1. Lit(wk[Main].id)
    BY <1>1, <1>7 DEF ReconcileActivates, WorkerAt, WatchInv, WorkersInv, Knows
  <2>2. GoodEntry(e)
    BY <1>1, <2>1 DEF GoodEntry, Entry, Worker
  <2>3. cache' = [cache EXCEPT ![wk[Main].table] = e]
    BY <1>7 DEF ReconcileActivates
  <2>4. cache' \in [Tables -> Entry] /\ \A t \in Tables : GoodEntry(cache'[t])
    <3> HIDE DEF e
    <3> QED
      BY <2>2, <2>3 DEF WatchInv, CacheInv, GoodEntry
  <2>5. Kept(Main)
    BY <1>1, <1>7, <2>4, RescheduleKnows
       DEF ReconcileActivates, Reschedule, Become, Kept, WatchInv, TimersInv
  <2> QED
    BY <1>7, <2>5 DEF ReconcileActivates, RoundKept, WatchInv, RoundInv
<1> QED
  BY <1>2, <1>3, <1>4, <1>5, <1>6, <1>7 DEF Reconcile

------------------------------------------------------------------------------
(* From the step of a part to the step of the whole. *)

Grows ==
    /\ now <= now'
    /\ \A k \in Ids : ins[k] \subseteq ins'[k]
    /\ HistoryInv'

LEMMA LitStays ==
    ASSUME WatchInv, Grows, now' \in Nat, NEW k, Lit(k)
    PROVE  Lit(k)'
<1>1. PICK i \in ins[k] : i <= now
  BY DEF Lit
<1>2. k \in Ids /\ i \in ins'[k] /\ i \in Nat /\ now \in Nat
  BY TimeFacts, MaxNowAssumption
     DEF Lit, Grows, WatchInv, HistoryInv, IInv, TypeOK
<1>3. i <= now'
  BY <1>1, <1>2 DEF Grows
<1> QED
  BY <1>2, <1>3 DEF Lit

\* A step of the goroutines, seen by the service, changes only the cache.
LEMMA CacheChange ==
    ASSUME IInv, UNCHANGED <<now, db, mutex, pc, req, fresh>>,
           cache' \in [Tables -> Entry]
    PROVE  IInv'
<1>1. TypeOK'
  BY DEF IInv, TypeOK
<1>2. ASSUME NEW r \in Requests PROVE RequestInv(r)'
  BY DEF IInv, RequestInv, Holds, Fetched, Copied, Checked, InSection,
         InHandler, MayUpdate, NewIn, NewOut, Given, HasOverlap
<1>3. ProperStays' /\ NoDoubleBooking'
  BY DEF IInv, ProperStays, NoDoubleBooking, Live
<1> QED
  BY <1>1, <1>2, <1>3 DEF IInv

\* The history only grows, and it knows what the database holds.
LEMMA HistoryGrows ==
    ASSUME WatchInv, IInv', now' = now \/ now' = now + 1,
           ins' = [k \in Ids |-> ins[k] \cup Recorded'[k]]
    PROVE  Grows /\ now' \in Nat
<1>1. ASSUME NEW k \in Ids
      PROVE  /\ Recorded'[k] \subseteq Times
             /\ db'[k].status # "ABSENT" => db'[k].in \in Recorded'[k]
  <2>1. db'[k] \in Booking
    BY DEF IInv, TypeOK
  <2>2. Recorded'[k] = IF db'[k].status = "ABSENT" THEN {} ELSE {db'[k].in}
    BY DEF Recorded
  <2> QED
    BY <2>1, <2>2 DEF Booking
<1>2. HistoryInv'
  BY <1>1 DEF WatchInv, HistoryInv
<1>3. now \in Nat /\ now' \in Nat
  BY MaxNowAssumption DEF WatchInv, IInv, TypeOK
<1> QED
  BY <1>2, <1>3 DEF Grows, WatchInv, HistoryInv

\* What has been shown unprimed of the new state is true of it.
LEMMA Lift ==
    ASSUME WatchInv, Grows, now' \in Nat
    PROVE  /\ \A e : GoodEntry(e) => GoodEntry(e)'
           /\ \A v : Knows(v) => Knows(v)'
<1>1. ASSUME NEW e, GoodEntry(e) PROVE GoodEntry(e)'
  BY <1>1, LitStays DEF GoodEntry
<1>2. ASSUME NEW v, Knows(v) PROVE Knows(v)'
  BY <1>2, LitStays DEF Knows, Grows
<1> QED
  BY <1>1, <1>2

\* A step of a goroutine, in the composition.
LEMMA GoroutineStep ==
    ASSUME WatchInv, NEW w \in Workers, Kept(w), RoundKept, ServiceIdle,
           ins' = [k \in Ids |-> ins[k] \cup Recorded'[k]]
    PROVE  WatchInv'
<1>1. UNCHANGED <<now, db, mutex, pc, req, fresh>>
  BY DEF ServiceIdle
<1>2. IInv'
  BY <1>1, CacheChange DEF WatchInv, Kept
<1>3. Grows /\ now' \in Nat
  BY <1>1, <1>2, HistoryGrows
<1>4. HistoryInv' /\ RoundInv'
  BY <1>1, <1>3 DEF Grows, RoundKept, RoundInv
<1>5. RequestKnows'
  BY <1>1, <1>3 DEF WatchInv, RequestKnows, Grows
<1>6. CacheInv'
  <2> SUFFICES ASSUME NEW t \in Tables PROVE GoodEntry(cache[t])'
    BY DEF Kept, CacheInv
  <2>1. PICK e : e = cache'[t]
    OBVIOUS
  <2>2. GoodEntry(e)'
    BY <1>3, <2>1, Lift DEF Kept
  <2> QED
    BY <2>1, <2>2
<1>7. TimersInv'
  BY DEF Kept, TimersInv
<1>8. WorkersInv'
  <2>1. PICK v : Knows(v) /\ wk' = [wk EXCEPT ![w] = v]
    BY DEF Kept
  <2>2. v \in Worker
    BY <2>1 DEF Knows
  <2>3. wk' \in [Workers -> Worker]
    BY <2>1, <2>2 DEF WatchInv, WorkersInv
  <2>4. ASSUME NEW x \in Workers PROVE Knows(wk[x])'
    <3>1. PICK u : u = wk'[x]
      OBVIOUS
    <3>2. Knows(u)
      BY <2>1, <3>1 DEF WatchInv, WorkersInv
    <3>3. Knows(u)'
      BY <1>3, <3>2, Lift
    <3> QED
      BY <3>1, <3>3
  <2> QED
    BY <2>3, <2>4 DEF WorkersInv
<1> QED
  BY <1>2, <1>4, <1>5, <1>6, <1>7, <1>8 DEF WatchInv

\* A step of the service: the scheduler's variables stay.
LEMMA SchedulerStays ==
    ASSUME WatchInv, IInv', Grows, now' \in Nat, UNCHANGED schedVars,
           RequestKnows', CacheInv'
    PROVE  WatchInv'
<1>1. RoundInv'
  <2>1. round \in Nat /\ now \in Nat
    BY TimeFacts, MaxNowAssumption DEF WatchInv, RoundInv, IInv, TypeOK
  <2>2. round' <= now'
    BY <2>1 DEF WatchInv, RoundInv, Grows, schedVars
  <2> QED
    BY <2>2 DEF WatchInv, RoundInv, schedVars
<1>2. TimersInv'
  BY DEF WatchInv, TimersInv, schedVars
<1>3. WorkersInv'
  <2>1. wk' = wk /\ wk \in [Workers -> Worker]
    BY DEF schedVars, WatchInv, WorkersInv
  <2>2. ASSUME NEW x \in Workers PROVE Knows(wk[x])'
    <3>1. PICK u : u = wk[x]
      OBVIOUS
    <3>2. Knows(u)'
      BY <3>1, Lift DEF WatchInv, WorkersInv
    <3> QED
      BY <2>1, <3>1, <3>2
  <2> QED
    BY <2>1, <2>2 DEF WorkersInv
<1> QED
  BY <1>1, <1>2, <1>3 DEF WatchInv, Grows

\* A cache that a step of the service has left alone stays good.
LEMMA CacheStays ==
    ASSUME WatchInv, Grows, now' \in Nat, UNCHANGED cache
    PROVE  CacheInv'
<1> SUFFICES ASSUME NEW t \in Tables PROVE GoodEntry(cache[t])'
  BY DEF WatchInv, CacheInv
<1>1. PICK e : e = cache[t]
  OBVIOUS
<1>2. GoodEntry(e)'
  BY <1>1, Lift DEF WatchInv, CacheInv
<1> QED
  BY <1>1, <1>2

LEMMA ClockKeeps ==
    ASSUME WatchInv, ClockStep,
           ins' = [k \in Ids |-> ins[k] \cup Recorded'[k]]
    PROVE  WatchInv'
<1>1. IInv' /\ now' = now + 1 /\ UNCHANGED <<db, pc, req, fresh, cache, schedVars>>
  BY TickStep DEF ClockStep, WatchInv, Tick
<1>2. Grows /\ now' \in Nat
  BY <1>1, HistoryGrows
<1>3. RequestKnows'
  BY <1>1, <1>2 DEF WatchInv, RequestKnows, Grows
<1> QED
  BY <1>1, <1>2, <1>3, CacheStays, SchedulerStays

LEMMA RequestKeeps ==
    ASSUME WatchInv, NEW r \in Requests, RequestStep(r),
           ins' = [k \in Ids |-> ins[k] \cup Recorded'[k]]
    PROVE  WatchInv'
<1>1. Handle(r) /\ UNCHANGED schedVars
  BY DEF RequestStep
<1>2. IInv'
  BY <1>1, StepIInv DEF WatchInv, Next
<1>3. now' = now
  BY <1>1 DEF Handle, Proceed, Submit, Lock, Fetch, Refetch, Check, Write, Sync,
              Deactivate, Finish, Fail, WriteUnanswered
<1>4. Grows /\ now' \in Nat
  BY <1>2, <1>3, HistoryGrows
<1>5. /\ pc \in [Requests -> Labels] /\ req \in [Requests -> Request]
      /\ fresh \in [Requests -> Booking] /\ db \in [Ids -> Booking]
  BY DEF WatchInv, IInv, TypeOK
<1>6. CASE Write(r)
  <2>1. PICK k \in Target(r) : /\ db' = [db EXCEPT ![k] = Saved(r)]
                               /\ req' = [req EXCEPT ![r].id = k]
    BY <1>6 DEF Write
  <2>2. /\ pc[r] = "write" /\ pc' = [pc EXCEPT ![r] = "sync"]
        /\ fresh' = [fresh EXCEPT ![r] = Saved(r)] /\ UNCHANGED cache
    BY <1>6 DEF Write, At, Goto
  <2>3. k \in Ids
    BY <2>2 DEF WatchInv, IInv, RequestInv, Fetched, Target, Unused
  <2>4. Saved(r) \in Booking /\ Saved(r).status # "ABSENT"
    BY <2>2, SavedType DEF WatchInv
  <2>5. db'[k] = Saved(r) /\ fresh'[r] = Saved(r) /\ req'[r].id = k
    BY <1>5, <2>1, <2>2, <2>3 DEF Request
  <2>6. Saved(r).in \in ins'[k]
    BY <1>4, <2>3, <2>4, <2>5 DEF Grows, HistoryInv
  <2>7. \A s \in Requests \ {r} :
          pc'[s] = pc[s] /\ req'[s] = req[s] /\ fresh'[s] = fresh[s]
    BY <1>5, <2>1, <2>2
  <2>8. RequestKnows'
    BY <1>4, <2>3, <2>5, <2>6, <2>7 DEF WatchInv, RequestKnows, Grows
  <2> QED
    BY <1>1, <1>2, <1>4, <2>2, <2>8, CacheStays, SchedulerStays
<1>7. CASE ~Write(r)
  <2>1. /\ pc' \in [Requests -> Labels] /\ pc'[r] # "sync"
        /\ \A s \in Requests \ {r} :
             pc'[s] = pc[s] /\ req'[s] = req[s] /\ fresh'[s] = fresh[s]
    <3>1. ASSUME Forget(r)
          PROVE  pc'[r] # "sync" /\ \A s \in Requests \ {r} :
                     pc'[s] = pc[s] /\ req'[s] = req[s] /\ fresh'[s] = fresh[s]
      BY <1>5, <3>1 DEF Forget, Goto
    <3>2. pc' \in [Requests -> Labels]
      BY <1>2 DEF IInv, TypeOK
    <3>3. CASE Submit(r)
      BY <1>5, <3>2, <3>3 DEF Submit, Goto
    <3>4. CASE Lock(r)
      BY <1>5, <3>2, <3>4 DEF Lock, Goto
    <3>5. CASE Fetch(r)
      BY <1>5, <3>1, <3>2, <3>5 DEF Fetch, Goto
    <3>6. CASE Refetch(r)
      BY <1>5, <3>1, <3>2, <3>6 DEF Refetch, Return, Goto
    <3>7. CASE Check(r)
      BY <1>5, <3>1, <3>2, <3>7 DEF Check, Return, Goto
    <3>8. CASE Sync(r) \/ Deactivate(r)
      BY <1>5, <3>2, <3>8 DEF Sync, Deactivate, Goto
    <3>9. CASE Finish(r) \/ Fail(r) \/ WriteUnanswered(r)
      BY <3>1, <3>2, <3>9 DEF Finish, Fail, WriteUnanswered, Return
    <3> QED
      BY <1>1, <1>7, <3>3, <3>4, <3>5, <3>6, <3>7, <3>8, <3>9 DEF Handle, Proceed
  <2>2. RequestKnows'
    BY <1>4, <2>1 DEF WatchInv, RequestKnows, Grows
  <2>3. CacheInv'
    <3>1. CASE UNCHANGED cache
      BY <1>4, <3>1, CacheStays
    <3>2. ASSUME NEW t \in Tables, NEW e, GoodEntry(e),
                 cache' = [cache EXCEPT ![t] = e]
          PROVE  CacheInv'
      <4> SUFFICES ASSUME NEW u \in Tables PROVE GoodEntry(cache[u])'
        BY <3>2 DEF WatchInv, CacheInv, GoodEntry
      <4>1. PICK f : f = cache'[u]
        OBVIOUS
      <4>2. GoodEntry(f)
        BY <3>2, <4>1 DEF WatchInv, CacheInv
      <4>3. GoodEntry(f)'
        BY <1>4, <4>2, Lift
      <4> QED
        BY <4>1, <4>3
    <3>3. req[r].table \in Tables
      BY <1>5 DEF Request
    <3>4. CASE Deactivate(r)
      BY <3>2, <3>3, <3>4, AvailableIsGood DEF Deactivate
    <3>5. CASE Sync(r) /\ cache' # cache
      <4>1. /\ pc[r] = "sync" /\ Covers(fresh[r], now)
            /\ cache' = [cache EXCEPT ![req[r].table] = Shown(req[r].id, fresh[r])]
        BY <3>5 DEF Sync, At
      <4>2. Lit(req[r].id)
        BY <4>1 DEF WatchInv, RequestKnows, Covers, Lit
      <4>3. GoodEntry(Shown(req[r].id, fresh[r]))
        BY <1>5, <4>2 DEF GoodEntry, Entry, Shown, Booking, Lit
      <4> QED
        BY <3>2, <3>3, <4>1, <4>3
    <3>6. ASSUME ~Sync(r), ~Deactivate(r) PROVE UNCHANGED cache
      BY <1>1, <3>6 DEF Handle, Proceed, Submit, Lock, Fetch, Refetch, Check,
                        Write, Finish, Fail, WriteUnanswered
    <3> QED
      BY <3>1, <3>4, <3>5, <3>6
  <2> QED
    BY <1>1, <1>2, <1>4, <2>2, <2>3, SchedulerStays
<1> QED
  BY <1>6, <1>7

LEMMA BootedKnows == Booted \in [Workers -> Worker] /\ \A w \in Workers : Knows(Booted[w])
<1>1. ASSUME NEW w \in Workers PROVE Booted[w] \in Worker /\ Booted[w].at \in {"off", "loop"}
  BY OffType DEF Booted, Worker, WorkerLabels, Off
<1>2. Booted = [w \in Workers |-> Booted[w]]
  BY DEF Booted
<1> QED
  BY <1>1, <1>2 DEF Knows

LEMMA NoTimersType == /\ NoTimers \in [Tables -> [Kinds -> Timer]]
                      /\ NoneArmed \in [Tables -> [Kinds -> SUBSET Started]]
<1>1. Unset \in Timer
  BY TimeFacts DEF Unset, Timer
<1> QED
  BY <1>1 DEF NoTimers, NoneArmed

LEMMA RestartKeeps ==
    ASSUME WatchInv, VenueRestart,
           ins' = [k \in Ids |-> ins[k] \cup Recorded'[k]]
    PROVE  WatchInv'
<1>1. IInv' /\ now' = now /\ db' = db
  BY RestartStep DEF VenueRestart, WatchInv, Restart
<1>2. Grows /\ now' \in Nat
  BY <1>1, HistoryGrows
<1>3. RequestKnows'
  BY DEF VenueRestart, Restart, RequestKnows
<1>4. CacheInv'
  <2>1. cache' \in [Tables -> Entry] /\ \A t \in Tables : GoodEntry(cache'[t])
    <3>1. CASE cache' = Hydrated
      BY <3>1, HydratedIsGood, WatchKnowsDatabase
    <3>2. CASE cache' = [t \in Tables |-> Available]
      BY <3>2, AvailableIsGood DEF GoodEntry
    <3> QED
      BY <3>1, <3>2 DEF VenueRestart, Restart
  <2> SUFFICES ASSUME NEW t \in Tables PROVE GoodEntry(cache[t])'
    BY <2>1 DEF CacheInv
  <2>2. PICK e : e = cache'[t]
    OBVIOUS
  <2>3. GoodEntry(e)'
    BY <1>2, <2>1, <2>2, Lift
  <2> QED
    BY <2>2, <2>3
<1>5. TimersInv'
  BY NoTimersType DEF VenueRestart, TimersInv
<1>6. WorkersInv'
  <2>1. wk' = Booted
    BY DEF VenueRestart
  <2>2. ASSUME NEW w \in Workers PROVE Knows(wk[w])'
    <3>1. PICK v : v = wk'[w]
      OBVIOUS
    <3>2. Knows(v)'
      BY <1>2, <2>1, <3>1, BootedKnows, Lift
    <3> QED
      BY <3>1, <3>2
  <2> QED
    BY <2>1, <2>2, BootedKnows DEF WorkersInv
<1>7. RoundInv'
  <2>1. todo' = Tables /\ round' = 0 /\ booting' = TRUE
    BY DEF VenueRestart
  <2>2. todo' \subseteq Tables /\ round' \in Times /\ round' <= now'
    BY <1>2, <2>1, TimeFacts
  <2> QED
    BY <2>1, <2>2, Zenon DEF RoundInv
<1> QED
  BY <1>1, <1>2, <1>3, <1>4, <1>5, <1>6, <1>7 DEF WatchInv, Grows

LEMMA WatchInitInv == WatchInit => WatchInv
<1> SUFFICES ASSUME WatchInit PROVE WatchInv
  OBVIOUS
<1> USE DEF WatchInit, VenueInit
<1>1. /\ db \in [Ids -> Booking] /\ ProperStays /\ NoDoubleBooking
  BY InitialDbsAssumption DEF ProperStays, NoDoubleBooking, Live
<1>2. HistoryInv
  <2>1. ins = [k \in Ids |-> IF db[k].status = "ABSENT" THEN {} ELSE {db[k].in}]
    BY DEF Recorded
  <2>2. \A k \in Ids : db[k].in \in Times
    BY <1>1 DEF Booking
  <2> QED
    BY <2>1, <2>2 DEF HistoryInv
<1>3. now = 0 /\ now \in Nat /\ now \in 0..MaxNow
  BY MaxNowAssumption
<1>4. CacheInv
  BY <1>1, <1>2, <1>3, HydratedIsGood DEF CacheInv, DatabaseKnown
<1>5. TypeOK
  BY <1>1, <1>3, <1>4, BlankType, NoRequestType DEF TypeOK, Labels, CacheInv
<1>6. IInv
  BY <1>1, <1>5, NoRequestType
     DEF IInv, RequestInv, Holds, Fetched, Copied, Checked, InSection, InHandler
<1>7. RequestKnows
  BY DEF RequestKnows
<1>8. TimersInv /\ WorkersInv
  BY NoTimersType, BootedKnows DEF TimersInv, WorkersInv
<1>9. RoundInv
  <2>1. todo \subseteq Tables /\ round \in Times /\ round <= now
    BY TimeFacts
  <2>2. booting \in BOOLEAN
    BY Zenon
  <2> QED
    BY <2>1, <2>2 DEF RoundInv
<1> QED
  BY <1>2, <1>4, <1>6, <1>7, <1>8, <1>9 DEF WatchInv

LEMMA WatchStep == WatchInv /\ [WatchNext]_watchVars => WatchInv'
<1> SUFFICES ASSUME WatchInv, [WatchNext]_watchVars PROVE WatchInv'
  OBVIOUS
<1>1. CASE WatchNext
  <2>1. ins' = [k \in Ids |-> ins[k] \cup Recorded'[k]] /\ VenueNext
    BY <1>1 DEF WatchNext
  <2>2. ASSUME NEW w \in Workers, CallbackStep(w) \/ GiveUpStep(w) PROVE WatchInv'
    <3>1. Kept(w)
      BY <2>2, FireKept, FindBookingKept, DecideKept, LookKept,
         TimerDeactivatesKept, ClearTableKept, FindActiveKept, FindUpcomingKept,
         SetTimerKept, StoreTimerKept, GiveUpKept
         DEF CallbackStep, WorkerStep, GiveUpStep
    <3>2. ServiceIdle /\ UNCHANGED <<todo, round, booting>>
      BY <2>2 DEF CallbackStep, GiveUpStep
    <3>3. RoundKept
      BY <3>2 DEF RoundKept, WatchInv, RoundInv
    <3> QED
      BY <2>1, <3>1, <3>2, <3>3, GoroutineStep
  <2>3. CASE ReconcileStep
    BY <2>1, <2>3, ReconcileKept, GoroutineStep, MainIsAWorker DEF ReconcileStep
  <2> QED
    BY <2>1, <2>2, <2>3, ClockKeeps, RestartKeeps, RequestKeeps DEF VenueNext
<1>2. CASE UNCHANGED watchVars
  <2>1. UNCHANGED vars /\ UNCHANGED <<timers, armed, wk, todo, round, booting, ins>>
    BY <1>2 DEF watchVars, venueVars, schedVars
  <2>2. IInv'
    BY <2>1, TickStep DEF WatchInv
  <2>3. HistoryInv' /\ RequestKnows' /\ CacheInv'
    BY <2>1 DEF vars, WatchInv, HistoryInv, RequestKnows, CacheInv, GoodEntry, Lit
  <2>4. TimersInv' /\ WorkersInv' /\ RoundInv'
    BY <2>1 DEF vars, WatchInv, TimersInv, WorkersInv, RoundInv, Knows, Lit
  <2> QED
    BY <2>2, <2>3, <2>4 DEF WatchInv
<1> QED
  BY <1>1, <1>2

\* Types, the service's invariant and what the goroutines know.
THEOREM WatchInvariant == WatchSpec => []WatchInv
<1> QED
  BY WatchInitInv, WatchStep, PTL DEF WatchSpec

\* No table is lit before a check-in time of the booking it is lit for, for any
\* number of tables, requests and callbacks, whatever fails and restarts.
THEOREM NeverEarly == WatchSpec => []NotBeforeCheckIn
<1>1. WatchInv => NotBeforeCheckIn
  BY DEF WatchInv, CacheInv, GoodEntry, Lit, NotBeforeCheckIn
<1> QED
  BY <1>1, WatchInvariant, PTL

\* The scheduler, which takes no mutex, does not break what the mutexes are for:
\* beside it the service still books no table twice, and still saves only what
\* it has just read.
THEOREM VenueNeverDoubleBooked == WatchSpec => [](NoDoubleBooking /\ FreshIsCurrent)
<1>1. WatchInv => NoDoubleBooking /\ FreshIsCurrent
  BY DEF WatchInv, IInv, RequestInv, Copied, FreshIsCurrent
<1> QED
  BY <1>1, WatchInvariant, PTL

\* Every variable of the composition keeps its type.
THEOREM VenueTypes == WatchSpec => []VenueTypeOK
<1>1. WatchInv => VenueTypeOK
  <2> SUFFICES ASSUME WatchInv PROVE VenueTypeOK
    OBVIOUS
  <2>1. Started \subseteq Timer
    BY DEF Started, Timer
  <2>2. TypeOK /\ timers \in [Tables -> [Kinds -> Timer]] /\ wk \in [Workers -> Worker]
    BY DEF WatchInv, IInv, TimersInv, WorkersInv
  <2>3. armed \in [Tables -> [Kinds -> SUBSET Timer]]
    BY <2>1 DEF WatchInv, TimersInv
  <2>4. todo \subseteq Tables /\ round \in Times /\ booting \in BOOLEAN
    BY DEF WatchInv, RoundInv
  <2> QED
    BY <2>2, <2>3, <2>4 DEF VenueTypeOK
<1> QED
  BY <1>1, WatchInvariant, PTL
------------------------------------------------------------------------------
(* The ledger beside the scheduler. *)

\* Every step of the composition is, for the database, one of the service or none.
LEMMA VenueStepIsLedgerStep == WatchInv /\ [WatchNext]_watchVars => [Ledger!Next]_db
<1> SUFFICES ASSUME WatchInv, [WatchNext]_watchVars PROVE Ledger!Next \/ UNCHANGED db
  OBVIOUS
<1>1. CASE ClockStep \/ VenueRestart \/ \E r \in Requests : RequestStep(r)
  BY <1>1, StepIsLedgerStep
     DEF WatchInv, Next, ClockStep, VenueRestart, RequestStep
<1>2. CASE \/ \E w \in Workers : CallbackStep(w) \/ GiveUpStep(w)
           \/ ReconcileStep
  BY <1>2 DEF CallbackStep, GiveUpStep, ReconcileStep, ServiceIdle
<1>3. CASE UNCHANGED watchVars
  BY <1>3 DEF watchVars, venueVars, vars
<1> QED
  BY <1>1, <1>2, <1>3 DEF WatchNext, VenueNext

\* Also beside the scheduler, whatever the first boot found: the database changes
\* by single steps of the ledger, and a cancelled booking stays as it is.
THEOREM VenueKeepsLedger == WatchSpec => [][Ledger!Next]_db /\ CancelledForever
<1>1. WatchInv /\ [WatchNext]_watchVars =>
        [\A k \in Ids : db[k].status = "CANCELLED" => db'[k] = db[k]]_vars
  <2> SUFFICES ASSUME WatchInv, [WatchNext]_watchVars, NEW k \in Ids,
                      db[k].status = "CANCELLED"
               PROVE  db'[k] = db[k]
    OBVIOUS
  <2> QED
    BY VenueStepIsLedgerStep, LedgerKeepsCancelled DEF WatchInv
<1> QED
  BY <1>1, VenueStepIsLedgerStep, WatchInvariant, PTL DEF WatchSpec, CancelledForever

------------------------------------------------------------------------------
(* Each table its own bookings. *)

\* k is, or was, a booking of table t.
OwnBooking(k, t) == k \in Ids /\ db[k].status # "ABSENT" /\ db[k].table = t

\* A timer of t is for a booking of t, a start timer for one of its check-in times.
OwnTimer(t, kind, timer) ==
    /\ OwnBooking(timer.id, t)
    /\ kind = "start" => timer.when \in ins[timer.id]

OwnEntries == \A t \in Tables : cache[t].id # NoId => OwnBooking(cache[t].id, t)
OwnTimers ==
    \A t \in Tables, kind \in Kinds : \A timer \in armed[t][kind] : OwnTimer(t, kind, timer)

\* What a table shows and what its timers are for.
EachTableItsOwn == OwnEntries /\ OwnTimers

\* A goroutine that names a booking names one of the table it works for.
OwnWorker(v) ==
    /\ v.at \in {"find", "decide", "set", "store", "activate"} => OwnBooking(v.id, v.table)
    /\ v.at \in {"set", "store"} /\ v.kind = "start" => v.when \in ins[v.id]

OwnRequest(r) == pc[r] = "sync" => OwnBooking(req[r].id, req[r].table)

OwnInv ==
    /\ EachTableItsOwn
    /\ \A w \in Workers : OwnWorker(wk[w])
    /\ \A r \in Requests : OwnRequest(r)

\* No booking moves to another table, and the history only grows.
LEMMA OwnStays ==
    ASSUME WatchInv, [WatchNext]_watchVars
    PROVE  /\ \A k, t : OwnBooking(k, t) => OwnBooking(k, t)'
           /\ \A t, kind, timer : OwnTimer(t, kind, timer) => OwnTimer(t, kind, timer)'
           /\ \A v : OwnWorker(v) => OwnWorker(v)'
<1>1. db \in [Ids -> Booking] /\ ins \in [Ids -> SUBSET Times]
  BY DEF WatchInv, IInv, TypeOK, HistoryInv
<1>2. ASSUME NEW k, NEW t, OwnBooking(k, t) PROVE OwnBooking(k, t)'
  <2>1. Ledger!Next \/ UNCHANGED db
    BY VenueStepIsLedgerStep
  <2>2. ASSUME NEW j \in Ids, NEW b, Ledger!Book(j, b) PROVE OwnBooking(k, t)'
    BY <1>1, <1>2, <2>2 DEF Ledger!Book, OwnBooking
  <2>3. ASSUME NEW j \in Ids, NEW b, Ledger!Patch(j, b) PROVE OwnBooking(k, t)'
    BY <1>1, <1>2, <2>3 DEF Ledger!Patch, OwnBooking
  <2>4. ASSUME NEW j \in Ids, Ledger!Cancel(j) PROVE OwnBooking(k, t)'
    BY <1>1, <1>2, <2>4 DEF Ledger!Cancel, OwnBooking, Booking
  <2> QED
    BY <1>2, <2>1, <2>2, <2>3, <2>4 DEF Ledger!Next, OwnBooking
<1>3. \A k \in Ids : ins[k] \subseteq ins'[k]
  <2>1. CASE WatchNext
    BY <2>1 DEF WatchNext
  <2>2. CASE UNCHANGED watchVars
    BY <2>2 DEF watchVars
  <2> QED
    BY <2>1, <2>2
<1>4. ASSUME NEW t, NEW kind, NEW timer, OwnTimer(t, kind, timer)
      PROVE  OwnTimer(t, kind, timer)'
  BY <1>2, <1>3, <1>4 DEF OwnTimer, OwnBooking
<1>5. ASSUME NEW v, OwnWorker(v) PROVE OwnWorker(v)'
  <2>1. v.at \in {"set", "store"} => v.id \in Ids
    BY <1>5 DEF OwnWorker, OwnBooking
  <2> QED
    BY <1>2, <1>3, <1>5, <2>1 DEF OwnWorker
<1> QED
  BY <1>2, <1>4, <1>5

\* What a step of goroutine w leaves, in the bookings and the history before it.
OwnKept(w) ==
    /\ \E v : OwnWorker(v) /\ wk' = [wk EXCEPT ![w] = v]
    /\ \A t \in Tables : cache'[t].id # NoId => OwnBooking(cache'[t].id, t)
    /\ \A t \in Tables, kind \in Kinds :
         \A timer \in armed'[t][kind] : OwnTimer(t, kind, timer)

LEMMA OwnMove ==
    ASSUME OwnInv, NEW w \in Workers, NEW v, OwnWorker(v), Become(w, v), UNCHANGED <<cache, armed>>
    PROVE  OwnKept(w)
BY DEF OwnInv, EachTableItsOwn, OwnEntries, OwnTimers, OwnKept, Become

\* A goroutine that names no booking.
LEMMA OwnResting ==
    ASSUME NEW v, v.at \notin {"find", "decide", "set", "store", "activate"}
    PROVE  OwnWorker(v)
BY DEF OwnWorker

LEMMA OwnDone == ASSUME NEW w \in Workers PROVE OwnWorker(Done(w)) /\ OwnWorker(Off)
<1>1. Done(w).at \in {"off", "loop"} /\ Off.at = "off"
  BY DEF Done, Off
<1> QED
  BY <1>1, OwnResting

LEMMA OwnReschedule ==
    ASSUME NEW w \in Workers
    PROVE  OwnWorker([Off EXCEPT !.at = "clear", !.table = wk[w].table])
BY OwnResting DEF Off

\* The queries find bookings of the table they are asked for.
LEMMA OwnFound ==
    ASSUME WatchInv, NEW t \in Tables, NEW n
    PROVE  /\ \A k \in Current(t, n) : OwnBooking(k, t)
           /\ \A k \in Upcoming(t, n) : OwnBooking(k, t) /\ db[k].in \in ins[k]
BY DEF Current, Upcoming, OwnBooking, WatchInv, HistoryInv

LEMMA OwnSetting ==
    ASSUME NEW w \in Workers, NEW kind, NEW k, NEW when, OwnBooking(k, wk[w].table),
           kind = "start" => when \in ins[k]
    PROVE  OwnWorker(Setting(w, kind, k, when))
<1>1. /\ Setting(w, kind, k, when).id = k /\ Setting(w, kind, k, when).kind = kind
      /\ Setting(w, kind, k, when).when = when
      /\ Setting(w, kind, k, when).table = wk[w].table
  BY DEF Setting, Off
<1> QED
  BY <1>1 DEF OwnWorker
LEMMA OwnFire == ASSUME WatchInv, OwnInv, NEW w \in Workers, Fire(w) PROVE OwnKept(w)
<1>1. PICK t \in Tables, kind \in Kinds : \E timer \in armed[t][kind] :
        /\ armed' = [armed EXCEPT ![t][kind] = @ \ {timer}]
        /\ Become(w, [Off EXCEPT !.at = IF kind = "start" THEN "find" ELSE "look",
                                 !.table = t, !.id = timer.id])
  BY DEF Fire
<1>2. PICK timer \in armed[t][kind] :
        /\ armed' = [armed EXCEPT ![t][kind] = @ \ {timer}]
        /\ Become(w, [Off EXCEPT !.at = IF kind = "start" THEN "find" ELSE "look",
                                 !.table = t, !.id = timer.id])
  BY <1>1
<1> DEFINE v == [Off EXCEPT !.at = IF kind = "start" THEN "find" ELSE "look",
                            !.table = t, !.id = timer.id]
<1>3. v.at \in {"find", "look"} /\ v.table = t /\ v.id = timer.id
  BY DEF Off
<1>4. OwnBooking(timer.id, t)
  BY <1>2 DEF OwnInv, EachTableItsOwn, OwnTimers, OwnTimer
<1>5. OwnWorker(v)
  <2> HIDE DEF v
  <2> QED
    BY <1>3, <1>4 DEF OwnWorker
<1>6. \A u \in Tables, other \in Kinds : armed'[u][other] \subseteq armed[u][other]
  BY <1>2 DEF WatchInv, TimersInv
<1>7. UNCHANGED cache /\ wk' = [wk EXCEPT ![w] = v]
  BY <1>2 DEF Fire, Become
<1> HIDE DEF v
<1> QED
  BY <1>5, <1>6, <1>7 DEF OwnKept, OwnInv, EachTableItsOwn, OwnEntries, OwnTimers

LEMMA OwnFindBooking ==
    ASSUME WatchInv, OwnInv, NEW w \in Workers, FindBooking(w)
    PROVE  OwnKept(w)
<1> DEFINE b == db[wk[w].id]
           v == [wk[w] EXCEPT !.at = "decide", !.when = b.in, !.out = b.out]
<1>1. wk[w] \in Worker /\ wk[w].at = "find" /\ UNCHANGED <<cache, armed>>
  BY DEF WatchInv, WorkersInv, FindBooking, WorkerAt
<1>2. CASE b.status = "ACTIVE"
  <2>1. v.at = "decide" /\ v.id = wk[w].id /\ v.table = wk[w].table
    BY <1>1 DEF Worker
  <2>2. OwnBooking(wk[w].id, wk[w].table)
    BY <1>1 DEF OwnInv, OwnWorker
  <2>3. Become(w, v)
    BY <1>2 DEF FindBooking
  <2> HIDE DEF v
  <2>4. OwnWorker(v)
    BY <2>1, <2>2 DEF OwnWorker
  <2> QED
    BY <1>1, <2>3, <2>4, OwnMove
<1>3. CASE b.status # "ACTIVE"
  BY <1>1, <1>3, OwnReschedule, OwnMove DEF FindBooking, Reschedule
<1> QED
  BY <1>2, <1>3

LEMMA OwnDecide == ASSUME WatchInv, OwnInv, NEW w \in Workers, Decide(w) PROVE OwnKept(w)
<1>1. wk[w] \in Worker /\ wk[w].at = "decide" /\ UNCHANGED armed
  BY DEF WatchInv, WorkersInv, Decide, WorkerAt
<1>2. CASE wk[w].when <= now /\ wk[w].out > now
  <2> DEFINE v == [wk[w] EXCEPT !.at = "set", !.kind = "end", !.when = wk[w].out, !.out = 0]
  <2>1. v.at = "set" /\ v.kind = "end" /\ v.id = wk[w].id /\ v.table = wk[w].table
    BY <1>1 DEF Worker
  <2>2. OwnBooking(wk[w].id, wk[w].table)
    BY <1>1 DEF OwnInv, OwnWorker
  <2>3. wk' = [wk EXCEPT ![w] = v]
    BY <1>2 DEF Decide, Become
  <2>4. cache' = [cache EXCEPT ![wk[w].table] = [id |-> wk[w].id, out |-> wk[w].out]]
    BY <1>2 DEF Decide
  <2> HIDE DEF v
  <2>5. OwnWorker(v)
    BY <2>1, <2>2 DEF OwnWorker
  <2>6. \A t \in Tables : cache'[t].id # NoId => OwnBooking(cache'[t].id, t)
    BY <2>2, <2>4 DEF WatchInv, CacheInv, OwnInv, EachTableItsOwn, OwnEntries
  <2> QED
    BY <1>1, <2>3, <2>5, <2>6 DEF OwnKept, OwnInv, EachTableItsOwn, OwnTimers
<1>3. CASE ~(wk[w].when <= now /\ wk[w].out > now)
  BY <1>1, <1>3, OwnReschedule, OwnMove DEF Decide, Reschedule
<1> QED
  BY <1>2, <1>3

LEMMA OwnEndFired ==
    ASSUME WatchInv, OwnInv, NEW w \in Workers, Look(w) \/ TimerDeactivates(w)
    PROVE  OwnKept(w)
<1>1. PICK label : Move(w, label) /\ label \in {"deactivate", "chain"}
  BY DEF Look, TimerDeactivates
<1>2. [wk[w] EXCEPT !.at = label].at = label
  BY DEF WatchInv, WorkersInv, Worker
<1>3. OwnWorker([wk[w] EXCEPT !.at = label])
  BY <1>1, <1>2, OwnResting
<1>4. \A t \in Tables : cache'[t].id # NoId => cache'[t] = cache[t]
  BY DEF Look, TimerDeactivates, WatchInv, CacheInv, Available
<1>5. UNCHANGED armed
  BY DEF Look, TimerDeactivates
<1> QED
  BY <1>1, <1>3, <1>4, <1>5
     DEF Move, Become, OwnKept, OwnInv, EachTableItsOwn, OwnEntries, OwnTimers

LEMMA OwnClearTable ==
    ASSUME WatchInv, OwnInv, NEW w \in Workers, ClearTable(w)
    PROVE  OwnKept(w)
<1> DEFINE v == [Off EXCEPT !.at = "current", !.table = wk[w].table]
<1>1. OwnWorker(v)
  BY OwnResting DEF Off
<1>2. wk' = [wk EXCEPT ![w] = v] /\ UNCHANGED cache
  BY DEF ClearTable, Become
<1>3. \A t \in Tables, kind \in Kinds : armed'[t][kind] \subseteq armed[t][kind]
  BY DEF ClearTable, WatchInv, TimersInv
<1> HIDE DEF v
<1> QED
  BY <1>1, <1>2, <1>3 DEF OwnKept, OwnInv, EachTableItsOwn, OwnEntries, OwnTimers

LEMMA OwnFind ==
    ASSUME WatchInv, OwnInv, NEW w \in Workers, FindActive(w) \/ FindUpcoming(w)
    PROVE  OwnKept(w)
<1>1. UNCHANGED <<cache, armed>> /\ wk[w] \in Worker /\ wk[w].table \in Tables
  BY DEF FindActive, FindUpcoming, WatchInv, WorkersInv, Worker
<1>2. ASSUME NEW k \in Current(wk[w].table, now),
             Become(w, Setting(w, "end", k, db[k].out))
      PROVE  OwnKept(w)
  BY <1>1, <1>2, OwnFound, OwnSetting, OwnMove
<1>3. ASSUME Become(w, [wk[w] EXCEPT !.at = "upcoming", !.n = now]) PROVE OwnKept(w)
  <2>1. [wk[w] EXCEPT !.at = "upcoming", !.n = now].at = "upcoming"
    BY <1>1 DEF Worker
  <2> QED
    BY <1>1, <1>3, <2>1, OwnResting, OwnMove
<1>4. ASSUME NEW n, NEW k \in Upcoming(wk[w].table, n),
             Become(w, Setting(w, "start", k, db[k].in))
      PROVE  OwnKept(w)
  BY <1>1, <1>4, OwnFound, OwnSetting, OwnMove
<1>5. ASSUME Become(w, Done(w)) PROVE OwnKept(w)
  BY <1>1, <1>5, OwnDone, OwnMove
<1> QED
  BY <1>2, <1>3, <1>4, <1>5 DEF FindActive, FindUpcoming

LEMMA OwnSetTimer == ASSUME WatchInv, OwnInv, NEW w \in Workers, SetTimer(w) PROVE OwnKept(w)
<1> DEFINE t == wk[w].table
           kind == wk[w].kind
           v == [wk[w] EXCEPT !.at = "store"]
           timer == [id |-> wk[w].id, when |-> wk[w].when]
<1>1. wk[w] \in Worker /\ wk[w].at = "set" /\ UNCHANGED cache
  BY DEF WatchInv, WorkersInv, SetTimer, WorkerAt
<1>2. OwnTimer(t, kind, timer)
  BY <1>1 DEF OwnInv, OwnWorker, OwnTimer
<1>3. v.at = "store" /\ v.id = wk[w].id /\ v.table = t /\ v.kind = kind /\ v.when = wk[w].when
  BY <1>1 DEF Worker
<1>4. OwnWorker(v)
  <2> HIDE DEF v
  <2> QED
    BY <1>2, <1>3 DEF OwnWorker, OwnTimer
<1>5. /\ armed' = [armed EXCEPT ![t][kind] = (@ \ {timers[t][kind]}) \cup {timer}]
      /\ wk' = [wk EXCEPT ![w] = v]
  BY DEF SetTimer, Move, Become
<1>6. \A u \in Tables, other \in Kinds : \A x \in armed'[u][other] :
        x \in armed[u][other] \/ (u = t /\ other = kind /\ x = timer)
  <2> HIDE DEF t, kind, timer
  <2> QED
    BY <1>5 DEF WatchInv, TimersInv
<1> HIDE DEF v, timer
<1> QED
  BY <1>1, <1>2, <1>4, <1>5, <1>6 DEF OwnKept, OwnInv, EachTableItsOwn, OwnEntries, OwnTimers

LEMMA OwnReconcile == ASSUME WatchInv, OwnInv, Reconcile PROVE OwnKept(Main)
<1>1. /\ Main \in Workers /\ wk[Main] \in Worker /\ wk[Main].table \in Tables
      /\ cache \in [Tables -> Entry]
  BY MainIsAWorker DEF WatchInv, WorkersInv, Worker, CacheInv
<1>2. CASE StartRound
  <2>1. [wk[Main] EXCEPT !.at = "loop"].at = "loop"
    BY <1>1 DEF Worker
  <2> QED
    BY <1>1, <1>2, <2>1, OwnResting, OwnMove DEF StartRound, Move
<1>3. CASE NextTable
  <2>1. PICK t \in todo : Become(Main, [Off EXCEPT !.table = t, !.at = Inspected(t)])
    BY <1>3 DEF NextTable
  <2>2. [Off EXCEPT !.table = t, !.at = Inspected(t)].at
          \notin {"find", "decide", "set", "store", "activate"}
    BY DEF Off, Inspected
  <2> QED
    BY <1>1, <1>3, <2>1, <2>2, OwnResting, OwnMove DEF NextTable
<1>4. CASE EndRound
  <2>1. [Off EXCEPT !.at = "idle"].at = "idle"
    BY DEF Off
  <2> QED
    BY <1>1, <1>4, <2>1, OwnResting, OwnMove DEF EndRound
<1>5. CASE Expire
  <2>1. \A t \in Tables : cache'[t].id # NoId => cache'[t] = cache[t]
    BY <1>1, <1>5 DEF Expire, Available
  <2>2. /\ wk' = [wk EXCEPT ![Main] = [Off EXCEPT !.at = "clear", !.table = wk[Main].table]]
        /\ UNCHANGED armed
    BY <1>5 DEF Expire, Reschedule, Become
  <2> QED
    BY <1>1, <2>1, <2>2, OwnReschedule
       DEF OwnKept, OwnInv, EachTableItsOwn, OwnEntries, OwnTimers
<1>6. CASE ReconcileFind
  <2>1. ASSUME NEW k \in Current(wk[Main].table, round),
               Become(Main, [Off EXCEPT !.at = "activate", !.id = k,
                                        !.table = wk[Main].table, !.out = db[k].out])
        PROVE  OwnKept(Main)
    <3> DEFINE v == [Off EXCEPT !.at = "activate", !.id = k,
                                !.table = wk[Main].table, !.out = db[k].out]
    <3>1. v.at = "activate" /\ v.id = k /\ v.table = wk[Main].table
      BY DEF Off
    <3>2. OwnBooking(k, wk[Main].table)
      BY <1>1, OwnFound
    <3>3. OwnWorker(v)
      <4> HIDE DEF v
      <4> QED
        BY <3>1, <3>2 DEF OwnWorker
    <3> QED
      BY <1>1, <1>6, <2>1, <3>3, OwnMove DEF ReconcileFind
  <2>2. ASSUME Become(Main, Done(Main)) PROVE OwnKept(Main)
    BY <1>1, <1>6, <2>2, OwnDone, OwnMove DEF ReconcileFind
  <2> QED
    BY <1>6, <2>1, <2>2 DEF ReconcileFind
<1>7. CASE ReconcileActivates
  <2>1. OwnBooking(wk[Main].id, wk[Main].table)
    BY <1>1, <1>7 DEF ReconcileActivates, WorkerAt, OwnInv, OwnWorker
  <2>2. cache' = [cache EXCEPT ![wk[Main].table] = [id |-> wk[Main].id, out |-> wk[Main].out]]
    BY <1>7 DEF ReconcileActivates
  <2>3. \A t \in Tables : cache'[t].id # NoId => OwnBooking(cache'[t].id, t)
    BY <1>1, <2>1, <2>2 DEF OwnInv, EachTableItsOwn, OwnEntries
  <2>4. /\ wk' = [wk EXCEPT ![Main] = [Off EXCEPT !.at = "clear", !.table = wk[Main].table]]
        /\ UNCHANGED armed
    BY <1>7 DEF ReconcileActivates, Reschedule, Become
  <2> QED
    BY <1>1, <2>3, <2>4, OwnReschedule DEF OwnKept, OwnInv, EachTableItsOwn, OwnTimers
<1> QED
  BY <1>2, <1>3, <1>4, <1>5, <1>6, <1>7 DEF Reconcile

LEMMA OwnGoroutine ==
    ASSUME WatchInv, OwnInv, NEW w \in Workers,
           CallbackStep(w) \/ GiveUpStep(w) \/ (w = Main /\ ReconcileStep)
    PROVE  OwnKept(w)
<1>1. ASSUME StoreTimer(w) \/ GiveUp(w) PROVE OwnKept(w)
  BY <1>1, OwnDone, OwnMove DEF StoreTimer, GiveUp
<1> QED
  BY <1>1, OwnFire, OwnFindBooking, OwnDecide, OwnEndFired, OwnClearTable, OwnFind,
     OwnSetTimer, OwnReconcile DEF CallbackStep, WorkerStep, GiveUpStep, ReconcileStep
\* What the service writes into the cache.
LEMMA OwnRequestStep ==
    ASSUME WatchInv, OwnInv, NEW r \in Requests, Handle(r), [WatchNext]_watchVars
    PROVE  /\ \A t \in Tables : cache'[t].id # NoId => OwnBooking(cache'[t].id, t)
           /\ \A x \in Requests : OwnRequest(x)'
<1>1. /\ pc \in [Requests -> Labels] /\ req \in [Requests -> Request]
      /\ fresh \in [Requests -> Booking] /\ db \in [Ids -> Booking]
      /\ cache \in [Tables -> Entry] /\ IInv
      /\ req[r].table \in Tables
  BY DEF WatchInv, IInv, TypeOK, Request
<1>2. ASSUME NEW x \in Requests, OwnRequest(x),
             pc'[x] = "sync" => pc[x] = "sync" /\ req'[x] = req[x]
      PROVE  OwnRequest(x)'
  <2> SUFFICES ASSUME pc'[x] = "sync" PROVE OwnBooking(req[x].id, req[x].table)'
    BY DEF OwnRequest
  <2>1. PICK q : q = req[x]
    OBVIOUS
  <2>2. OwnBooking(q.id, q.table) /\ req'[x] = q
    BY <1>2, <2>1 DEF OwnRequest
  <2>3. OwnBooking(q.id, q.table)'
    BY <2>2, OwnStays
  <2> QED
    BY <2>2, <2>3
<1>3. CASE Write(r)
  <2>1. PICK k \in Target(r) : /\ db' = [db EXCEPT ![k] = Saved(r)]
                               /\ req' = [req EXCEPT ![r].id = k]
    BY <1>3 DEF Write
  <2>2. /\ pc[r] = "write" /\ pc' = [pc EXCEPT ![r] = "sync"] /\ UNCHANGED cache
    BY <1>3 DEF Write, At, Goto
  <2>3. k \in Ids
    BY <1>1, <2>1, <2>2 DEF Target, Unused, IInv, RequestInv, Fetched
  <2>4. Saved(r) \in Booking /\ Saved(r).table = req[r].table /\ Saved(r).status # "ABSENT"
    BY <1>1, <2>2, SavedType
  <2>5. req'[r].id = k /\ req'[r].table = req[r].table /\ db'[k] = Saved(r)
    BY <1>1, <2>1, <2>3 DEF Request
  <2>6. OwnRequest(r)'
    BY <2>3, <2>4, <2>5 DEF OwnRequest, OwnBooking
  <2>7. ASSUME NEW x \in Requests, x # r PROVE OwnRequest(x)'
    <3>1. pc'[x] = pc[x] /\ req'[x] = req[x]
      BY <1>1, <2>1, <2>2, <2>7
    <3>2. OwnRequest(x)
      BY DEF OwnInv
    <3> QED
      BY <1>2, <3>1, <3>2
  <2> QED
    BY <2>2, <2>6, <2>7 DEF OwnInv, EachTableItsOwn, OwnEntries
<1>4. CASE ~Write(r)
  <2>1. ASSUME NEW x \in Requests PROVE OwnRequest(x)'
    <3>1. pc'[x] = "sync" => pc[x] = "sync" /\ req'[x] = req[x]
      BY <1>1, <1>4 DEF Handle, Proceed, Submit, Lock, Fetch, Refetch, Check, Sync, Deactivate,
                        Finish, Fail, WriteUnanswered, Goto, Forget, Return, At
    <3>2. OwnRequest(x)
      BY DEF OwnInv
    <3> QED
      BY <1>2, <3>1, <3>2
  <2>2. \/ UNCHANGED cache
        \/ cache' = [cache EXCEPT ![req[r].table] = Available]
        \/ /\ pc[r] = "sync"
           /\ cache' = [cache EXCEPT ![req[r].table] = Shown(req[r].id, fresh[r])]
    BY <1>4 DEF Handle, Proceed, Submit, Lock, Fetch, Refetch, Check, Sync, Deactivate,
                Finish, Fail, WriteUnanswered, At
  <2>3. CASE UNCHANGED cache
    BY <2>1, <2>3 DEF OwnInv, EachTableItsOwn, OwnEntries
  <2>4. CASE cache' = [cache EXCEPT ![req[r].table] = Available]
    BY <1>1, <2>1, <2>4 DEF OwnInv, EachTableItsOwn, OwnEntries, Available
  <2>5. CASE /\ pc[r] = "sync"
             /\ cache' = [cache EXCEPT ![req[r].table] = Shown(req[r].id, fresh[r])]
    <3>1. OwnBooking(req[r].id, req[r].table)
      BY <2>5 DEF OwnInv, OwnRequest
    <3> QED
      BY <1>1, <2>1, <2>5, <3>1 DEF OwnInv, EachTableItsOwn, OwnEntries, Shown
  <2> QED
    BY <2>2, <2>3, <2>4, <2>5
<1> QED
  BY <1>3, <1>4

\* What the process has when it boots.
LEMMA OwnBoot ==
    ASSUME WatchInv
    PROVE  /\ \A t \in Tables : Hydrated[t].id # NoId => OwnBooking(Hydrated[t].id, t)
           /\ \A w \in Workers : OwnWorker(Booted[w])
           /\ \A t \in Tables, kind \in Kinds : NoneArmed[t][kind] = {}
<1>1. ASSUME NEW t \in Tables, Hydrated[t].id # NoId PROVE OwnBooking(Hydrated[t].id, t)
  <2>1. Current(t, now) # {}
    BY <1>1 DEF Hydrated, Available
  <2> DEFINE k == CHOOSE k \in Current(t, now) : TRUE
  <2>2. k \in Current(t, now)
    BY <2>1
  <2>3. Hydrated[t] = Shown(k, db[k])
    BY <2>1 DEF Hydrated
  <2> HIDE DEF k
  <2>4. Hydrated[t].id = k
    BY <2>3 DEF Shown
  <2> QED
    BY <2>2, <2>4, OwnFound
<1>2. ASSUME NEW w \in Workers PROVE OwnWorker(Booted[w])
  <2>1. Booted[w].at \in {"loop", "off"}
    BY DEF Booted, Off
  <2> QED
    BY <2>1, OwnResting
<1> QED
  BY <1>1, <1>2 DEF NoneArmed

LEMMA OwnInitInv == WatchInit => OwnInv
<1> SUFFICES ASSUME WatchInit PROVE OwnInv
  OBVIOUS
<1>1. WatchInv
  BY WatchInitInv
<1>2. EachTableItsOwn
  BY <1>1, OwnBoot DEF WatchInit, VenueInit, EachTableItsOwn, OwnEntries, OwnTimers
<1>3. \A w \in Workers : OwnWorker(wk[w])
  BY <1>1, OwnBoot DEF WatchInit, VenueInit
<1>4. \A r \in Requests : OwnRequest(r)
  BY DEF WatchInit, VenueInit, OwnRequest
<1> QED
  BY <1>2, <1>3, <1>4 DEF OwnInv

\* What is so of the new cache, timers and goroutines in the old bookings is so
\* in the new ones.
LEMMA OwnLift ==
    ASSUME WatchInv, [WatchNext]_watchVars,
           \A t \in Tables : cache'[t].id # NoId => OwnBooking(cache'[t].id, t),
           \A t \in Tables, kind \in Kinds :
             \A timer \in armed'[t][kind] : OwnTimer(t, kind, timer),
           \A w \in Workers : OwnWorker(wk'[w]),
           \A r \in Requests : OwnRequest(r)'
    PROVE  OwnInv'
<1>1. ASSUME NEW t \in Tables, cache'[t].id # NoId PROVE OwnBooking(cache[t].id, t)'
  <2>1. PICK k : k = cache'[t].id
    OBVIOUS
  <2>2. OwnBooking(k, t)'
    BY <1>1, <2>1, OwnStays
  <2> QED
    BY <2>1, <2>2
<1>2. ASSUME NEW t \in Tables, NEW kind \in Kinds, NEW timer \in armed'[t][kind]
      PROVE  OwnTimer(t, kind, timer)'
  <2>1. PICK x : x = timer
    OBVIOUS
  <2>2. OwnTimer(t, kind, x)'
    BY <1>2, <2>1, OwnStays
  <2> QED
    BY <2>1, <2>2
<1>3. ASSUME NEW w \in Workers PROVE OwnWorker(wk[w])'
  <2>1. PICK v : v = wk'[w]
    OBVIOUS
  <2>2. OwnWorker(v)'
    BY <2>1, OwnStays
  <2> QED
    BY <2>1, <2>2
<1> QED
  BY <1>1, <1>2, <1>3 DEF OwnInv, EachTableItsOwn, OwnEntries, OwnTimers

LEMMA OwnStep == WatchInv /\ OwnInv /\ [WatchNext]_watchVars => OwnInv'
<1> SUFFICES ASSUME WatchInv, OwnInv, [WatchNext]_watchVars PROVE OwnInv'
  OBVIOUS
<1>1. ASSUME NEW w \in Workers,
             CallbackStep(w) \/ GiveUpStep(w) \/ (w = Main /\ ReconcileStep)
      PROVE  OwnInv'
  <2>1. OwnKept(w)
    BY <1>1, OwnGoroutine
  <2>2. PICK v : OwnWorker(v) /\ wk' = [wk EXCEPT ![w] = v]
    BY <2>1 DEF OwnKept
  <2>3. \A x \in Workers : OwnWorker(wk'[x])
    BY <2>2 DEF OwnInv, WatchInv, WorkersInv
  <2>4. ASSUME NEW r \in Requests PROVE OwnRequest(r)'
    BY <1>1 DEF CallbackStep, GiveUpStep, ReconcileStep, ServiceIdle, OwnInv, OwnRequest, OwnBooking
  <2> QED
    BY <2>1, <2>3, <2>4, OwnLift DEF OwnKept
<1>2. ASSUME NEW r \in Requests, RequestStep(r) PROVE OwnInv'
  <2>1. Handle(r) /\ UNCHANGED <<armed, wk>>
    BY <1>2 DEF RequestStep, schedVars
  <2> QED
    BY <2>1, OwnRequestStep, OwnLift DEF OwnInv, EachTableItsOwn, OwnTimers
<1>3. CASE ClockStep \/ UNCHANGED watchVars
  <2>1. UNCHANGED <<cache, armed, wk, pc, req, db>>
    BY <1>3 DEF ClockStep, Tick, watchVars, venueVars, schedVars, vars
  <2>2. ASSUME NEW r \in Requests PROVE OwnRequest(r)'
    BY <2>1 DEF OwnInv, OwnRequest, OwnBooking
  <2> QED
    BY <2>1, <2>2, OwnLift DEF OwnInv, EachTableItsOwn, OwnEntries, OwnTimers
<1>4. CASE VenueRestart
  <2>1. /\ cache' \in {Hydrated, [t \in Tables |-> Available]}
        /\ armed' = NoneArmed /\ wk' = Booted
        /\ pc' = [r \in Requests |-> "idle"]
    BY <1>4 DEF VenueRestart, Restart
  <2>2. \A t \in Tables : cache'[t].id # NoId => OwnBooking(cache'[t].id, t)
    BY <2>1, OwnBoot DEF Available
  <2>3. \A r \in Requests : OwnRequest(r)'
    BY <2>1 DEF OwnRequest
  <2> QED
    BY <2>1, <2>2, <2>3, OwnBoot, OwnLift
<1> QED
  BY <1>1, <1>2, <1>3, <1>4, MainIsAWorker DEF WatchNext, VenueNext

\* For any number of tables, whatever timers are lost, stopped late or fire while
\* another goroutine sets them: a table shows only its own bookings, each timer
\* is for a booking of its own table, and each start timer for a check-in
\* time that its booking has had.
THEOREM TablesKeepTheirOwn == WatchSpec => []EachTableItsOwn
<1>1. WatchInit => WatchInv /\ OwnInv
  BY WatchInitInv, OwnInitInv
<1>2. WatchInv /\ OwnInv /\ [WatchNext]_watchVars => (WatchInv /\ OwnInv)'
  BY WatchStep, OwnStep
<1>3. OwnInv => EachTableItsOwn
  BY DEF OwnInv
<1> QED
  BY <1>1, <1>2, <1>3, PTL DEF WatchSpec
==============================================================================
