------------------------ MODULE BookingServiceProofs -------------------------
(***************************************************************************)
(* Theorems about BookingService, for every set of tables, bookings,       *)
(* requests and request bodies.                                            *)
(*                                                                         *)
(* NoDoubleBooking is not inductive: nothing in it says that the overlap   *)
(* query a request made is still true when it writes.  IInv adds what the  *)
(* mutex is for: a request in its section holds its table's mutex, so the  *)
(* document and the query result it holds cannot have changed since.       *)
(***************************************************************************)
EXTENDS BookingService, TLAPS

InHandler(r) == pc[r] \in {"lock", "refetch", "check", "write", "sync",
                           "deactivate", "finish"}

\* A request inside its section holds the mutex of its table.
Holds(r) == InSection(r) => mutex[req[r].table] = r

\* Updates and cancellations name a booking, and once they have discovered its
\* table it exists on that table.
Fetched(r) ==
    /\ pc[r] \in {"fetch", "refetch"} => req[r].op # "create"
    /\ req[r].op # "create" =>
        /\ req[r].id \in Ids
        /\ InHandler(r) => /\ db[req[r].id].status # "ABSENT"
                           /\ db[req[r].id].table = req[r].table

\* The request's copy is current, and of a live booking.
Copied(r) ==
    pc[r] \in {"check", "write"} /\ req[r].op # "create" =>
        /\ fresh[r] = db[req[r].id]
        /\ fresh[r].status = "ACTIVE"

\* What the check established still holds when the request writes.
Checked(r) ==
    pc[r] = "write" =>
        /\ req[r].op = "create" =>
            /\ req[r].out - req[r].in >= HalfMinute
            /\ ~HasOverlap(req[r].table, req[r].in, req[r].out, NoId)
        /\ req[r].op = "update" => MayUpdate(r)

RequestInv(r) == Holds(r) /\ Fetched(r) /\ Copied(r) /\ Checked(r)

ProperStays == \A k \in Ids : Live(k) => db[k].in < db[k].out

IInv ==
    /\ TypeOK
    /\ \A r \in Requests : RequestInv(r)
    /\ ProperStays
    /\ NoDoubleBooking

------------------------------------------------------------------------------

LEMMA ZeroIsATime == 0 \in Times
BY TimesAssumption, MaxNowAssumption

LEMMA BlankType == Blank \in Booking /\ Blank.status = "ABSENT"
<1>1. PICK t \in Tables : TRUE
  BY TablesAssumption
<1> DEFINE b == [table |-> t, in |-> 0, out |-> 0, paid |-> FALSE,
                 status |-> "ABSENT"]
<1>2. b \in Booking /\ b.status = "ABSENT"
  BY ZeroIsATime DEF Booking
<1> QED
  BY <1>2 DEF Blank

LEMMA NoRequestType == NoRequest \in Request /\ NoRequest.op = "create"
<1>1. PICK t \in Tables : TRUE
  BY TablesAssumption
<1> DEFINE q == [op |-> "create", id |-> NoId, table |-> t, in |-> 0,
                 out |-> 0, paid |-> FALSE, staff |-> FALSE, sets |-> {}]
<1>2. q \in Request /\ q.op = "create" /\ q.id = NoId
  BY ZeroIsATime DEF Request
<1> QED
  BY <1>2 DEF NoRequest

\* The document a request writes is a proper document of the request's table.
LEMMA SavedType ==
    ASSUME IInv, NEW r \in Requests, pc[r] = "write"
    PROVE  /\ Saved(r) \in Booking
           /\ Saved(r).table = req[r].table
           /\ Saved(r).status # "ABSENT"
<1> USE DEF IInv, TypeOK
<1>1. CASE req[r].op = "cancel"
  <2>1. fresh[r] \in Booking
    OBVIOUS
  <2>2. Saved(r) = [fresh[r] EXCEPT !.status = "CANCELLED"]
    BY <1>1 DEF Saved
  <2>3. fresh[r].table = req[r].table
    BY <1>1 DEF RequestInv, Fetched, Copied, InHandler
  <2> QED
    BY <2>1, <2>2, <2>3 DEF Booking
<1>2. CASE req[r].op # "cancel"
  <2>1. req[r] \in Request /\ fresh[r] \in Booking
    OBVIOUS
  <2>2. NewIn(r) \in Times /\ NewOut(r) \in Times
    BY <2>1 DEF NewIn, NewOut, Request, Booking
  <2> QED
    BY <1>2, <2>1, <2>2 DEF Saved, Request, Booking
<1> QED
  BY <1>1, <1>2

THEOREM InitIInv == Init => IInv
<1> SUFFICES ASSUME Init PROVE IInv
  OBVIOUS
<1> USE BlankType, NoRequestType DEF Init
<1>1. TypeOK
  BY TimesAssumption, MaxNowAssumption
     DEF TypeOK, Labels, Entry, Available
<1>2. \A r \in Requests : RequestInv(r)
  BY DEF RequestInv, Holds, Fetched, Copied, Checked, InSection, InHandler
<1>3. ProperStays /\ NoDoubleBooking
  BY DEF ProperStays, NoDoubleBooking, Live
<1> QED
  BY <1>1, <1>2, <1>3 DEF IInv

------------------------------------------------------------------------------
(* Steps that write no booking. *)

\* A step of one request that leaves the database and the other requests alone
\* keeps the invariant if it keeps the types and its own part of it.
LEMMA LocalStep ==
    ASSUME IInv, TypeOK', NEW r \in Requests, db' = db,
           \A s \in Requests \ {r} : /\ pc'[s] = pc[s]
                                      /\ req'[s] = req[s]
                                      /\ fresh'[s] = fresh[s],
           \A t \in Tables : mutex[t] \in Requests \ {r} => mutex'[t] = mutex[t],
           RequestInv(r)'
    PROVE  IInv'
<1>1. ASSUME NEW s \in Requests, s # r PROVE RequestInv(s)'
  <2>1. pc'[s] = pc[s] /\ req'[s] = req[s] /\ fresh'[s] = fresh[s]
    BY <1>1
  <2>2. RequestInv(s)
    BY DEF IInv
  <2>3. Holds(s)'
    <3>1. req[s].table \in Tables
      BY DEF IInv, TypeOK, Request
    <3> QED
      BY <1>1, <2>1, <2>2, <3>1 DEF RequestInv, Holds, InSection
  <2>4. Fetched(s)' /\ Copied(s)'
    BY <2>1, <2>2 DEF RequestInv, Fetched, Copied, InHandler
  <2>5. Checked(s)'
    BY <2>1, <2>2
       DEF RequestInv, Checked, MayUpdate, NewIn, NewOut, Given, HasOverlap
  <2> QED
    BY <2>3, <2>4, <2>5 DEF RequestInv
<1>2. ProperStays' /\ NoDoubleBooking'
  BY DEF IInv, ProperStays, NoDoubleBooking, Live
<1> QED
  BY <1>1, <1>2 DEF IInv

\* A handler that returns, with or without the mutex, keeps the invariant.
LEMMA LeaveStep ==
    ASSUME IInv, NEW r \in Requests, Forget(r), UNCHANGED <<now, db, cache>>,
           IF InSection(r) THEN Unlock(r) ELSE UNCHANGED mutex
    PROVE  IInv'
<1>1. TypeOK'
  BY BlankType, NoRequestType
     DEF IInv, TypeOK, Forget, Goto, Unlock, Labels
<1>2. \A s \in Requests \ {r} : /\ pc'[s] = pc[s]
                                 /\ req'[s] = req[s]
                                 /\ fresh'[s] = fresh[s]
  BY DEF IInv, TypeOK, Forget, Goto
<1>3. ASSUME NEW t \in Tables, mutex[t] \in Requests \ {r}
      PROVE  mutex'[t] = mutex[t]
  <2>1. InSection(r) => mutex[req[r].table] = r
    BY DEF IInv, RequestInv, Holds
  <2> QED
    BY <1>3, <2>1 DEF IInv, TypeOK, Unlock
<1>4. pc'[r] = "idle" /\ req'[r] = NoRequest
  BY DEF IInv, TypeOK, Forget, Goto
<1>5. RequestInv(r)'
  BY <1>4, NoRequestType
     DEF RequestInv, Holds, Fetched, Copied, Checked, InSection, InHandler
<1> QED
  BY <1>1, <1>2, <1>3, <1>5, LocalStep

LEMMA SubmitStep ==
    ASSUME IInv, NEW r \in Requests, Submit(r)
    PROVE  IInv'
<1>1. PICK q \in Inputs : /\ req' = [req EXCEPT ![r] = q]
                          /\ Goto(r, IF q.op = "create" THEN "lock" ELSE "fetch")
  BY DEF Submit
<1>2. q \in Request /\ (q.op # "create" => q.id \in Ids)
  BY InputsAssumption
<1>3. TypeOK'
  BY <1>1, <1>2 DEF IInv, TypeOK, Submit, Goto, Labels
<1>4. RequestInv(r)'
  BY <1>1, <1>2 DEF IInv, TypeOK, Submit, Goto, RequestInv, Holds, Fetched,
                    Copied, Checked, InSection, InHandler
<1>5. \A s \in Requests \ {r} : pc'[s] = pc[s] /\ req'[s] = req[s]
  BY <1>1 DEF IInv, TypeOK, Goto
<1> QED
  BY <1>3, <1>4, <1>5, LocalStep DEF Submit

LEMMA FetchStep ==
    ASSUME IInv, NEW r \in Requests, Fetch(r)
    PROVE  IInv'
<1>1. CASE db[req[r].id].status = "ACTIVE"
  <2>0. req[r] \in Request /\ req[r].id \in Ids
    BY DEF IInv, TypeOK, RequestInv, Fetched, Fetch, At
  <2>1. db[req[r].id] \in Booking
    BY <2>0 DEF IInv, TypeOK
  <2>2. req' = [req EXCEPT ![r].table = db[req[r].id].table] /\ Goto(r, "lock")
    BY <1>1 DEF Fetch
  <2>3. req'[r] \in Request
    BY <2>0, <2>1, <2>2 DEF IInv, TypeOK, Request, Booking
  <2>4. TypeOK'
    BY <1>1, <2>2, <2>3 DEF IInv, TypeOK, Fetch, Goto, Labels
  <2>5. RequestInv(r)'
    BY <1>1, <2>0, <2>2 DEF IInv, TypeOK, Fetch, Goto, RequestInv, Holds,
                            Fetched, Copied, Checked, InSection, InHandler
  <2>6. \A s \in Requests \ {r} : pc'[s] = pc[s] /\ req'[s] = req[s]
    BY <2>2 DEF IInv, TypeOK, Goto
  <2> QED
    BY <1>1, <2>4, <2>5, <2>6, LocalStep DEF Fetch
<1>2. CASE db[req[r].id].status # "ACTIVE"
  BY <1>2, LeaveStep DEF Fetch, At, InSection
<1> QED
  BY <1>1, <1>2

LEMMA LockStep ==
    ASSUME IInv, NEW r \in Requests, Lock(r)
    PROVE  IInv'
<1>1. TypeOK' /\ req[r].table \in Tables
  BY DEF IInv, TypeOK, Lock, Goto, Labels, Request
<1>2. RequestInv(r)'
  BY <1>1 DEF IInv, TypeOK, Lock, At, Goto, RequestInv, Holds, Fetched, Copied,
              Checked, InSection, InHandler
<1>3. \A s \in Requests \ {r} : pc'[s] = pc[s]
  BY DEF IInv, TypeOK, Lock, Goto
<1>4. \A t \in Tables : mutex[t] \in Requests \ {r} => mutex'[t] = mutex[t]
  BY FreeAssumption DEF IInv, TypeOK, Lock
<1> QED
  BY <1>1, <1>2, <1>3, <1>4, LocalStep DEF Lock

LEMMA RefetchStep ==
    ASSUME IInv, NEW r \in Requests, Refetch(r)
    PROVE  IInv'
<1>1. CASE db[req[r].id].status = "ACTIVE"
  <2>1. pc[r] = "refetch" /\ req[r].op # "create"
    BY DEF IInv, RequestInv, Fetched, Refetch, At
  <2>2. fresh' = [fresh EXCEPT ![r] = db[req[r].id]]
    BY <1>1 DEF Refetch
  <2>3. TypeOK'
    BY <1>1, <2>1, <2>2
       DEF IInv, TypeOK, RequestInv, Fetched, Refetch, Goto, Labels
  <2>4. pc' = [pc EXCEPT ![r] = IF req[r].op = "update" THEN "check" ELSE "write"]
    BY <1>1 DEF Refetch, Goto
  <2>5. RequestInv(r)'
    BY <1>1, <2>1, <2>2, <2>4 DEF IInv, TypeOK, Refetch, RequestInv, Holds,
                     Fetched, Copied, Checked, InSection, InHandler
  <2>6. \A s \in Requests \ {r} : pc'[s] = pc[s] /\ fresh'[s] = fresh[s]
    BY <2>2, <2>4 DEF IInv, TypeOK
  <2> QED
    BY <1>1, <2>3, <2>5, <2>6, LocalStep DEF Refetch
<1>2. CASE db[req[r].id].status # "ACTIVE"
  BY <1>2, LeaveStep DEF Refetch, Return, At, InSection
<1> QED
  BY <1>1, <1>2

LEMMA CheckStep ==
    ASSUME IInv, NEW r \in Requests, Check(r)
    PROVE  IInv'
<1> DEFINE may == IF req[r].op = "create" THEN MayCreate(r) ELSE MayUpdate(r)
<1>1. CASE may
  <2>1. pc' = [pc EXCEPT ![r] = "write"] /\ pc[r] = "check"
    BY <1>1 DEF Check, Goto, At
  <2>2. UNCHANGED <<now, db, mutex, req, fresh, cache>>
    BY <1>1 DEF Check
  <2>3. TypeOK'
    BY <2>1, <2>2 DEF IInv, TypeOK, Labels
  <2>4. Checked(r)'
    <3>1. CASE req[r].op = "create"
      BY <1>1, <2>2, <3>1 DEF Checked, MayCreate, HasOverlap
    <3>2. CASE req[r].op # "create"
      BY <1>1, <2>2, <3>2
         DEF Checked, MayUpdate, NewIn, NewOut, Given, HasOverlap
    <3> QED
      BY <3>1, <3>2
  <2>5. Holds(r)' /\ Fetched(r)' /\ Copied(r)'
    BY <2>1, <2>2 DEF IInv, TypeOK, RequestInv, Holds, Fetched, Copied,
                      InSection, InHandler
  <2>6. \A s \in Requests \ {r} : pc'[s] = pc[s]
    BY <2>1 DEF IInv, TypeOK
  <2> QED
    BY <2>2, <2>3, <2>4, <2>5, <2>6, LocalStep DEF RequestInv
<1>2. CASE ~may
  BY <1>2, LeaveStep DEF Check, Return, At, InSection
<1> QED
  BY <1>1, <1>2

\* The cache steps: the request moves on inside its section.
LEMMA SyncStep ==
    ASSUME IInv, NEW r \in Requests, Sync(r) \/ Deactivate(r)
    PROVE  IInv'
<1>1. PICK next \in {"deactivate", "finish"} : pc' = [pc EXCEPT ![r] = next]
  BY DEF Sync, Deactivate, Goto
<1>2. UNCHANGED <<now, db, mutex, req, fresh>> /\ InSection(r) /\ InHandler(r)
  BY DEF Sync, Deactivate, At, InSection, InHandler
<1>3. req[r].table \in Tables /\ req[r].id \in Ids \cup {NoId}
        /\ fresh[r].out \in Times
  BY DEF IInv, TypeOK, Request, Booking
<1>4. cache' \in [Tables -> Entry]
  <2>1. Available \in Entry /\ Shown(req[r].id, fresh[r]) \in Entry
    BY <1>3, ZeroIsATime DEF Available, Shown, Entry
  <2> QED
    BY <1>3, <2>1 DEF IInv, TypeOK, Sync, Deactivate
<1>5. TypeOK'
  BY <1>1, <1>2, <1>4 DEF IInv, TypeOK, Labels
<1>6. RequestInv(r)'
  BY <1>1, <1>2 DEF IInv, TypeOK, RequestInv, Holds, Fetched, Copied, Checked,
                    InSection, InHandler
<1>7. \A s \in Requests \ {r} : pc'[s] = pc[s]
  BY <1>1 DEF IInv, TypeOK
<1> QED
  BY <1>2, <1>5, <1>6, <1>7, LocalStep

LEMMA ReturnStep ==
    ASSUME IInv, NEW r \in Requests, Finish(r) \/ Fail(r)
    PROVE  IInv'
BY LeaveStep DEF Finish, Fail, Return, At, InSection

------------------------------------------------------------------------------
(* The step that writes a booking. *)

\* A write by a request that holds the mutex: another request of the same
\* table is not past its own Lock, so nothing it relies on changes.
LEMMA WriteKeepsOthers ==
    ASSUME IInv, NEW r \in Requests, pc[r] = "write",
           NEW k \in Target(r), db' = [db EXCEPT ![k] = Saved(r)],
           NEW s \in Requests, s # r,
           pc'[s] = pc[s], req'[s] = req[s], fresh'[s] = fresh[s],
           \A t \in Tables : mutex[t] = s => mutex'[t] = s
    PROVE  RequestInv(s)'
<1>1. /\ RequestInv(r) /\ RequestInv(s)
      /\ req[r] \in Request /\ req[s] \in Request
      /\ db \in [Ids -> Booking]
  BY DEF IInv, TypeOK
<1>2. Saved(r) \in Booking /\ Saved(r).table = req[r].table
        /\ Saved(r).status # "ABSENT"
  BY SavedType
<1>3. k \in Ids /\ (db[k].status = "ABSENT" \/ db[k].table = req[r].table)
  BY <1>1 DEF Target, Unused, RequestInv, Fetched, InHandler
<1>4. InSection(s) => req[s].table # req[r].table
  BY <1>1 DEF RequestInv, Holds, InSection
<1>5. Holds(s)'
  BY <1>1 DEF RequestInv, Holds, InSection, Request
<1>6. Fetched(s)'
  BY <1>1, <1>2, <1>3 DEF RequestInv, Fetched, InHandler
<1>7. pc[s] \in {"check", "write"} /\ req[s].op # "create" => k # req[s].id
  BY <1>1, <1>3, <1>4 DEF RequestInv, Fetched, InSection, InHandler
<1>8. Copied(s)'
  BY <1>1, <1>3, <1>7 DEF RequestInv, Copied, Fetched
<1>9. Checked(s)'
  <2> SUFFICES ASSUME pc[s] = "write" PROVE Checked(s)'
    BY DEF Checked
  <2>1. ASSUME NEW i, NEW o, NEW x,
               ~HasOverlap(req[s].table, i, o, x)
        PROVE  ~HasOverlap(req[s].table, i, o, x)'
    BY <1>1, <1>2, <1>3, <1>4, <2>1 DEF HasOverlap, InSection
  <2>2. NewIn(s)' = NewIn(s) /\ NewOut(s)' = NewOut(s)
    BY DEF NewIn, NewOut, Given
  <2>3. ~HasOverlap(req[s].table, req[s].in, req[s].out, NoId) =>
          ~HasOverlap(req[s].table, req[s].in, req[s].out, NoId)'
    BY <2>1
  <2>4. MayUpdate(s) => MayUpdate(s)'
    BY <2>1, <2>2 DEF MayUpdate
  <2> QED
    BY <1>1, <2>3, <2>4 DEF RequestInv, Checked
<1> QED
  BY <1>5, <1>6, <1>8, <1>9 DEF RequestInv

\* The window a request writes is proper and free, apart from the booking it
\* replaces: this is where the check made earlier is used.
LEMMA WindowIsFree ==
    ASSUME IInv, NEW r \in Requests, pc[r] = "write", NEW k \in Target(r),
           Saved(r).status = "ACTIVE"
    PROVE  /\ k \in Ids
           /\ db[k].status # "ABSENT" => db[k].table = req[r].table
           /\ Saved(r).in < Saved(r).out
           /\ \A j \in Ids : j # k /\ Live(j) /\ db[j].table = req[r].table =>
                  Disjoint(db[j], Saved(r))
<1> DEFINE b == Saved(r)
<1>1. /\ RequestInv(r) /\ req[r] \in Request /\ db \in [Ids -> Booking]
      /\ req[r].op \in {"create", "update", "cancel"} /\ b \in Booking
  BY SavedType DEF IInv, TypeOK, Request
<1>2. req[r].op # "cancel"
  BY DEF Saved
<1>3. ASSUME NEW x, ~HasOverlap(req[r].table, b.in, b.out, x), x = k \/ ~Live(k),
             NEW j \in Ids, j # k, j # x, Live(j), db[j].table = req[r].table
      PROVE  Disjoint(db[j], b)
  <2>1. ~Overlaps(db[j], b.in, b.out)
    BY <1>3 DEF HasOverlap, Live
  <2>2. /\ db[j].in \in Nat /\ db[j].out \in Nat
        /\ b.in \in Nat /\ b.out \in Nat
    BY <1>1, TimesAssumption DEF Booking
  <2> QED
    BY <2>1, <2>2 DEF Overlaps, Disjoint
<1>4. CASE req[r].op = "create"
  <2>1. b.in = req[r].in /\ b.out = req[r].out
    BY <1>4 DEF Saved, NewIn, NewOut, Given
  <2>2. k \in Ids /\ db[k].status = "ABSENT"
    BY <1>4 DEF Target, Unused
  <2>3. b.out - b.in >= HalfMinute /\ ~HasOverlap(req[r].table, b.in, b.out, NoId)
    BY <1>1, <1>4, <2>1 DEF RequestInv, Checked
  <2>4. b.in < b.out
    <3>1. b.in \in Nat /\ b.out \in Nat
      BY <1>1, TimesAssumption DEF Booking
    <3> HIDE DEF b
    <3> QED
      BY <2>3, <3>1, HalfMinuteAssumption
  <2> QED
    BY <1>3, <2>2, <2>3, <2>4, NoIdAssumption DEF Live
<1>5. CASE req[r].op = "update"
  <2>1. /\ k = req[r].id /\ k \in Ids /\ db[k].table = req[r].table
        /\ db[k].status = "ACTIVE" /\ fresh[r] = db[k]
    BY <1>1, <1>5 DEF Target, RequestInv, Fetched, Copied, InHandler
  <2>2. b.in = NewIn(r) /\ b.out = NewOut(r) /\ MayUpdate(r)
    BY <1>1, <1>5 DEF Saved, RequestInv, Checked
  <2>3. CASE req[r].sets \cap {"in", "out"} # {}
    BY <1>3, <2>1, <2>2, <2>3 DEF MayUpdate
  <2>4. CASE req[r].sets \cap {"in", "out"} = {}
    <3>1. b.in = db[k].in /\ b.out = db[k].out
      BY <1>5, <2>1, <2>2, <2>4 DEF NewIn, NewOut, Given
    <3>2. b.in < b.out
      BY <2>1, <3>1 DEF IInv, ProperStays, Live
    <3>3. ASSUME NEW j \in Ids, j # k, Live(j), db[j].table = req[r].table
          PROVE  Disjoint(db[j], b)
      BY <2>1, <3>1, <3>3 DEF IInv, NoDoubleBooking, Disjoint, Live
    <3> QED
      BY <2>1, <3>2, <3>3
  <2> QED
    BY <2>3, <2>4
<1> QED
  BY <1>1, <1>2, <1>4, <1>5

LEMMA WriteKeepsLedger ==
    ASSUME IInv, NEW r \in Requests, pc[r] = "write",
           NEW k \in Target(r), db' = [db EXCEPT ![k] = Saved(r)]
    PROVE  db' \in [Ids -> Booking] /\ ProperStays' /\ NoDoubleBooking'
<1> DEFINE b == Saved(r)
<1>1. /\ db \in [Ids -> Booking] /\ b \in Booking /\ b.table = req[r].table
      /\ ProperStays /\ NoDoubleBooking
  BY SavedType DEF IInv, TypeOK
<1>2. db' \in [Ids -> Booking]
  BY <1>1
<1>3. CASE b.status = "ACTIVE"
  <2>1. /\ k \in Ids
        /\ b.in < b.out
        /\ \A j \in Ids : j # k /\ Live(j) /\ db[j].table = b.table =>
               Disjoint(db[j], b)
    BY <1>1, <1>3, WindowIsFree
  <2>2. ProperStays'
    BY <1>1, <2>1 DEF ProperStays, Live
  <2>3. NoDoubleBooking'
    BY <1>1, <2>1 DEF NoDoubleBooking, Live, Disjoint
  <2> QED
    BY <1>2, <2>2, <2>3
<1>4. CASE b.status # "ACTIVE"
  BY <1>1, <1>2, <1>4 DEF ProperStays, NoDoubleBooking, Live
<1> QED
  BY <1>3, <1>4

LEMMA WriteStep ==
    ASSUME IInv, NEW r \in Requests, Write(r)
    PROVE  IInv'
<1>1. PICK k \in Target(r) : /\ db' = [db EXCEPT ![k] = Saved(r)]
                             /\ req' = [req EXCEPT ![r].id = k]
  BY DEF Write
<1>2. pc[r] = "write" /\ pc' = [pc EXCEPT ![r] = "sync"]
        /\ fresh' = [fresh EXCEPT ![r] = Saved(r)]
        /\ UNCHANGED <<now, mutex, cache>>
  BY DEF Write, At, Goto
<1>3. db' \in [Ids -> Booking] /\ ProperStays' /\ NoDoubleBooking'
  BY <1>1, <1>2, WriteKeepsLedger
<1>4. /\ RequestInv(r) /\ req \in [Requests -> Request]
      /\ req[r] \in Request /\ db \in [Ids -> Booking]
  BY DEF IInv, TypeOK
<1>5. k \in Ids /\ (req[r].op # "create" => k = req[r].id)
  BY <1>4, <1>2 DEF Target, Unused, RequestInv, Fetched
<1>6. req'[r] = [req[r] EXCEPT !.id = k] /\ req'[r] \in Request
  BY <1>1, <1>4, <1>5 DEF Request
<1>7. Saved(r) \in Booking /\ Saved(r).table = req[r].table
        /\ Saved(r).status # "ABSENT"
  BY <1>2, SavedType
<1>8. TypeOK'
  BY <1>1, <1>2, <1>3, <1>6, <1>7 DEF IInv, TypeOK, Labels
<1>9. RequestInv(r)'
  <2>1. pc'[r] = "sync" /\ db'[k] = Saved(r)
    BY <1>1, <1>2, <1>4, <1>5 DEF IInv, TypeOK
  <2>2. req'[r].table = req[r].table /\ req'[r].op = req[r].op /\ req'[r].id = k
    BY <1>4, <1>6 DEF Request
  <2>3. Holds(r)'
    BY <1>2, <1>4, <2>1, <2>2 DEF RequestInv, Holds, InSection
  <2>4. Fetched(r)'
    BY <1>5, <1>7, <2>1, <2>2 DEF Fetched
  <2> QED
    BY <2>1, <2>3, <2>4 DEF RequestInv, Copied, Checked
<1>10. ASSUME NEW s \in Requests, s # r PROVE RequestInv(s)'
  <2>1. pc'[s] = pc[s] /\ req'[s] = req[s] /\ fresh'[s] = fresh[s]
    BY <1>1, <1>2, <1>10 DEF IInv, TypeOK
  <2> QED
    BY <1>1, <1>2, <1>10, <2>1, WriteKeepsOthers
<1> QED
  BY <1>3, <1>8, <1>9, <1>10 DEF IInv

LEMMA WriteUnansweredStep ==
    ASSUME IInv, NEW r \in Requests, WriteUnanswered(r)
    PROVE  IInv'
<1>1. PICK k \in Target(r) : db' = [db EXCEPT ![k] = Saved(r)]
  BY DEF WriteUnanswered
<1>2. /\ pc[r] = "write"
      /\ pc' = [pc EXCEPT ![r] = "idle"]
      /\ req' = [req EXCEPT ![r] = NoRequest]
      /\ fresh' = [fresh EXCEPT ![r] = Blank]
      /\ mutex' = [mutex EXCEPT ![req[r].table] = Free]
      /\ UNCHANGED <<now, cache>>
  BY DEF WriteUnanswered, At, Return, Forget, Goto, Unlock
<1>3. db' \in [Ids -> Booking] /\ ProperStays' /\ NoDoubleBooking'
  BY <1>1, <1>2, WriteKeepsLedger
<1>4. TypeOK'
  BY <1>2, <1>3, BlankType, NoRequestType DEF IInv, TypeOK, Labels
<1>5. RequestInv(r)'
  BY <1>2, NoRequestType
     DEF IInv, TypeOK, RequestInv, Holds, Fetched, Copied, Checked, InSection,
         InHandler
<1>6. ASSUME NEW s \in Requests, s # r PROVE RequestInv(s)'
  <2>1. pc'[s] = pc[s] /\ req'[s] = req[s] /\ fresh'[s] = fresh[s]
    BY <1>2, <1>6 DEF IInv, TypeOK
  <2>2. mutex[req[r].table] = r
    BY <1>2 DEF IInv, RequestInv, Holds, InSection
  <2>3. \A t \in Tables : mutex[t] = s => mutex'[t] = s
    BY <1>2, <1>6, <2>2 DEF IInv, TypeOK
  <2> QED
    BY <1>1, <1>2, <1>6, <2>1, <2>3, WriteKeepsOthers
<1> QED
  BY <1>3, <1>4, <1>5, <1>6 DEF IInv

------------------------------------------------------------------------------

LEMMA RestartStep ==
    ASSUME IInv, Restart
    PROVE  IInv'
<1>1. Hydrated \in [Tables -> Entry]
  <2> SUFFICES ASSUME NEW t \in Tables
               PROVE  Hydrated[t] \in Entry
    BY DEF Hydrated
  <2>1. CASE Current(t, now) = {}
    BY <2>1, ZeroIsATime DEF Hydrated, Available, Entry
  <2>2. CASE Current(t, now) # {}
    <3> DEFINE k == CHOOSE k \in Current(t, now) : TRUE
    <3>1. k \in Ids
      BY <2>2 DEF Current
    <3>2. db[k].out \in Times
      BY <3>1 DEF IInv, TypeOK, Booking
    <3> QED
      BY <2>2, <3>1, <3>2 DEF Hydrated, Shown, Entry
  <2> QED
    BY <2>1, <2>2
<1>2. Available \in Entry
  BY ZeroIsATime DEF Available, Entry
<1>3. TypeOK'
  BY <1>1, <1>2, BlankType, NoRequestType DEF IInv, TypeOK, Restart, Labels
<1>4. ASSUME NEW r \in Requests PROVE RequestInv(r)'
  BY NoRequestType DEF Restart, RequestInv, Holds, Fetched, Copied, Checked,
                       InSection, InHandler
<1>5. ProperStays' /\ NoDoubleBooking'
  BY DEF IInv, Restart, ProperStays, NoDoubleBooking, Live
<1> QED
  BY <1>3, <1>4, <1>5 DEF IInv

\* Only the clock moves, or nothing does.
LEMMA TickStep ==
    ASSUME IInv, Tick \/ UNCHANGED vars
    PROVE  IInv'
<1>1. UNCHANGED <<db, mutex, pc, req, fresh, cache>> /\ now' \in 0..MaxNow
  BY MaxNowAssumption DEF IInv, TypeOK, Tick, vars
<1>2. TypeOK'
  BY <1>1 DEF IInv, TypeOK
<1>3. ASSUME NEW r \in Requests PROVE RequestInv(r)'
  BY <1>1 DEF IInv, RequestInv, Holds, Fetched, Copied, Checked, InSection,
              InHandler, MayUpdate, NewIn, NewOut, Given, HasOverlap
<1>4. ProperStays' /\ NoDoubleBooking'
  BY <1>1 DEF IInv, ProperStays, NoDoubleBooking, Live
<1> QED
  BY <1>2, <1>3, <1>4 DEF IInv

THEOREM StepIInv == IInv /\ [Next]_vars => IInv'
<1> SUFFICES ASSUME IInv, [Next]_vars PROVE IInv'
  OBVIOUS
<1>1. ASSUME NEW r \in Requests, Handle(r) PROVE IInv'
  BY <1>1, SubmitStep, FetchStep, LockStep, RefetchStep, CheckStep, WriteStep,
     SyncStep, ReturnStep, WriteUnansweredStep DEF Handle, Proceed
<1> QED
  BY <1>1, RestartStep, TickStep DEF Next

\* The invariant that the mutex discipline maintains.
THEOREM Invariant == Spec => []IInv
<1> QED
  BY InitIInv, StepIInv, PTL DEF Spec

\* Every variable keeps its type, for every set of requests and bookings.
THEOREM TypeCorrect == Spec => []TypeOK
<1>1. IInv => TypeOK
  BY DEF IInv
<1> QED
  BY <1>1, Invariant, PTL

\* No two live bookings of one table intersect, however many requests create,
\* update and cancel bookings at the same time, and whichever of their database
\* calls fail or are answered after the process has died.
THEOREM NeverDoubleBooked == Spec => []NoDoubleBooking
<1>1. IInv => NoDoubleBooking
  BY DEF IInv
<1> QED
  BY <1>1, Invariant, PTL

\* What a request read inside the mutex is what the database still holds when
\* it writes: no update is lost, no cancelled booking revived.
THEOREM NothingStaleIsSaved == Spec => []FreshIsCurrent
<1>1. IInv => FreshIsCurrent
  BY DEF IInv, RequestInv, Copied, FreshIsCurrent
<1> QED
  BY <1>1, Invariant, PTL

------------------------------------------------------------------------------
(* The refinement. *)

\* A database write, answered or not, is one step of the atomic ledger.
LEMMA WriteIsLedgerStep ==
    ASSUME IInv, NEW r \in Requests, pc[r] = "write",
           NEW k \in Target(r), db' = [db EXCEPT ![k] = Saved(r)]
    PROVE  Ledger!Next
<1> DEFINE b == Saved(r)
<1>1. /\ RequestInv(r) /\ req[r] \in Request /\ db \in [Ids -> Booking]
      /\ b \in Booking /\ b.table = req[r].table
      /\ req[r].op \in {"create", "update", "cancel"}
  BY SavedType DEF IInv, TypeOK, Request
<1>2. Ledger!Booking = Booking
  BY DEF Ledger!Booking, Booking
<1>3. CASE req[r].op = "cancel"
  <2>1. /\ k = req[r].id /\ k \in Ids
        /\ fresh[r] = db[k] /\ fresh[r].status = "ACTIVE"
    BY <1>1, <1>3 DEF Target, RequestInv, Fetched, Copied
  <2>2. db' = [db EXCEPT ![k].status = "CANCELLED"]
    BY <1>3, <2>1 DEF Saved
  <2>3. Ledger!Cancel(k)
    BY <2>1, <2>2 DEF Ledger!Cancel, Ledger!Live
  <2> QED
    BY <2>1, <2>3 DEF Ledger!Next
<1>4. CASE req[r].op # "cancel"
  <2>1. b.status = "ACTIVE"
    BY <1>4 DEF Saved
  <2>2. /\ k \in Ids
        /\ b.in < b.out
        /\ \A j \in Ids : j # k /\ Live(j) /\ db[j].table = b.table =>
               Disjoint(db[j], b)
    BY <1>1, <2>1, WindowIsFree
  <2>3. Ledger!Vacant(b.table, b.in, b.out, k)
    BY <2>2 DEF Ledger!Vacant, Ledger!Live, Live, Disjoint
  <2>4. CASE req[r].op = "create"
    <3>1. db[k].status = "ABSENT"
      BY <2>4 DEF Target, Unused
    <3>2. b.out - b.in >= HalfMinute
      BY <1>1, <2>4 DEF RequestInv, Checked, Saved, NewIn, NewOut, Given
    <3>3. Ledger!Book(k, b)
      BY <2>1, <2>3, <3>1, <3>2 DEF Ledger!Book
    <3> QED
      BY <1>1, <1>2, <2>2, <3>3 DEF Ledger!Next
  <2>5. CASE req[r].op = "update"
    <3>1. db[k].status = "ACTIVE" /\ db[k].table = b.table
      BY <1>1, <2>5 DEF Target, RequestInv, Fetched, Copied, InHandler
    <3>2. Ledger!Patch(k, b)
      BY <2>1, <2>2, <2>3, <3>1 DEF Ledger!Patch, Ledger!Live
    <3> QED
      BY <1>1, <1>2, <2>2, <3>2 DEF Ledger!Next
  <2> QED
    BY <1>1, <1>4, <2>4, <2>5
<1> QED
  BY <1>3, <1>4

LEMMA StepIsLedgerStep == IInv /\ [Next]_vars => [Ledger!Next]_db
<1> SUFFICES ASSUME IInv, [Next]_vars PROVE Ledger!Next \/ UNCHANGED db
  OBVIOUS
<1>1. ASSUME NEW r \in Requests, Write(r) \/ WriteUnanswered(r)
      PROVE  Ledger!Next
  <2>1. pc[r] = "write" /\ \E k \in Target(r) : db' = [db EXCEPT ![k] = Saved(r)]
    BY <1>1 DEF Write, WriteUnanswered, At
  <2> QED
    BY <2>1, WriteIsLedgerStep
<1>2. ASSUME NEW r \in Requests, Handle(r), ~Write(r), ~WriteUnanswered(r)
      PROVE  UNCHANGED db
  BY <1>2 DEF Handle, Proceed, Submit, Fetch, Lock, Refetch, Check, Sync,
              Deactivate, Finish, Fail
<1>3. ASSUME Tick \/ Restart \/ UNCHANGED vars PROVE UNCHANGED db
  BY <1>3 DEF Tick, Restart, vars
<1> QED
  BY <1>1, <1>2, <1>3 DEF Next

\* The service, with its threads, mutexes, failures and restarts, implements
\* the ledger in which every operation is one atomic step.
THEOREM Refinement == Spec => ImplementsLedger
<1>1. Init => Ledger!Init
  BY BlankType DEF Init, Ledger!Init, Ledger!Booking, Booking
<1> QED
  BY <1>1, StepIsLedgerStep, Invariant, PTL
     DEF Spec, ImplementsLedger, Ledger!Spec

LEMMA LedgerKeepsCancelled ==
    ASSUME IInv, [Ledger!Next]_db, NEW k \in Ids, db[k].status = "CANCELLED"
    PROVE  db'[k] = db[k]
<1>1. db \in [Ids -> Booking]
  BY DEF IInv, TypeOK
<1> QED
  BY <1>1 DEF Ledger!Next, Ledger!Book, Ledger!Patch, Ledger!Cancel, Ledger!Live

\* A cancelled booking is never written again.
THEOREM CancelledStays == Spec => CancelledForever
<1>1. IInv /\ [Next]_vars =>
        [\A k \in Ids : db[k].status = "CANCELLED" => db'[k] = db[k]]_vars
  BY StepIsLedgerStep, LedgerKeepsCancelled
<1> QED
  BY <1>1, Invariant, PTL DEF Spec, CancelledForever
==============================================================================
