# GBC Smart Management: formal models

TLA+ models of the booking and lighting system of a billiards club: a Go
backend (MongoDB, Fiber, MQTT, WebSocket), an ESP32 that switches the lights of
four tables, and a React frontend. TLC checks small instances, TLAPS proves the
core for every value of the constants. The repository has no tests and no
design documents, so the models are read off the code, and what the code
*promises* is taken from its comments and messages.

Paths are relative to the repository: `backend/...`, `hardware/...`,
`frontend/...`.

## 1. The system

| Component | State | Operations | Talks to |
|---|---|---|---|
| Booking service, `internal/service/booking_service.go` | one mutex per table | Create, Update, Cancel, GetTimeline, GetTodayTimeline | repository, table service, `timelineChan` |
| Booking repository, `internal/repository/booking_repo.go` | the `bookings` collection | Create, FindByID, Save, HasOverlap, FindTimeline, FindCurrentForTable, FindNextUpcoming, FindAllActiveNow | MongoDB |
| Venue cache, `internal/cache/venue_cache.go` | per table: AVAILABLE/BUSY, light, current booking (RWMutex) | Hydrate, Activate, Deactivate, SetLight, Confirm..., UpdateCurrentBooking | `broadcastChan` (16, non-blocking) |
| Table service, `internal/service/table_service.go` | none | cache change, then a relay command | cache, `mqttCmdChan` (16, non-blocking) |
| Scheduler, `internal/scheduler/scheduler.go` | map of `time.AfterFunc` timers, at most a start and an end timer for a table | InitAll, RescheduleTable, two callbacks, reconcile every 5 s | repository, table service; takes none of the tables' mutexes |
| MQTT client, `internal/hardware/mqtt_client.go` | connection, pending health requests | relay commands, full state sync, acknowledgements, health request | broker, table service |
| ESP32 firmware, `hardware/main/main.ino` | four table entries (pending, target, command id, time), relays, LED | MQTT event handler (its own task), `update()` in the Arduino loop | broker |
| Operational day, `pkg/timeutil/time.go` | the venue's zone | day bounds, date of today | booking service |
| Venue config, `internal/repository/config_repo.go`, `config_service.go` | one document | EnsureDefault, Get, Update | booking service, frontend |
| WebSocket hub, `internal/hub/ws_hub.go` | clients, a send buffer of 32 each | initial state, TABLES_UPDATED, TIMELINE_UPDATED | cache, booking service, browsers |
| Frontend socket, `frontend/src/services/websocket.js`, `SocketManager.jsx` | one socket, a reconnect timeout, the token | connect, disconnect, reconnect with backoff | hub, store |
| Frontend forms and timeline, `frontend/src/components/timeline` | form state | free slots, offered times | REST API |
| Session, `AuthContext.jsx`, `App.jsx`, `ProtectedRoute.jsx`, `Login.jsx`, `PendingApproval.jsx`, `api/client.js` | the user and its role, the route, a sign-out under way | sign-in, the callback that waits for the claims, redirects, logout, the sign-out after a 401 | Firebase, every page |
| Illumination page, `pages/Illumination.jsx` | `pendingActions` of each table | a tap, All On, All Off, the answers | REST API, store |
| Admin page, `pages/Admin.jsx` | list of users; settings form, its status | role, deletion; load, change, save | REST API, other admins |
| Hardware page and its request, `pages/HardwareStatus.jsx`, `mqtt_client.go` | pending map of the backend, the page's data and error | fetchHealth, timeout, the MQTT handler | broker, ESP32 |
| TV display, `pages/TvDisplay.jsx`, `SoundSystem.js` | frame time of a card, stages announced for each table | frames, sounds | store |
| HTTP handlers, middleware, logger | none of their own | validation, token check | |

**Hard behaviours.**

- *Concurrency.* Every HTTP request, every timer callback, the reconcile loop,
  the MQTT client's callbacks and the hub are goroutines. Requests on a table
  exclude each other, but the scheduler writes the same cache entries without
  that mutex. On the ESP32 the MQTT task writes the entries that the loop task
  reads, without any lock.
- *Check, then act.* `handleStartFired` (query, activate), `handleEndFired`,
  `reconcile` and `CancelBooking` (look, deactivate), `GetTodayTimeline` (two
  reads of the config), every broadcast (snapshot, send). In the pages: state
  kept in a closure over an `await` (the list of users, a user's claims), and
  timeouts that nobody clears.
- *Loss.* Channels that drop when they are full, an MQTT broker that drops what
  is for an ESP32 that is away, QoS 1 duplicates, MongoDB writes whose answer is
  lost, a cache and timers that die with the process.
- *Time.* An operational day that spans midnight in the venue's zone, while the
  server computes in UTC.

What makes each part correct:

- bookings: no double booking, no lost update, no resurrection of a cancelled
  booking, every request answered;
- scheduler and cache: a table is never lit before its stay, and is put right
  some time after whatever race, failure or restart;
- lights: a light that is confirmed is what the relay does, a PENDING light is
  resolved, a sync repairs what was lost;
- operational day: one date for each instant, a timeline with every running
  stay, staff confined to the current day;
- live feed: a page that stays connected ends up with what the cache last held;
- socket: a page that should be live becomes live again, and says so only then;
- forms: what is offered, validated, reviewed and sent is the same stay;
- session: the pages see the user who is signed in, redirects come to an end,
  an account without a role is told so (unless its sign-out fails);
- pages: a spinner is a request, a row of the list is what Firebase has,
  "Settings Saved!" is true of the form, a badge has its sound in the first session
  of a table, a request for the hardware's status is answered or times out and leaves nothing behind.

## 2. Modules

| Module | Models | State |
|---|---|---|
| `BookingLedger` | abstract specification: bookings made, patched and cancelled by one atomic step | `db` |
| `BookingService` | `booking_service.go` with the queries and the cache calls it makes | `db`, `mutex`, `pc`/`req`/`fresh` of every request, `cache`, `now` |
| `VenueScheduler` | extends `BookingService` with `scheduler.go` and the boot of `main.go` | `timers`, `armed`, `wk` (the workers' program counters and locals), `todo`/`round` of the reconcile loop, `booting` |
| `VenueWatch` | `VenueScheduler` with a history | `ins` (every check-in time a booking has had) |
| `Lights` | cache light, table service, MQTT client, broker, ESP32 | `light`, `sending`, `cmds`, `sync`, `down`/`up`, `esp`, `relay`, `queue`, `stage` |
| `OperationalDay` | `timeutil`, the timeline of today, the staff rule, the config | `now`, `config`, `stays`, `view` |
| `LiveFeed` | broadcasts of the cache and of the timeline, the hub, INITIAL_STATE, the pages' store | `held`, `writer`, `chan`, `conn`/`boot`/`init`/`buf` of each page, `shown` |
| `SocketClient` | `websocket.js`, `SocketManager.jsx` | `sock` (every socket), `socket`/`token`/`timer`/`intentional` of the wrapper, the three waits for a token, `isConnected` |
| `BookingForm` | free slots of a row, the booking form, its requests | `bookings`, `now`, `slot`/`editing`, `form`, `step`, `request` |
| `Session` | AuthContext, the routes, login and logout, the pending page, the 401 of the REST client | `auth`, `notice`, `waits`, `user`, `loading`, `route`, `email`, `leaving`, `refused`, `popup`, `asked` |
| `Illumination` | the lights' page | `tables`, `lightStatus` of the store, `pendingActions`, `calls` |
| `UserAdmin` | the admin's list of users and the two handlers of `user_handler.go` behind it | `roles` (Firebase), `users`, `updatingUser`, `ops` |
| `SettingsForm` | the admin's settings | `saved` (backend), `config`, `saving`, `saveStatus`, `timeouts` |
| `HardwareHealth` | `RequestHardwareHealth` and the hardware page | `request`, `healthPending`, `answer`, `handing`, the network, the page |
| `TvAlerts` | a card of the TV display | `wall`, `frame`, `session`, `alerted` |
| `App` | composes the six: the session decides which page is mounted | `mounted` |
| `LightsWatch`, `FeedWatch` | `Lights` and `LiveFeed`, each with a history | `calm` |
| `BookingServiceProofs`, `VenueProofs`, `LightsProofs`, `OperationalDayProofs`, `LiveFeedProofs`, `SocketClientProofs`, `BookingFormProofs`, `AppProofs` (the session, the pages and the tab) | theorems | |
| `MC...` | instances for TLC | |

### BookingService

A request is a thread with a label for each step of its handler:

| label | code (UpdateBooking, CancelBooking; a creation begins at `lock`) |
|---|---|
| `fetch` | FindByID outside the mutex, to learn the table |
| `lock` | `getTableMutex(...).Lock()` |
| `refetch` | FindByID inside the mutex; 404 if cancelled |
| `check` | validation and HasOverlap |
| `write` | Create or Save (ReplaceOne of the whole document) |
| `sync` | cache call if the booking is running; cancel looks at the cache here ... |
| `deactivate` | ... and deactivates here |
| `finish` | emitTimelineUpdate, return, deferred Unlock |

`Fail` is an error of any MongoDB call, `WriteUnanswered` a write that is
applied and reported as failed, `Restart` a crash between any two steps.
`Save` keeps the document's table, which is why the pre-fetched table cannot
be stale; `FreshIsCurrent` is about the rest of the document.
`ImplementsLedger` is the refinement: `BookingLedger` instantiated with this
module's `db`; all other variables are hidden.

*Abstractions.* Instants are numbers; the forms send whole minutes, and the
cache's RFC3339 strings keep whole seconds, so the two agree. `HalfMinute` is
the shortest stay whose rounded duration is not 0. `DayStart` stands for the
day bounds that `OperationalDay` models. Names, mobile numbers and amounts
behave like `.paid`. The HTTP handlers' body validation is in the choice of
`Inputs`. `WriteUnanswered` applies its write and reports the error in one step: a
write that the database applies only after its caller was told that it failed, and
has released the mutex, is not modelled.

### VenueScheduler

`Main` runs InitAll, then the reconcile loop; `Callbacks` are goroutines for
timer callbacks. The query, the cache call and the timer operation of a
function are steps of their own. A timer is a deadline: it fires at it or at any
later time, since goroutines are scheduled when they are. `setXTimer` is two
steps: `SetTimer` stops the timer of the key and starts another one, `StoreTimer`
gives it to the map; in between it may fire, or another goroutine may do the
same. `timers` is therefore the map, and `armed` the timers that run, also those
that the map has lost and that nothing can stop any more. *Abstractions:* two
timers of one key for the same booking and time are one; the light of a table
and the relay commands are in `Lights`. Three pairs of steps are one step each:
`Fire` is the firing of a timer and the deletion of its key by the callback
(`scheduler.go:117-123`, `151-154`, `265-270`), `Decide` the comparison with the
clock and the choice made from it (`167-168`), `ClearTable` the stopping of both
keys of a table (`260-263`). What another goroutine does between the two of a pair
is not explored. `VenueWatch` adds `ins`, which
`NotBeforeCheckIn` is about.

### Lights

To a light, activating a table is the same as switching it on by hand: the cache
is marked PENDING and then a command is sent without blocking into `cmds`.
`sync` holds the two places that publish a full state sync (the connect handler
and the answer to the ESP32), each of which takes a snapshot and publishes it
later. `stage` is how far an iteration of `update()` is: relay switched,
acknowledged, pending cleared. With `"preempt"` in `Upsets` the MQTT task runs
between those; the other upsets are a disconnect, a reboot, a duplicate, a
reconnect and a restart of the backend. *External*, as the code configures it:
the broker keeps messages for the backend (`SetCleanSession(false)`), not for
the ESP32 (`disable_clean_session = false`); the Go client stores what is
published while it reconnects and drops commands when it was never connected.
`LightsWatch` adds `calm`: a sync request was read while nothing else was under
way, and nothing but that sync has happened since.
*Abstractions:* the 500 ms of debounce are some time; the fields of an entry
are written together (their byte-level interleaving is planned as `Firmware`).

### OperationalDay

Minutes of UTC. `Bounds` and `Today` are GetOperationalDayBounds and
TodayVenueString, `UtcDate` the date CreateBooking takes. A date here is the
number of a day; the parsing of "HH:MM" is left out. `view` is a
GetTodayTimeline on its way between its two reads of the config; `.steady` says
whether what it read is what the config is.

### LiveFeed

A state of the cache or of today's timeline is a number, and what a page shows
is the number it has. A writer changes, reads its snapshot and sends it in three
steps, since the lock is released before the snapshot is taken and the send
comes after that; the send is dropped when the channel is full. A broadcast to
all clients is one step of the hub (they are independent, and registration
waits for its lock). `HandleConn` registers the client before
`sendInitialState` reads anything, which is what makes a change between the two
arrive by both ways rather than by none. `FeedWatch` adds the history variable
`calm`: the last change of a feed ran by itself and nothing of it was dropped.
*Abstractions:* one connection for a page at a time, the store kept when a page
connects again, pings and their deadlines in `Lose`.

### SocketClient

One action for each JavaScript task: a socket's events, the reconnect timeout,
the effects of `SocketManager` up to their `await` and after it. `sock` has every
socket that exists, also those the wrapper no longer knows: `CloseEvent` of such
a socket clears the wrapper's reference all the same, as `onclose` does.
The visibility handler connects without looking at the user again, so it can
wake the wrapper of one who has signed out; `SignedOutStaysQuiet` excepts it and
says that nothing else does.
*Abstractions:* the delay of the timeout; a token expires only after a newer
one has been issued, which Firebase sees to; the roles; AuthContext's own wait
for the token's claims, which is in `Session` (here `UserChanged` follows
Firebase in one step).

### BookingForm

Instants are numbers of a unit of time; a time of day is an instant modulo
`Day`, and `ParseTime` brings it back from the business day of the slot or the
booking the form was opened on. An emptied input is read as the
instant 0 (`CreateBookingModal.jsx:82`), which is 05:30 of a day in 1970 in Colombo:
`Epoch` is that time of day, and instants count from the midnight before it. `FreeSlots` is `calculateFreeSlots`: where the
pass over the sorted row has its cursor when it comes to a booking is the latest
end of the bookings that start earlier, or the opening (`Cursor`, `Earlier`). Of
two bookings that start together, which no table has, the second has no gap
before it in the code and the gap of the first here: the same slots. The three ways to change the form are actions on
`checkIn`, `checkOut` and `dur`, with inputs that can be emptied (`Blank`);
`Submit` is the validation, `Payload` what `handleConfirm` and the API module
make of the form, `Accepted` and `Refused` the answers. *Abstractions:* the
browser is in the venue's zone and forms are opened on whole minutes; bookings
appear on the page with the backend's answer; one request waits at a time.

### Session

Firebase's account (`auth`) is shared by the tabs of a browser. A change of it
is followed by a callback (`Deliver`), which waits for the claims of the token
before it sets the user (`Claims`); nothing cancels a callback that waits, so
that a later change may be dealt with first. `overtaken` records that. `Landing`
is where the page of the present route sends the user: the `Navigate`s of
ProtectedRoute, the login page, the dashboard and the pending page in one
operator. `TurnAway` is the effect that signs out an account without a role and
then navigates (`leaving`). Such a sign-out may fail: `logout` rethrows the error
(`AuthContext.jsx:54-57`), and neither ProtectedRoute nor the login page catches it
or tries again, so that the navigation does not come and the effect, which runs once
for a user and a page (`ToBeTurnedAway`), is spent: `SignOutFails`, which `refused`
remembers until the user or the route changes. The logout button catches the error
and nothing changes. A role that is none of the three (`UnknownRole`) is sent from
the protected pages to "/" and is no role to the login page. `Answered` is the
interceptor's sign-out for a 401,
whoever is signed in by then. `Open` is a reload or a typed address.
*External:* a sign-out that fails leaves Firebase's account as it was.
*Abstractions:* going back leads to any route; one popup and one request at a
time; the claims that a token may hold are a constant of the account, a role
that is given or taken away shows at the next sign-in.

### The pages

`Illumination`: `calls` are requests with the tables whose marks their answer
takes away, `crossed` the history of a press of All On or All Off during another
request (or before the tables are there). What the store is sent is any light:
`Lights` says which.

`UserAdmin`: the list is read by the backend (`ListUsers`) and arrives later
(`FetchUsers`), unless that fails. `ops[o].seen` is the list the handler closed over and writes back.
`Apply` is the backend's step, between the request and its answer. Users that
others changed, or that failed or overlapping requests made uncertain, are
`doubtful`.

`SettingsForm`: one status, and a timeout for every save that has succeeded in
the last three seconds, each of which clears whatever status there is. The
closing time stands for both times.

`HardwareHealth`: a request is registered under its millisecond, published, and
waits for its channel or the timeout. The handler takes the channel from the map
(`HandleResponse`) and sends into it after the mutex is released (`HandOver`).
Messages are lost and delivered twice; two requests may share a millisecond.
That the 5 s have passed is a choice: nothing else depends on it.

`TvAlerts`: badges by exact time, sounds by whole seconds, `alerted` kept for the
table. `frame` is the time of the last frame, which stands still while the
display is hidden. *Abstractions:* one card; a second is `PerSecond` units and
the stages' minutes are fewer seconds, so that the two roundings differ; what
`first` and `repeated` remember is for the property alone.

### App

A page is mounted when the session has come to rest on its route. Steps of the
page and steps of the session touch no common state but the mounting itself, so
`App` lets the session stand still while a page is mounted, and forgets a page
that is left: an answer that is late is one of those that others send to the
next instance (`OtherRequests`, `OthersChange`, `OthersSave`). What is composed
is therefore which page runs for whom; that the promises of the parts are
promises of the whole is `TabKeepsPromises`.

## 3. What is checked

| Run | Instance | Shows |
|---|---|---|
| `bookings` | 2 tables, 2 ids, 2 requests, instants 0..3, clock to 1 | `TypeOK`, `NoDoubleBooking`, `FreshIsCurrent`, `CancelledForever`, `EveryRequestAnswered`, and that the service implements `BookingLedger` |
| `scheduler` | 1 table, 2 ids, 1 request, 2 callbacks, instants 0..3, clock to 2 (a stay 1..3 outlasts it, so that a table may have to be shown for good); the first booking is extended or cancelled, the second is made, and paid for also while the table still shows the first | `NotBeforeCheckIn`, `ExpiredIsCleared`, `ActiveIsShown` |
| `venue_checkout` | the same, without failing queries | violation, see below |
| `lights` | 2 tables, 2 callers, 2 switches, 1 upset of any kind, channel of 1 | `LightsTypeOK`, `UndisturbedAgrees`, `SyncRepairs`, `PendingIsResolved` |
| `lights_truth` | the same, only preemption, channel of 2 | violation |
| `opday` | 31.5 hours by the half hour, 2 opening and 3 closing times, 4 stays, 2 at a time | `DayTypeOK`, `TodayIsTheOneDay`, `RunningIsOnTimeline` |
| `staff_day` | the same, reads succeed | violation |
| `feed` | 1 staff page, 2 writers (one of the tables only), channels and buffer of 1, 1 change (any number of broadcasts that change nothing) | `NextMutationRepairs`, `CalmFeedArrives`, `InitialEnds` |
| `feed_tv` | the same with a TV display | violation |
| `sockets` | 3 sockets at a time, 3 tokens, 2 failures | `LiveMeansOpen`, `NeverStranded`, `ComesBack`, `SignedOutStaysQuiet` |
| `forms` | 2 tables, 2 bookings, 4 stays of others (across 10:00, to midnight, after midnight, past the closing time), 10:00 and 00:15, three times of day and "empty", 0 and 25 hours typed; one form with up to three changes, or two forms and one change | `SlotsAreTheGaps`, `ReviewIsSent`, `UntouchedEditKeeps`, `OfferIsAccepted`, `OnlyEarlyClashes` |
| `app` | 2 accounts (one may have its role or not, the other may be staff, a TV or of an unknown role), sign-outs that may fail, 1 callback waiting for each, 2 tables, 2 requests of the lights' page, 2 users, 2 roles, 2 requests of the admin's, 2 rates, 2 times and 2 timeouts, 3 health requests in 2 milliseconds, 3 sessions of a table in 16 half-seconds | `UserIsSignedIn`, `SpinnerIsOneCall`, `ListIsTrue`, `SavedIsTheForm`, `HealthIsServed`, `SoundsFollowBadges`, `RedirectsSettle`, `TurnedAway` |

*Bounds.* Two requests are enough for every pair of a check and a write to
interleave, and two bookings for an overlap, an extension into a neighbour and a
move onto one; the requests include stays that touch, a patch of the check-out
and one of the check-in with a field that is not a time. Ids are reused by
nothing: a creation is submitted only while an unused id is left (`Creating`),
which bounds the number of creations and not their interleaving. One stay that
runs and one that follows it make the scheduler chain, expire, re-find and
collide with an extension and a cancellation; two callbacks let an end and a
start timer run at once. One upset anywhere in a behaviour of two switches
reaches each of the repairs; the channel has one place, so that it fills.
`Callbacks`, `MaxNow`, `MaxSwitches`, `MaxUpsets`, `MaxStays`, `MaxDelay` and
`ChanSize` (16 in the code) are the bounds' names. At the bounds the clock
stops, so `scheduler`, `lights`, `opday`, `sockets` and `forms` may end, and so
may the pages of `app`: their cfgs do not check deadlock. `bookings` and `feed` do. In `feed` one place in
every queue makes it full, and empty, all the time; since a broadcast need not
change anything, their number has no bound. In `sockets` three sockets are the
wrapper's own, one it has replaced and one more (`Slots`, `MaxToken`,
`MaxUpsets`); in `forms` a form counts two and a change one against
`MaxEffort`. In `app` two of everything is what the hazards are about: a second
request that crosses the first, a second account that follows the first, a
request that shares its millisecond and one that does not (`MaxWaits`,
`CallIds`, `OpIds`, `MaxTimeouts`, `MaxWall`, and `MaxNow` of `HardwareHealth`).
The three sessions are one, the same cut short, and the next one.

*Fairness.* Every handler step is weakly fair: goroutines are scheduled, and
every MongoDB call returns, with an answer or an error. `Lock` is strongly fair:
`sync.Mutex` hands the lock to its waiters in FIFO order once one has waited
for a millisecond. In `VenueScheduler` time and the ticker go on, a query that
is tried in round after round is answered in one of them (strong fairness of
`ReconcileFind`), and the process does not crash for ever: without these no
claim that a table is put right could hold. No fairness is assumed of users,
failures or disturbances. `PendingIsResolved` assumes that the network delivers
and that the ESP32's tasks run. In `LiveFeed` goroutines run and writes succeed or
time out; `SendInitial` is strongly fair because Go's channels queue the
goroutines that wait to send. In `SocketClient` events and timeouts come and
tokens are delivered or refused; nobody has to sign in or look at the tab. In
`Session` callbacks run, claims come or fail, effects and navigations happen;
nobody has to sign in, click or answer, and nothing is assumed of the pages.

**Violations.** Each refutes a comment or a message of the code.

1. `venue_checkout`: an extended stay is ended by its old timer
   (`scheduler.go:188-198`), and lit again by the reconcile loop.
2. `lights_truth`: a command that arrives while `update()` executes another is
   acknowledged and never executed (`main.ino:164-172`).
3. `staff_day`: between 00:00 and 05:30 the "current operational day" of the
   staff rule is the one before today's (`booking_service.go:88`).
4. `feed_tv`: the "Live Status Board" of a TV display is sent the tables when it
   connects and never again (`ws_hub.go:185-187`).

`scheduler` shows the other side of the first: the reconcile loop does put every
table right in the end. A cancellation between a start timer's re-fetch and its
activation leaves the table lit for a cancelled booking; `ExpiredIsCleared` says
that it does not stay so after its check-out.

**What the passing properties leave out, on purpose.** `NextMutationRepairs` is
what the comment of `broadcast` claims and no more: a snapshot that was dropped,
or sent after a newer one, is only made good by the *next* change that is not.
`ComesBack` ends when the wrapper's token expires: `onIdTokenChanged` passes a
new token only to a socket that is connected (`SocketManager.jsx:75`).
`ReviewIsSent` is about durations above 0 and below a day: a duration of 0 is
sent as an hour and one of 25 hours as 25, whatever the summary shows
(`CreateBookingModal.jsx:218`). `OnlyEarlyClashes` allows the 15 minutes before
the slot, which the backend then refuses.

`UndisturbedAgrees` is about runs without a disturbance, and `SyncRepairs` about a
sync that was read while nothing else was under way: an acknowledgement that comes
late, after a sync has confirmed other lights, is covered by neither.
`PendingIsResolved` excepts commands that the full channel dropped.
`RunningIsOnTimeline` excepts a change of the config between the two reads
(`steady`), and `OnlyEarlyClashes` a slot that others have taken since it was shown.

The properties of `app` have exceptions. Each is a history variable or a case of
the property, and each stands for something that the code does:

- `overtaken` (`AuthContext.jsx:21`): a user signs out while the claims of the
  sign-in are awaited; the sign-out sets null, then the claims set the user. The
  pages are shown to a user whom Firebase no longer knows, whose requests get
  a 401, and for whom the sign-out of `client.js` changes nothing and so calls
  nobody back.
- `crossed` (`Illumination.jsx:178`): All On and All Off do not look at the marks,
  so that two requests for one light are under way, and the first answer
  takes the spinner of both.
- `doubtful` (`Admin.jsx:56`): the answer to a request writes the list back as it
  was when the request was made; what another answer has changed since is undone on
  the page. A request that fails after it was applied is shown as not applied.
- `drifted` (`Admin.jsx:221`): "Settings Saved!" of a form that was changed while it
  was being saved. (A late timeout takes the status of a *later* save away: the
  page then says less than is true, which no property forbids.)
- in `WaiterIsHeard` (`mqtt_client.go:128`), two requests in one millisecond: the
  timeout of one takes the other from the map.
- `refused` (`AuthContext.jsx:54-57`, `ProtectedRoute.jsx:13-15`, `Login.jsx:20-22`):
  the sign-out of an account without a role fails; it stays on the empty page until
  its user or the route changes, and nothing tells it why.
- `repeated` (`TvDisplay.jsx:120`): what has been announced is kept for the table
  until the page is reloaded, so that the stages of later sessions are silent.
  `SoundsFollowBadges` asks of them only that the sound was once played, which is
  what it says of a badge only in the first session of a table.

## 4. What is proved

`BookingServiceProofs`, for every number of tables, ids and requests and every
set of instants:

- `TypeCorrect`, `NeverDoubleBooked`, `NothingStaleIsSaved`, `CancelledStays`,
  and `Refinement`: `Spec` implements `BookingLedger`'s.

`NoDoubleBooking` is not inductive: a `write` is safe only because the window
was free at the `check` and is free still. The invariant `IInv` says so, for
every request between the two labels: it holds its table's mutex, what it read
is what the database holds, its times were validated, and its window is free of
every live booking but its own. That the write of another request keeps this
is the lemma `WriteKeepsOthers`: it is to a document of the writer's own table,
hence of another table than that of any other request in its section.
`WindowIsFree` then turns the earlier check into what the request's own write
needs. `Refinement` follows step by step, because `IInv` gives `Book`, `Patch` and `Cancel` their guards.

`VenueProofs`, for every number of tables, bookings, requests and callbacks:

- `NeverEarly`, `VenueNeverDoubleBooked` and `VenueTypes`. `IInv` asks nothing of
  the cache but its type, and the scheduler writes nothing else of the service's
  state: so it survives the composition (`CacheChange`). `NotBeforeCheckIn` is not
  inductive, since what lights a table was read several steps before.
  `WatchInv` says what the locals of every goroutine are worth: a check-in
  time carried to `decide` is one of the booking's own, a booking carried
  to `activate` has begun (the round's time is not later than now), and a
  request between its write and its cache call carries a time that the history
  has. Each action of the scheduler has a lemma `...Kept`, about its own
  goroutine alone, and `GoroutineStep` lifts it to the whole.
- `VenueKeepsLedger`: for the database, a step of the composition is a step of the
  service or none, so the ledger's steps and `CancelledForever` hold beside the
  scheduler too, from any bookings that the first boot finds.
- `TablesKeepTheirOwn`: a table shows its own bookings and has timers for its own
  bookings only, a start timer always for a check-in time its booking has had. The
  `scheduler` run has one table and cannot say this. `OwnInv` follows the booking
  and the table through the locals of every goroutine and of every request
  between its write and its cache call; that it survives the writes of others
  rests on `VenueKeepsLedger`: no step of the ledger moves a booking to another
  table (`OwnStays`). That also holds of the timers which the map has lost.

`OperationalDayProofs`, for every zone offset, every opening and closing time
of a day and every set of stays:

- `DayTypes`, `OneDay` (a division argument: today's date is the only one whose
  day can hold the instant, and while the venue is open it does hold it), and
  `RunningShown`, whose invariant says that a dated view holds the date of when
  it was asked for.

`SocketClientProofs`, for any number of sockets, tokens and failures:

- `SocketTypes`, `LiveIsOpen` and `NotStranded`. The three are inductive
  together (`SInv`): a close event may be that of a socket that has been replaced
  and take the flag and the reference of the present one, but whenever it clears
  the flag without having been told to disconnect it leaves a timeout behind; and
  a new connection clears the timeout only when it leaves a socket that is being
  opened. That a reference is never to a closed socket (`SocketTypeOK`) is what
  keeps a disconnect from closing one twice.
- `SignedOutQuiet`, the action property of the run. It needs `QInv`: the effect
  that waits for a token has a user, whoever has or had a user has been issued a
  token, and a wrapper without a token has no socket and no timeout.

`LightsProofs`, for any tables, callers, switches and length of the command
channel, and any number of disturbances:

- `LightsTypes`;
- `UndisturbedLights`. What the cache has confirmed was true when the
  acknowledgement left, so the invariant (`Undisturbed`) is about what is still
  under way: for each table, either an acknowledgement is due, since its entry is
  queued and not yet acknowledged, or the *last* message about the table
  on its way says what the relay will be when what is queued is done, or there is
  none and the cache says so already (`Told`). Later commands for one table or
  for all only ever make an acknowledgement due again;
- `SyncRepairsLights`. The invariant (`Repairing`) follows one sync from the
  request that was read: nothing else is under way, every sync on its way carries
  the snapshot of the lights as they are now, because confirming a light does not
  change what a snapshot says of it, and either one is still to come or the relays
  are as the snapshot says and the last acknowledgement is on its way or read.

`LiveFeedProofs`, for any pages, writers and lengths of the channels and buffers:

- `FeedTypes`;
- `NextMutationRepairsFeed`. The invariant (`CalmIsFresh`) says, for a feed
  that is calm, that one writer changes it and will send what is held, that the
  last snapshot of the channel is what is held, that an INITIAL_STATE which has
  read the feed has read that, and that once both have gone the last message
  in each page's buffer that says anything of the feed says what is held. Older
  snapshots may still lie before it: the order of the queues does the rest.

`BookingFormProofs`, for any unit of time, any tables, bookings, opening and
closing hours, and whatever is typed:

- `FormTypes`;
- `SlotsOfRow`: a gap that the cursor leaves is a gap, and every gap begins where
  the cursor was, by the maximum of a finite set of ends (`MaxOf`, `CursorIs`);
- `UntouchedEditKeepsForm` and `OfferIsAcceptedForm`: of the instants of a business
  day exactly one has a given time of day, so that `ParseTime` takes back what
  `TimeOfDay` makes (`RoundTrip`), and the check-out is the one instant less than
  a day after the check-in (`StayOfForm`);
- `ReviewIsSentForm`: each of the ways to type keeps check-in plus duration and
  check-out equal up to whole days (`ReviewFits`), which for a duration of less than
  a day makes them equal;
- `OnlyEarlyClashesForm`: what is reviewed has been validated against its slot and
  has not changed since (`Validated`), and a slot that is still offered is a gap.

`AppProofs`, the session, for any accounts, roles and callbacks that wait:

- `SessionTypes` (the redirects lead to routes that exist) and `SignedInUser`. The
  strengthening is `OnlyTheLastWaits`: as long as nothing was overtaken, whoever
  waits for claims waits for those of the present account;

the pages, for any tables, users, rates and numbers of requests:

- `SpinnersAreCalls`: the invariant adds that, unless buttons crossed, an
  answer takes away the marks of just what its request switched
  (`AnswersUnmarkTheirs`);
- `UserListIsTrue`: but for doubtful users, the list that a handler closed over
  is the list on the page, and what was applied is there (`RequestsAgree`);
- `SettingsSavedIsTrue`: the request under way carries the form on the page, and
  once it is applied the backend has it, unless something drifted
  (`SaveIsTheForm`);
- `HealthTypes` and `RequestsAreServed`, for any requests in any milliseconds: a
  channel is in the map, in the handler's hands or full, never two of these
  (`ChannelIsInOnePlace`), which is why the send after the unlock finds room;
- `SoundsAreInTime`, for any thresholds and any length of a second: the badges of
  the first session of a table have had their sounds (those of later sessions are
  silent in the code, see `repeated`), and a sound of the first session is
  early by less than a second, because a time is at most k whole seconds just as
  long as it is less than k + 1 seconds (`WholeSeconds`, a division argument);

and the tab:

- `TabKeepsPromises`: a step of the tab is a step of the session or of one page
  and leaves the rest alone, hence the six promises hold together.

The assumptions are the named ASSUMEs of the modules: instants are naturals, a
shortest stay is at least one of them, "no id" is not an id, the bookings that
the first boot finds were made by the service; for the operational day that both
times are minutes of a day; for the sockets that their numbers are not 0; for
the pages that "nothing" is none of the values it stands beside; for the lights and
the feeds that channels and buffers have at least one place and that "all" is not
a table; for the form that opening and closing times are hours of a day, that the
shortest slot is not longer than an hour, that stays have a length and inputs
hold times of day, and that the clock is past January 3rd, 1970.

Only model-checked: all liveness, which with ENABLED is out of the prover's reach:
`EveryRequestAnswered`, `ExpiredIsCleared`, `ActiveIsShown`, `PendingIsResolved`,
`CalmFeedArrives`, `InitialEnds`, `ComesBack`, `RedirectsSettle` and `TurnedAway`. The
four properties that the code violates are refuted by TLC's counterexamples.
Every invariant and every action property that a run checks is a theorem for every
value of the constants.

## 5. Plan

Done, in this order: `BookingLedger` and `BookingService` with their proofs,
`VenueScheduler`, `Lights`, `OperationalDay` with its proofs, `LiveFeed`,
`SocketClient` with its proofs, `BookingForm`; then the timer map of
`VenueScheduler` at the grain of its mutex, `Session`, the pages, `App`, and
`VenueProofs`; then `LightsProofs`, `LiveFeedProofs` and `BookingFormProofs`. Next:

1. More of what the compositions promise: that an end timer is for a check-out
   time its booking has had, as a start timer is for a check-in time.
2. `Firmware`: queueState and update() store by store, the wink and the wrap
   of millis().
3. `Session` with the sockets of `SocketClient`: the token that a page shows and
   the one its socket was opened with.

## 6. Not modelled

- The logger: formatting.
- The firmware's WiFi provisioning and network LED: nothing else reads them.
- The middleware of `auth.go`, beyond its answers: it keeps no state.
- Page layout, rendering, amounts and names: data that no property tells apart.
- How an open tab learns of new settings: it does not, it keeps the rate and the
  times that it loaded.

`PROJECT.json` has the status of every component, maps every definition to the
lines it models, and lists the hazards with the properties that cover them, or
the reason why none does.
