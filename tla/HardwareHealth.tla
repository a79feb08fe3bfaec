---------------------------- MODULE HardwareHealth ----------------------------
(***************************************************************************)
(* The page with the hardware's status and the request behind it: the       *)
(* backend registers a channel under an id made of the millisecond, asks    *)
(* the ESP32 over MQTT, and waits for the channel or for 5 seconds.  The    *)
(* handler of the MQTT messages takes the channel out of the map and, after *)
(* the mutex is released, sends the response into it.                       *)
(*                                                                         *)
(* Two requests in one millisecond share an id: the second one replaces the *)
(* first in the map, and the first one's timeout deletes the second.        *)
(***************************************************************************)
EXTENDS Naturals

CONSTANTS
    PageRequests,   \* requests that the page may make, one after the other
    OtherRequests,  \* requests of other pages, and of earlier visits
    NoRequest,
    MaxNow          \* bound: milliseconds at which requests are made

VARIABLES
    clock,          \* the millisecond
    request,        \* request[r]: how far it is, its id, its outcome
    healthPending,  \* healthPending[i]: the request registered under the id i
    answer,         \* answer[r]: the channel of r holds a response
    handing,        \* the request whose channel the message handler has taken
    toEsp,          \* ids of the health requests on their way to the ESP32
    responses,      \* ids of the responses on their way back
    asking,         \* the page's request: the page is loading until it is
                    \* answered, and before the first one
    healthError,    \* the page's last request has failed
    healthData      \* the page has data, perhaps of an earlier request

network == <<toEsp, responses>>
healthPage == <<asking, healthError, healthData>>
healthVars == <<clock, request, healthPending, answer, handing, network, healthPage>>

Requests == PageRequests \cup OtherRequests
Ids == 1..MaxNow   \* 0: none
Idle == [st |-> "idle", id |-> 0, outcome |-> "none"]

ASSUME HealthAssumption ==
    /\ MaxNow \in Nat \ {0}
    /\ PageRequests \cap OtherRequests = {}
    /\ NoRequest \notin Requests

HealthTypeOK ==
    /\ clock \in Ids
    /\ request \in [Requests -> [st : {"idle", "publishing", "waiting", "done"}, id : 0..MaxNow,
                                 outcome : {"none", "data", "error"}]]
    /\ healthPending \in [Ids -> Requests \cup {NoRequest}]
    /\ answer \in [Requests -> BOOLEAN]
    /\ handing \in Requests \cup {NoRequest}
    /\ toEsp \subseteq Ids /\ responses \subseteq Ids
    /\ asking \in PageRequests \cup {NoRequest}
    /\ healthError \in BOOLEAN /\ healthData \in BOOLEAN

HealthInit ==
    /\ clock = 1
    /\ request = [r \in Requests |-> Idle]
    /\ healthPending = [i \in Ids |-> NoRequest]
    /\ answer = [r \in Requests |-> FALSE]
    /\ handing = NoRequest
    /\ toEsp = {} /\ responses = {}
    /\ asking = NoRequest /\ healthError = FALSE /\ healthData = FALSE

------------------------------------------------------------------------------
(* RequestHardwareHealth. *)

\* The channel is registered under the id of this millisecond.
Register(r) ==
    /\ request[r].st = "idle"
    /\ request' = [request EXCEPT ![r] = [st |-> "publishing", id |-> clock, outcome |-> "none"]]
    /\ healthPending' = [healthPending EXCEPT ![clock] = r]
    /\ UNCHANGED <<clock, answer, handing, network>>

\* The broker is not connected: an error at once.
Refuse(r) ==
    /\ request[r].st = "idle"
    /\ request' = [request EXCEPT ![r].st = "done", ![r].outcome = "error"]
    /\ UNCHANGED <<clock, healthPending, answer, handing, network>>

\* The broker may be unreachable by then; the timer is set all the same.
Publish(r) ==
    /\ request[r].st = "publishing"
    /\ request' = [request EXCEPT ![r].st = "waiting"]
    /\ toEsp' \in {toEsp, toEsp \cup {request[r].id}}
    /\ UNCHANGED <<clock, healthPending, answer, handing, responses, healthPage>>

\* select: data := <-ch
TakeAnswer(r) ==
    /\ request[r].st = "waiting" /\ answer[r]
    /\ request' = [request EXCEPT ![r].st = "done", ![r].outcome = "data"]
    /\ answer' = [answer EXCEPT ![r] = FALSE]
    /\ UNCHANGED <<clock, healthPending, handing, network, healthPage>>

TimeOutKeeping(r) ==   \* a bug: the entry stays in the map
    /\ request[r].st = "waiting"
    /\ request' = [request EXCEPT ![r].st = "done", ![r].outcome = "error"]
    /\ UNCHANGED <<clock, healthPending, answer, handing, network, healthPage>>

\* select: <-timer.C, which may be chosen though there is an answer.
TimeOut(r) ==
    /\ request[r].st = "waiting"
    /\ request' = [request EXCEPT ![r].st = "done", ![r].outcome = "error"]
    /\ healthPending' = [healthPending EXCEPT ![request[r].id] = NoRequest]
    /\ UNCHANGED <<clock, answer, handing, network, healthPage>>

------------------------------------------------------------------------------
(* MQTT, with messages that are lost or delivered twice, and the ESP32. *)

EspAnswers(i) ==
    /\ i \in toEsp
    /\ toEsp' \in {toEsp, toEsp \ {i}}
    /\ responses' \in {responses, responses \cup {i}}
    /\ UNCHANGED <<clock, request, healthPending, answer, handing, healthPage>>

\* Messages are handled one at a time.
HandleResponse(i) ==
    /\ i \in responses /\ handing = NoRequest
    /\ responses' \in {responses, responses \ {i}}
    /\ handing' = healthPending[i]
    /\ healthPending' = [healthPending EXCEPT ![i] = NoRequest]
    /\ UNCHANGED <<clock, request, answer, toEsp, healthPage>>

\* ch <- data, into a channel with room for one.
HandOver ==
    /\ handing # NoRequest /\ ~answer[handing]
    /\ answer' = [answer EXCEPT ![handing] = TRUE]
    /\ handing' = NoRequest
    /\ UNCHANGED <<clock, request, healthPending, network, healthPage>>

NextMillisecond ==
    /\ clock < MaxNow
    /\ clock' = clock + 1
    /\ UNCHANGED <<request, healthPending, answer, handing, network, healthPage>>

------------------------------------------------------------------------------
(* The page. *)

InFlight(r) == request[r].st \in {"publishing", "waiting"}

\* fetchHealth, when the page is opened and when Refresh is pressed, which is
\* disabled while the page is loading.
FetchHealth(r) ==
    /\ asking = NoRequest /\ asking' = r
    /\ healthError' = FALSE
    /\ Register(r) \/ Refuse(r)
    /\ UNCHANGED healthData

\* Its answer, 200 or 503, or an error on the way.
ShowHealth ==
    /\ asking # NoRequest /\ request[asking].st = "done"
    /\ asking' = NoRequest
    /\ \/ /\ request[asking].outcome = "data"
          /\ healthData' = TRUE /\ UNCHANGED healthError
       \/ healthError' = TRUE /\ UNCHANGED healthData
    /\ UNCHANGED <<clock, request, healthPending, answer, handing, network>>

HealthNext ==
    \/ \E r \in PageRequests : FetchHealth(r)
    \/ ShowHealth
    \/ \E r \in OtherRequests : (Register(r) \/ Refuse(r)) /\ UNCHANGED healthPage
    \/ \E r \in Requests : Publish(r) \/ TakeAnswer(r) \/ TimeOut(r)
    \/ \E i \in Ids : EspAnswers(i) \/ HandleResponse(i)
    \/ HandOver
    \/ NextMillisecond

HealthSpec == HealthInit /\ [][HealthNext]_healthVars

------------------------------------------------------------------------------
(* Properties. *)

\* The map holds nothing but requests that still wait, under their own ids: none
\* is left behind by a timeout or an answer.
EntryIsWaiter ==
    \A i \in Ids : LET r == healthPending[i] IN
        r # NoRequest => InFlight(r) /\ request[r].id = i

\* The message handler never waits for room in a channel, though it sends after
\* the mutex is released and the request may have gone.
HandlerIsFree == handing # NoRequest => ~answer[handing]

\* A request that waits can still be answered, unless another one was made in
\* the same millisecond.
WaiterIsHeard ==
    \A r \in Requests : InFlight(r) =>
        \/ healthPending[request[r].id] = r
        \/ handing = r \/ answer[r]
        \/ \E q \in Requests \ {r} : request[q].st # "idle" /\ request[q].id = request[r].id

HealthIsServed == EntryIsWaiter /\ HandlerIsFree /\ WaiterIsHeard

==============================================================================
