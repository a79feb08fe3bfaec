----------------------------- MODULE Illumination -----------------------------
(***************************************************************************)
(* The page with the lights: a card for each table, which is tapped, and    *)
(* two buttons for all of them.  The page marks a table pending from the    *)
(* tap to the answer of its request, whatever the store says meanwhile.     *)
(*                                                                         *)
(* A tap is refused while the table is pending; the buttons never are, and  *)
(* an answer takes away the marks of the tables that the page knew when the *)
(* request was made, also those that another request has set.               *)
(***************************************************************************)
EXTENDS Naturals

CONSTANTS
    Tables,
    CallIds     \* bound: requests that are not answered at the same time

VARIABLES
    tables,          \* the store's tables: none before INITIAL_STATE
    lightStatus,     \* lightStatus[t] in the store
    pendingActions,  \* pendingActions[t]: the page's own mark
    calls,           \* calls[c]: a request that is not answered
    crossed          \* history: since the page was last quiet, a button has been
                     \* pressed while a request was under way or without tables

lightVars == <<tables, lightStatus, pendingActions, calls, crossed>>

Unmarked == "none"
Pending == {"PENDING-ON", "PENDING-OFF"}
Towards(target) == IF target = "ON" THEN "PENDING-ON" ELSE "PENDING-OFF"

\* A request: the light or lights it switches, the tables whose marks it takes
\* away when it is answered, and the state it asks for.
Call == [on : SUBSET Tables, marked : SUBSET Tables, target : {"ON", "OFF"}]
NoCall == [on |-> {}, marked |-> {}, target |-> "none"]

UnderWay == {c \in CallIds : calls[c] # NoCall}

IlluminationTypeOK ==
    /\ tables \in {{}, Tables}
    /\ lightStatus \in [Tables -> {"ON", "OFF"} \cup Pending]
    /\ pendingActions \in [Tables -> Pending \cup {Unmarked}]
    /\ calls \in [CallIds -> Call \cup {NoCall}]
    /\ crossed \in BOOLEAN

IlluminationInit ==
    /\ tables = {}
    /\ lightStatus = [t \in Tables |-> "OFF"]
    /\ pendingActions = [t \in Tables |-> Unmarked]
    /\ calls = [c \in CallIds |-> NoCall]
    /\ crossed = FALSE

------------------------------------------------------------------------------
\* INITIAL_STATE or TABLES_UPDATED: the backend's lights, whatever they are.
Receive ==
    /\ tables' = Tables
    /\ lightStatus' \in [Tables -> {"ON", "OFF"} \cup Pending]
    /\ UNCHANGED <<pendingActions, calls, crossed>>

\* A request is made.
Start(c, switched, marked, target) ==
    /\ calls[c] = NoCall
    /\ calls' = [calls EXCEPT ![c] = [on |-> switched, marked |-> marked, target |-> target]]
    /\ pendingActions' = [t \in Tables |-> IF t \in marked THEN Towards(target) ELSE pendingActions[t]]
    /\ UNCHANGED <<tables, lightStatus>>

ShownLight(t) ==
    IF pendingActions[t] # Unmarked THEN pendingActions[t] ELSE lightStatus[t]

ToggleLightMarked(t) ==   \* a bug: the card looks at the store's light only
    /\ t \in tables /\ lightStatus[t] \notin Pending
    /\ \E c \in CallIds : Start(c, {t}, {t}, IF lightStatus[t] = "ON" THEN "OFF" ELSE "ON")
    /\ UNCHANGED crossed

\* A card is tapped: the light is switched to what the store's is not.
ToggleLight(t) ==
    /\ t \in tables /\ ShownLight(t) \notin Pending
    /\ \E c \in CallIds : Start(c, {t}, {t}, IF lightStatus[t] = "ON" THEN "OFF" ELSE "ON")
    /\ UNCHANGED crossed

\* All On, All Off.
ToggleAllLights(target) ==
    /\ \E c \in CallIds : Start(c, Tables, tables, target)
    /\ crossed' = (crossed \/ UnderWay # {} \/ tables = {})

\* The answer, or an error: the marks are taken away either way.
Answer(c) ==
    /\ calls[c] # NoCall
    /\ calls' = [calls EXCEPT ![c] = NoCall]
    /\ pendingActions' =
         [t \in Tables |-> IF t \in calls[c].marked THEN Unmarked ELSE pendingActions[t]]
    /\ crossed' = (crossed /\ UnderWay # {c})
    /\ UNCHANGED <<tables, lightStatus>>

IlluminationNext ==
    \/ Receive
    \/ \E t \in Tables : ToggleLight(t)
    \/ \E s \in {"ON", "OFF"} : ToggleAllLights(s)
    \/ \E c \in CallIds : Answer(c)

IlluminationSpec == IlluminationInit /\ [][IlluminationNext]_lightVars

------------------------------------------------------------------------------
(* Properties. *)

\* A spinner never outlives its request: a table that the page marks is one
\* whose mark some request under way will take away.
MarkHasCall ==
    \A t \in Tables : pendingActions[t] # Unmarked =>
        \E c \in UnderWay : t \in calls[c].marked

\* As long as the buttons for all tables do not cross a request, a light has the
\* spinner exactly while a request on it is under way, and never two of them,
\* which could reach the backend in the other order.
OneCallPerLight ==
    ~crossed => \A t \in Tables :
        /\ pendingActions[t] # Unmarked <=> \E c \in UnderWay : t \in calls[c].on
        /\ \A c, d \in UnderWay : t \in calls[c].on \cap calls[d].on => c = d

SpinnerIsOneCall == MarkHasCall /\ OneCallPerLight

==============================================================================
