----------------------------- MODULE LightsWatch ------------------------------
(* Lights with a history variable for what a sync repairs. *)
EXTENDS Lights

\* calm: a sync request has been read while nothing else was under way, and
\* nothing but that sync has happened since.
VARIABLE calm
watchVars == <<vars, calm>>

\* Nothing is under way but a sync request that the backend has yet to read.
OnlyRequest ==
    /\ up = <<SyncRequest>> /\ down = <<>> /\ cmds = <<>>
    /\ \A c \in Callers : sending[c] = NoCommand
    /\ \A s \in Syncers : sync[s] = None
    /\ \A t \in Tables : ~queue[t].pending /\ stage[t] = "rest"

WatchInit == Init /\ calm = FALSE

WatchNext ==
    /\ Next
    /\ calm' = IF counts' # counts THEN FALSE
               ELSE calm \/ (OnlyRequest /\ up' = <<>>)

WatchSpec == WatchInit /\ [][WatchNext]_watchVars /\ Fairness

\* "Send full state sync immediately so the ESP32 knows the current truth":
\* whatever was lost, dropped or confirmed wrongly before, a sync request that
\* is answered in a quiet system leaves every light confirmed and as the cache
\* says, also those whose command was dropped.
SyncRepairs ==
    calm /\ AtRest =>
        \A t \in Tables : Agrees(t) /\ ~IsPending(light[t])
==============================================================================
