------------------------------ MODULE FeedWatch -------------------------------
(* LiveFeed with a history variable for what an undisturbed update achieves. *)
EXTENDS LiveFeed

\* calm[f]: the latest change of f began while no other change of f and no
\* INITIAL_STATE that had read f were under way, and nothing of f has been
\* dropped or could not be read since.
VARIABLE calm
watchVars == <<vars, calm>>

Changing(w, f) == writer[w] # Idle /\ writer[w].of = f

\* w begins to change f now.
Begins(w, f) == writer[w] = Idle /\ Changing(w, f)'

Alone(w, f) ==
    /\ \A v \in Writers \ {w} : ~Changing(v, f)
    /\ \A c \in Conns : boot[c] # "send" /\ (boot[c] = "timeline" => f = "timeline")

Lost(f) ==
    \/ \E w \in Writers :
         /\ Changing(w, f) /\ writer'[w] = Idle
         /\ writer[w].at = "read" \/ Len(chan[f]) = ChanSize[f]
    \/ /\ Len(chan'[f]) < Len(chan[f])
       /\ \E c \in Staff : conn[c] = "open" /\ Len(buf[c]) = BufSize
    \/ \E c \in Staff :
         boot[c] = "timeline" /\ boot'[c] = "send" /\ init'[c][f] = Nothing

WatchInit == Init /\ calm = [f \in Feeds |-> TRUE]

WatchNext ==
    /\ Next
    /\ calm' = [f \in Feeds |->
                  IF \E w \in Writers : Begins(w, f)
                    THEN \E w \in Writers : Begins(w, f) /\ Alone(w, f)
                    ELSE calm[f] /\ ~Lost(f)]

WatchSpec == WatchInit /\ [][WatchNext]_watchVars /\ Fairness

\* "The next mutation will send a fresh snapshot": whatever was dropped, sent
\* out of order or overtaken by an INITIAL_STATE before, a change that runs by
\* itself and of which nothing is dropped leaves every staff page, whenever it
\* connected, with what the cache or the database holds.
NextMutationRepairs ==
    \A c \in Staff, f \in Feeds :
        calm[f] /\ Settled(c, f) => shown[c][f] = held[f]

\* And it gets there: no goroutine on the way waits for a slow page.
CalmFeedArrives ==
    \A c \in Staff, f \in Feeds :
        calm[f] /\ conn[c] = "open" ~>
            shown[c][f] = held[f] \/ ~calm[f] \/ conn[c] # "open"

\* Only *timeline* updates are for admin and staff alone: the status board of a
\* TV display is kept as current as any other page's tables.
EveryBoardIsCurrent ==
    \A c \in Conns :
        calm["tables"] /\ Settled(c, "tables") =>
            shown[c]["tables"] = held["tables"]
==============================================================================
