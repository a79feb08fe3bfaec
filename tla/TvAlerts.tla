------------------------------- MODULE TvAlerts -------------------------------
(***************************************************************************)
(* One card of the TV display: the countdown of a session, its badge, and   *)
(* the sounds of its stages.  The badge is chosen by the exact remaining    *)
(* time, the sounds by the remaining whole seconds.  That a stage has been  *)
(* announced is kept for the table, not for the session.                    *)
(*                                                                         *)
(* The card's clock is the time of its last frame: frames stop while the    *)
(* display is in the background, and an update is rendered all the same.    *)
(***************************************************************************)
EXTENDS Integers

CONSTANTS
    PerSecond,    \* units of time in a second
    StartWindow,  \* 60 seconds
    Soon, Final,  \* 10 and 3 minutes, in seconds
    Sessions,     \* the sessions of the table, [start, end]
    NoSession,
    MaxWall       \* bound: the last instant

VARIABLES
    wall,      \* the time
    frame,     \* the card's now
    session,   \* the table's session in the store
    started,   \* the display has been started by a tap
    alerted,   \* previousStates[tableId]
    first,     \* history: the first session that the card has shown
    repeated   \* history: it has shown another one, or other times of it

tvVars == <<wall, frame, session, started, alerted, first, repeated>>

ASSUME TvAssumption ==
    /\ PerSecond \in Nat \ {0} /\ StartWindow \in Nat /\ Soon \in Nat /\ Final \in Nat
    /\ 0 < Final /\ Final < Soon
    /\ Sessions \subseteq [start : Nat, end : Nat] /\ NoSession \notin Sessions
    /\ MaxWall \in Nat

Stages == {"started", "soon", "final", "ended"}

TvTypeOK ==
    /\ wall \in 0..MaxWall /\ frame \in 0..wall
    /\ session \in Sessions \cup {NoSession} /\ first \in Sessions \cup {NoSession}
    /\ started \in BOOLEAN /\ repeated \in BOOLEAN
    /\ alerted \subseteq Stages

TvInit ==
    /\ wall = 0 /\ frame = 0
    /\ session = NoSession /\ first = NoSession
    /\ started = FALSE /\ repeated = FALSE
    /\ alerted = {}

------------------------------------------------------------------------------
Remaining(s, now) == s.end - now

\* Math.floor(remainingMs / 1000)
TotalSeconds(s, now) == Remaining(s, now) \div PerSecond

DueToTheSecond(s, now) ==   \* a bug: the sound of the final minutes is a second late
    {g \in Stages :
       CASE g = "started" -> now >= s.start /\ now - s.start <= StartWindow * PerSecond
         [] g = "soon"    -> TotalSeconds(s, now) <= Soon /\ TotalSeconds(s, now) > Final
         [] g = "final"   -> TotalSeconds(s, now) < Final /\ TotalSeconds(s, now) > 0
         [] g = "ended"   -> TotalSeconds(s, now) <= 0}

\* The stages that the effect announces, if they have not been.
Due(s, now) ==
    {g \in Stages :
       CASE g = "started" -> now >= s.start /\ now - s.start <= StartWindow * PerSecond
         [] g = "soon"    -> TotalSeconds(s, now) <= Soon /\ TotalSeconds(s, now) > Final
         [] g = "final"   -> TotalSeconds(s, now) <= Final /\ TotalSeconds(s, now) > 0
         [] g = "ended"   -> TotalSeconds(s, now) <= 0}

Badge(s, now) ==
    LET r == Remaining(s, now) IN
    CASE r <= 0 -> "ended"
      [] r > 0 /\ r <= Final * PerSecond -> "final"
      [] r > Final * PerSecond /\ r <= Soon * PerSecond -> "soon"
      [] OTHER -> "in play"

\* The card is rendered with s at now, and its effect runs.
Render(s, now) ==
    /\ frame' = now
    /\ IF s = NoSession
         THEN UNCHANGED <<alerted, first, repeated>>
         ELSE /\ alerted' = alerted \cup Due(s, now)
              /\ first' = IF first = NoSession THEN s ELSE first
              /\ repeated' = (repeated \/ s # first')

------------------------------------------------------------------------------
TvStart ==
    /\ ~started /\ started' = TRUE
    /\ Render(session, wall)
    /\ UNCHANGED <<wall, session>>

\* The store's tables change; the card, if there is one, is rendered.
TvReceive ==
    /\ session' \in (Sessions \cup {NoSession}) \ {session}
    /\ IF started THEN Render(session', frame) ELSE UNCHANGED <<frame, alerted, first, repeated>>
    /\ UNCHANGED <<wall, started>>

NextFrame ==
    /\ started /\ frame # wall
    /\ Render(session, wall)
    /\ UNCHANGED <<wall, session, started>>

TimePasses ==
    /\ wall < MaxWall /\ wall' = wall + 1
    /\ UNCHANGED <<frame, session, started, alerted, first, repeated>>

TvNext == TvStart \/ TvReceive \/ NextFrame \/ TimePasses

TvSpec == TvInit /\ [][TvNext]_tvVars

------------------------------------------------------------------------------
(* Properties. *)

\* Its sound or that of a later stage has been played on this table before a badge
\* is shown.  In the table's first session that is the session's own sound; it may
\* be that of an earlier session afterwards, because what has been announced is
\* never forgotten: the badges of later sessions are silent.
BadgeIsAnnounced ==
    started /\ session # NoSession =>
        CASE Badge(session, frame) = "ended" -> "ended" \in alerted
          [] Badge(session, frame) = "final" -> alerted \cap {"final", "ended"} # {}
          [] Badge(session, frame) = "soon"  -> alerted \cap {"soon", "final"} # {}
          [] OTHER -> TRUE

\* In the first session of a table no sound is played more than a second before
\* its badge.  The sounds of later sessions have been played already.
NoSoundIsEarly ==
    started /\ session # NoSession /\ ~repeated =>
        /\ "ended" \in alerted => Remaining(session, frame) < PerSecond
        /\ "final" \in alerted => Remaining(session, frame) < (Final + 1) * PerSecond
        /\ "soon" \in alerted => Remaining(session, frame) < (Soon + 1) * PerSecond

\* Both are about what has been played on a table: of its first session they say
\* that badge and sound go together, of later ones only that the sound has been
\* played some time.
SoundsFollowBadges == BadgeIsAnnounced /\ NoSoundIsEarly

==============================================================================
