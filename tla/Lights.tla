------------------------------- MODULE Lights --------------------------------
(***************************************************************************)
(* The lights of the tables, end to end: what the venue cache says of a     *)
(* light, TableService's commands and their bounded channel, the MQTT       *)
(* client, the two directions of the broker, and the ESP32 with its relays. *)
(*                                                                         *)
(* To a light, activating or deactivating a table is the same as a manual   *)
(* switch of it: the cache is marked PENDING, then a command is queued.     *)
(* Messages have QoS 1.  The backend has a persistent session, the ESP32 a  *)
(* clean one: what the broker has for the ESP32 is lost while it is away.   *)
(***************************************************************************)
EXTENDS Naturals, Sequences

CONSTANTS
    Tables,
    All,           \* table 0 of a command, "ALL" in a message
    Callers,       \* goroutines that may switch lights at the same time
    Switches,      \* the commands they may give, a subset of Command
    ChanSize,      \* capacity of mqttCmdChan (16 in the code)
    MaxSwitches,   \* bound: switches in a behaviour
    Upsets,        \* what may disturb the system, a subset of UpsetKinds
    MaxUpsets      \* bound: disturbances in a behaviour

VARIABLES
    light,      \* light[t]: LightStatus of t in the cache
    sending,    \* sending[c]: the command c has yet to put into the channel
    cmds,       \* mqttCmdChan
    dropped,    \* a command has been dropped by the backend (history)
    online,     \* the backend's first connection to the broker succeeded
    sync,       \* sync[s]: the full state sync that s is preparing
    down,       \* messages on their way to the ESP32
    up,         \* messages on their way to the backend
    esp,        \* the ESP32: connected to the broker, away, or just booted
    relay,      \* relay[t]: the relay of t is on
    queue,      \* queue[t]: the ESP32's entry for t in Hardware::tables
    stage,      \* stage[t]: how far update() has come with t
    switches,   \* number of switches so far
    upsets      \* number of disturbances so far

server == <<light, sending, cmds, dropped, sync>>
device == <<relay, queue, stage>>
counts == <<switches, upsets>>
vars == <<server, online, down, up, esp, device, counts>>

\* "preempt": the MQTT task of the ESP32 runs inside an iteration of update().
UpsetKinds == {"preempt", "duplicate", "disconnect", "reboot", "reconnect",
               "restart"}

Command == [to : Tables \cup {All}, on : BOOLEAN]
NoCommand == [to |-> All]

\* A full state sync is published by the connect handler and in answer to a
\* request of the ESP32.
Syncers == {"onConnect", "onMessage"}
None == [is |-> "none"]
Due == [is |-> "due"]

ASSUME LightsAssumption ==
    /\ All \notin Tables
    /\ Switches \subseteq Command
    /\ ChanSize \in Nat \ {0}
    /\ MaxSwitches \in Nat
    /\ MaxUpsets \in Nat
    /\ Upsets \subseteq UpsetKinds

Final(on) == IF on THEN "ON" ELSE "OFF"
Pending(on) == IF on THEN "PENDING-ON" ELSE "PENDING-OFF"
IsPending(status) == status \in {"PENDING-ON", "PENDING-OFF"}

Set(cmd) == [kind |-> "set", to |-> cmd.to, on |-> cmd.on]
Sync(on) == [kind |-> "sync", tables |-> on]
Ack(target, on) == [kind |-> "ack", to |-> target, on |-> on]
SyncRequest == [kind |-> "request"]
SyncAck == [kind |-> "syncAck"]

SyncMessage == {Sync(on) : on \in [Tables -> BOOLEAN]}
AckMessage == {Ack(target, on) : target \in Tables \cup {All}, on \in BOOLEAN}
DownMessage == {Set(cmd) : cmd \in Command} \cup SyncMessage
UpMessage == {SyncRequest, SyncAck} \cup AckMessage

Quiet == [pending |-> FALSE, on |-> FALSE, ack |-> FALSE]

LightsTypeOK ==
    /\ light \in [Tables -> {"ON", "OFF", "PENDING-ON", "PENDING-OFF"}]
    /\ sending \in [Callers -> Command \cup {NoCommand}]
    /\ cmds \in Seq(Command) /\ Len(cmds) <= ChanSize
    /\ dropped \in BOOLEAN /\ online \in BOOLEAN
    /\ esp \in {"connected", "away", "booted"}
    /\ sync \in [Syncers -> {None, Due} \cup SyncMessage]
    /\ down \in Seq(DownMessage)
    /\ up \in Seq(UpMessage)
    /\ relay \in [Tables -> BOOLEAN]
    /\ queue \in [Tables -> [pending : BOOLEAN, on : BOOLEAN, ack : BOOLEAN]]
    /\ stage \in [Tables -> {"rest", "switched", "acked"}]
    /\ switches \in 0..MaxSwitches /\ upsets \in 0..MaxUpsets

\* A venue at rest: everything is connected and the cache is right.
Init ==
    /\ relay \in [Tables -> BOOLEAN]
    /\ light = [t \in Tables |-> Final(relay[t])]
    /\ sending = [c \in Callers |-> NoCommand]
    /\ cmds = <<>>
    /\ dropped = FALSE
    /\ online = TRUE
    /\ sync = [s \in Syncers |-> None]
    /\ down = <<>>
    /\ up = <<>>
    /\ esp = "connected"
    /\ queue = [t \in Tables |-> Quiet]
    /\ stage = [t \in Tables |-> "rest"]
    /\ switches = 0
    /\ upsets = 0

Upset(kind) ==
    /\ kind \in Upsets
    /\ upsets < MaxUpsets
    /\ upsets' = upsets + 1
    /\ UNCHANGED switches

------------------------------------------------------------------------------
(* TableService and the cache. *)

\* The tables that a command or an acknowledgement for target is about.
Addressed(target) == IF target = All THEN Tables ELSE {target}

\* The cache first ...
SetLight(c) ==
    /\ sending[c] = NoCommand
    /\ switches < MaxSwitches
    /\ switches' = switches + 1
    /\ \E cmd \in Switches :
        /\ light' = [t \in Tables |->
                        IF t \in Addressed(cmd.to) THEN Pending(cmd.on) ELSE light[t]]
        /\ sending' = [sending EXCEPT ![c] = cmd]
    /\ UNCHANGED <<cmds, dropped, sync, online, down, up, esp, device, upsets>>

\* Mutant: a channel without a capacity.
SendUnbounded(c) ==
    /\ sending[c] # NoCommand
    /\ cmds' = Append(cmds, sending[c])
    /\ sending' = [sending EXCEPT ![c] = NoCommand]
    /\ UNCHANGED <<light, dropped, sync, online, down, up, esp, device, counts>>

\* ... then the channel, without blocking: the command of a caller is dropped
\* when the channel is full.
SendCommand(c) ==
    /\ sending[c] # NoCommand
    /\ IF Len(cmds) < ChanSize
       THEN cmds' = Append(cmds, sending[c]) /\ UNCHANGED dropped
       ELSE dropped' = TRUE /\ UNCHANGED cmds
    /\ sending' = [sending EXCEPT ![c] = NoCommand]
    /\ UNCHANGED <<light, sync, online, down, up, esp, device, counts>>

\* ConfirmLightStatus, ConfirmAllLightStatuses.
Confirm(target, on) ==
    light' = [t \in Tables |->
                IF t \in Addressed(target) THEN Final(on) ELSE light[t]]

ConfirmFullSync ==
    light' = [t \in Tables |->
                IF light[t] = "PENDING-ON" THEN "ON"
                ELSE IF light[t] = "PENDING-OFF" THEN "OFF" ELSE light[t]]

------------------------------------------------------------------------------
(* The MQTT client. *)

\* A client that has never been connected drops the command; one that has lost
\* its connection stores it and sends it when it is back.
PublishRelayCommand ==
    /\ cmds # <<>>
    /\ cmds' = Tail(cmds)
    /\ IF online THEN down' = Append(down, Set(Head(cmds))) /\ UNCHANGED dropped
                 ELSE dropped' = TRUE /\ UNCHANGED down
    /\ UNCHANGED <<light, sending, sync, online, up, esp, device, counts>>

\* Mutant: only what is confirmed ON counts as on.
SnapshotConfirmed == [t \in Tables |-> light[t] = "ON"]

\* GetCacheSnapshot: what is PENDING-ON counts as on.
Snapshot == [t \in Tables |-> light[t] \in {"ON", "PENDING-ON"}]

TakeSnapshot(s) ==
    /\ sync[s] = Due
    /\ sync' = [sync EXCEPT ![s] = Sync(Snapshot)]
    /\ UNCHANGED <<light, sending, cmds, dropped, online, down, up, esp, device, counts>>

PublishFullStateSync(s) ==
    /\ sync[s] \notin {None, Due}
    /\ down' = Append(down, sync[s])
    /\ sync' = [sync EXCEPT ![s] = None]
    /\ UNCHANGED <<light, sending, cmds, dropped, online, up, esp, device, counts>>

\* handleMessage; the client calls it for one message after the other.
HandleMessage ==
    /\ online
    /\ up # <<>>
    /\ sync["onMessage"] = None
    /\ up' = Tail(up)
    /\ LET m == Head(up) IN
        \/ m.kind = "ack" /\ Confirm(m.to, m.on) /\ UNCHANGED sync
        \/ m = SyncAck /\ ConfirmFullSync /\ UNCHANGED sync
        \/ m = SyncRequest /\ sync' = [sync EXCEPT !["onMessage"] = Due] /\ UNCHANGED light
    /\ UNCHANGED <<sending, cmds, dropped, online, down, esp, device, counts>>

------------------------------------------------------------------------------
(* The ESP32. *)

\* Mutant: the id of the command is not kept, so it is not acknowledged.
QueueStateNoId(t, on) == queue' = [queue EXCEPT ![t] = [pending |-> TRUE, on |-> on, ack |-> FALSE]]

\* What is queued for a table replaces what was; ALL has been acknowledged when
\* it arrived, so queueStateAll clears the commandId (.ack).
QueueState(t, on) == queue' = [queue EXCEPT ![t] = [pending |-> TRUE, on |-> on, ack |-> TRUE]]

\* Mutant: ALL does not replace what is queued already.
QueueStateOthers(on) ==
    queue' = [t \in Tables |->
                IF queue[t].pending THEN queue[t]
                ELSE [pending |-> TRUE, on |-> on, ack |-> FALSE]]

QueueStateAll(on) == queue' = [t \in Tables |-> [pending |-> TRUE, on |-> on, ack |-> FALSE]]

\* mqtt_event_handler, MQTT_EVENT_DATA.
\* A sync switches the relays at once and leaves what is queued alone; ALL is
\* acknowledged at once, a single table when its relay is switched.
EventData(m) ==
    \/ /\ m.kind = "sync"
       /\ relay' = m.tables
       /\ up' = Append(up, SyncAck)
       /\ UNCHANGED queue
    \/ /\ m.kind = "set" /\ m.to = All
       /\ up' = Append(up, Ack(All, m.on))
       /\ QueueStateAll(m.on)
       /\ UNCHANGED relay
    \/ /\ m.kind = "set" /\ m.to # All
       /\ QueueState(m.to, m.on)
       /\ UNCHANGED <<relay, up>>

Updating == \E t \in Tables : stage[t] # "rest"

Deliver ==
    /\ esp = "connected"
    /\ down # <<>>
    /\ IF Updating THEN Upset("preempt") ELSE UNCHANGED counts
    /\ EventData(Head(down))
    /\ down' = Tail(down)
    /\ UNCHANGED <<server, online, esp, stage>>

\* An iteration of update() over a table whose debounce time is over.
SwitchRelay(t) ==
    /\ ~Updating
    /\ queue[t].pending
    /\ relay' = [relay EXCEPT ![t] = queue[t].on]
    /\ stage' = [stage EXCEPT ![t] = "switched"]
    /\ UNCHANGED <<server, online, down, up, esp, queue, counts>>

AcknowledgeCommand(t) ==
    /\ stage[t] = "switched"
    /\ up' = IF queue[t].ack THEN Append(up, Ack(t, queue[t].on)) ELSE up
    /\ stage' = [stage EXCEPT ![t] = "acked"]
    /\ UNCHANGED <<server, online, down, esp, relay, queue, counts>>

ClearPending(t) ==
    /\ stage[t] = "acked"
    /\ queue' = [queue EXCEPT ![t].pending = FALSE]
    /\ stage' = [stage EXCEPT ![t] = "rest"]
    /\ UNCHANGED <<server, online, down, up, esp, relay, counts>>

Update(t) == SwitchRelay(t) \/ AcknowledgeCommand(t) \/ ClearPending(t)

\* MQTT_EVENT_CONNECTED: the sync request is published before what is left to
\* be sent again from the last connection (after a boot: nothing).
EventConnected ==
    /\ esp # "connected"
    /\ esp' = "connected"
    /\ \E n \in 0..Len(up) :
        /\ esp = "booted" => n = Len(up)
        /\ up' = SubSeq(up, 1, n) \o <<SyncRequest>> \o SubSeq(up, n + 1, Len(up))
    /\ UNCHANGED <<server, online, down, device, counts>>

------------------------------------------------------------------------------
(* What the network and the processes may do. *)

\* The broker drops what arrives for an ESP32 that is away.
Discard ==
    /\ esp # "connected"
    /\ down # <<>>
    /\ down' = Tail(down)
    /\ UNCHANGED <<server, online, up, esp, device, counts>>

\* What the broker had for the ESP32 is lost, what the client stores is not.
Disconnect ==
    /\ Upset("disconnect")
    /\ esp = "connected"
    /\ esp' = "away"
    /\ \E n \in 1..(Len(down) + 1) : down' = SubSeq(down, n, Len(down))
    /\ UNCHANGED <<server, online, up, device>>

\* The ESP32 starts again, its relays off; what it had to send is lost.
Reboot ==
    /\ Upset("reboot")
    /\ esp' = "booted"
    /\ relay' = [t \in Tables |-> FALSE]
    /\ queue' = [t \in Tables |-> Quiet]
    /\ stage' = [t \in Tables |-> "rest"]
    /\ \E n \in 1..(Len(down) + 1) : down' = SubSeq(down, n, Len(down))
    /\ \E n \in 0..Len(up) : up' = SubSeq(up, 1, n)
    /\ UNCHANGED <<server, online>>

\* QoS 1: the next message for the ESP32 arrives once more than it was sent.
Duplicate ==
    /\ Upset("duplicate")
    /\ down # <<>>
    /\ down' = <<Head(down)>> \o down
    /\ UNCHANGED <<server, online, up, esp, device>>

\* The backend's connection is lost and made again: onConnect runs.
Reconnect ==
    /\ Upset("reconnect")
    /\ online
    /\ sync["onConnect"] = None
    /\ sync' = [sync EXCEPT !["onConnect"] = Due]
    /\ UNCHANGED <<light, sending, cmds, dropped, online, down, up, esp, device>>

\* The backend dies and boots: the cache is hydrated, the lights of the tables
\* with a running booking ON, the others PENDING-OFF.  Messages it had stored
\* are lost.  If its connection is refused it is not tried again.
Restart ==
    /\ Upset("restart")
    /\ light' \in [Tables -> {"ON", "PENDING-OFF"}]
    /\ sending' = [c \in Callers |-> NoCommand]
    /\ cmds' = <<>>
    /\ online' \in BOOLEAN
    /\ sync' = [s \in Syncers |-> IF s = "onConnect" /\ online' THEN Due ELSE None]
    /\ \E n \in 0..Len(down) : down' = SubSeq(down, 1, n)
    /\ UNCHANGED <<dropped, up, esp, device>>

------------------------------------------------------------------------------

Disturb == Disconnect \/ Reboot \/ Duplicate \/ Reconnect \/ Restart

Sends == \E c \in Callers : SendCommand(c)
Syncs == \E s \in Syncers : TakeSnapshot(s) \/ PublishFullStateSync(s)
Updates == \E t \in Tables : Update(t)

Next ==
    \/ \E c \in Callers : SetLight(c)
    \/ Sends
    \/ PublishRelayCommand
    \/ Syncs
    \/ HandleMessage
    \/ Deliver
    \/ Updates
    \/ EventConnected
    \/ Discard
    \/ Disturb

\* Goroutines and the ESP32's tasks are scheduled, the broker delivers, and a
\* table's debounce time passes.  Nobody has to switch a light or to fail.
Fairness ==
    /\ \A c \in Callers : WF_vars(SendCommand(c))
    /\ \A s \in Syncers : WF_vars(TakeSnapshot(s) \/ PublishFullStateSync(s))
    /\ \A t \in Tables : WF_vars(Update(t))
    /\ WF_vars(PublishRelayCommand)
    /\ WF_vars(HandleMessage)
    /\ WF_vars(Deliver)
    /\ WF_vars(EventConnected)
    /\ WF_vars(Discard)

Spec == Init /\ [][Next]_vars /\ Fairness

------------------------------------------------------------------------------
(* Properties. *)

\* Nothing is under way anywhere and everything is connected.
AtRest ==
    /\ online /\ esp = "connected"
    /\ \A c \in Callers : sending[c] = NoCommand
    /\ cmds = <<>> /\ down = <<>> /\ up = <<>>
    /\ \A s \in Syncers : sync[s] = None
    /\ \A t \in Tables : ~queue[t].pending /\ stage[t] = "rest"

Agrees(t) == ~IsPending(light[t]) => light[t] = Final(relay[t])

\* As long as nothing is lost, disturbed or preempted, concurrent switches of
\* single tables and of all tables, with their two kinds of acknowledgement and
\* with commands dropped by a full channel, leave no light that the cache takes
\* for confirmed and that is not so.
UndisturbedAgrees ==
    upsets = 0 /\ AtRest => \A t \in Tables : Agrees(t)

\* A light does not stay PENDING unless its command was dropped or the system
\* was disturbed.
PendingIsResolved ==
    \A t \in Tables :
        IsPending(light[t]) ~> (~IsPending(light[t]) \/ dropped \/ upsets > 0)

\* "LightStatus represents the physical relay (light) state" (domain.go): once
\* everything is connected and nothing is under way, it does.
LightIsRelay ==
    AtRest => \A t \in Tables : Agrees(t)
==============================================================================
