------------------------------ MODULE LiveFeed -------------------------------
(***************************************************************************)
(* How a change of the venue cache or of today's timeline reaches browsers: *)
(* the writers' snapshots, the two bounded channels, the WebSocket hub with *)
(* a send buffer for each connection, INITIAL_STATE, and the page's store.  *)
(*                                                                         *)
(* A state of a feed is its number: 1 to begin with, one more after every   *)
(* change.  A message says something of one feed (TABLES_UPDATED,           *)
(* TIMELINE_UPDATED) or of both (INITIAL_STATE).                            *)
(***************************************************************************)
EXTENDS Naturals, Sequences

CONSTANTS
    Conns,       \* browser pages, each with one connection at a time
    Staff,       \* those of admin and staff users; the others are TV displays
    Writers,     \* goroutines that change the cache or the bookings
    Changes,     \* Changes[w]: the feeds that w may change
    ChanSize,    \* ChanSize[f]: broadcastChan (16), timelineChan (8)
    BufSize,     \* sendBufSize (32)
    MaxChanges   \* bound: changes in a behaviour (broadcasts are not bounded)

VARIABLES
    held,     \* held[f]: what the cache or the database holds
    writer,   \* writer[w]: how far w has come with its change and broadcast
    chan,     \* chan[f]: broadcastChan, timelineChan
    conn,     \* conn[c]: no connection, an open one, or one that has failed
    boot,     \* boot[c]: what sendInitialState does next for c
    init,     \* init[c]: the INITIAL_STATE it is putting together
    buf,      \* buf[c]: Client.send, with what is on the wire
    shown     \* shown[c]: the store of the page

feed == <<held, writer, chan>>
client == <<conn, boot, init, buf>>
vars == <<feed, client, shown>>

Feeds == {"tables", "timeline"}
Nothing == 0
Message == [Feeds -> Nat]
Empty == [f \in Feeds |-> Nothing]
About(f, n) == [Empty EXCEPT ![f] = n]

Idle == [at |-> "idle", of |-> "tables", data |-> Nothing]

ASSUME FeedAssumption ==
    /\ Staff \subseteq Conns
    /\ Changes \in [Writers -> SUBSET Feeds]
    /\ ChanSize \in [Feeds -> Nat \ {0}]
    /\ BufSize \in Nat \ {0}

FeedTypeOK ==
    /\ held \in [Feeds -> Nat \ {Nothing}]
    /\ writer \in [Writers -> [at : {"idle", "read", "send"}, of : Feeds, data : Nat]]
    /\ chan \in [Feeds -> Seq(Nat \ {Nothing})]
    /\ \A f \in Feeds : Len(chan[f]) <= ChanSize[f]
    /\ conn \in [Conns -> {"away", "open", "broken"}]
    /\ boot \in [Conns -> {"done", "tables", "timeline", "send"}]
    /\ init \in [Conns -> Message]
    /\ buf \in [Conns -> Seq(Message)]
    /\ \A c \in Conns : Len(buf[c]) <= BufSize
    /\ shown \in [Conns -> Message]

Init ==
    /\ held = [f \in Feeds |-> 1]
    /\ writer = [w \in Writers |-> Idle]
    /\ chan = [f \in Feeds |-> <<>>]
    /\ conn = [c \in Conns |-> "away"]
    /\ boot = [c \in Conns |-> "done"]
    /\ init = [c \in Conns |-> Empty]
    /\ buf = [c \in Conns |-> <<>>]
    /\ shown = [c \in Conns |-> Empty]

------------------------------------------------------------------------------
(* Writers. *)

\* A mutation of the cache, or a write of the bookings; some change nothing
\* that is shown (a booking of another day) and are broadcast all the same.
Mutate(w, f) ==
    /\ writer[w] = Idle /\ f \in Changes[w]
    /\ \/ UNCHANGED held
       \/ /\ held["tables"] + held["timeline"] < 2 + MaxChanges
          /\ held' = [held EXCEPT ![f] = @ + 1]
    /\ writer' = [writer EXCEPT ![w] = [at |-> "read", of |-> f, data |-> Nothing]]
    /\ UNCHANGED <<chan, client, shown>>

\* The snapshot is taken after the lock is released.
ReadSnapshot(w) ==
    /\ writer[w].at = "read"
    /\ writer' = [writer EXCEPT ![w].at = "send", ![w].data = held[writer[w].of]]
    /\ UNCHANGED <<held, chan, client, shown>>

\* The timeline is read from the database, which may fail.
ReadFails(w) ==
    /\ writer[w].at = "read" /\ writer[w].of = "timeline"
    /\ writer' = [writer EXCEPT ![w] = Idle]
    /\ UNCHANGED <<held, chan, client, shown>>

SendUnlessNearlyFull(w) ==   \* a bug: the last place of the channel is not used
    LET f == writer[w].of IN
    /\ writer[w].at = "send"
    /\ writer' = [writer EXCEPT ![w] = Idle]
    /\ chan' = IF Len(chan[f]) + 1 < ChanSize[f]
                 THEN [chan EXCEPT ![f] = Append(@, writer[w].data)] ELSE chan
    /\ UNCHANGED <<held, client, shown>>

\* The channel is full: the update is dropped.
Send(w) ==
    LET f == writer[w].of IN
    /\ writer[w].at = "send"
    /\ writer' = [writer EXCEPT ![w] = Idle]
    /\ chan' = IF Len(chan[f]) < ChanSize[f]
                 THEN [chan EXCEPT ![f] = Append(@, writer[w].data)] ELSE chan
    /\ UNCHANGED <<held, client, shown>>

------------------------------------------------------------------------------
(* The hub. *)

Registered(c) == conn[c] # "away"

\* One message of a channel goes into the buffer of every staff connection
\* that has room.  Registration waits for the loop over the clients, and the
\* clients are independent of each other: the loop is one step.
Broadcast(f) ==
    /\ chan[f] # <<>>
    /\ chan' = [chan EXCEPT ![f] = Tail(@)]
    /\ buf' = [c \in Conns |->
                 IF Registered(c) /\ c \in Staff /\ Len(buf[c]) < BufSize
                   THEN Append(buf[c], About(f, Head(chan[f]))) ELSE buf[c]]
    /\ UNCHANGED <<held, writer, conn, boot, init, shown>>

JoinAfterRead(c) ==   \* a bug: the tables are read before the client is registered
    /\ conn[c] = "away"
    /\ IF boot[c] = "done"
         THEN /\ boot' = [boot EXCEPT ![c] = "tables"]
              /\ init' = [init EXCEPT ![c] = About("tables", held["tables"])]
              /\ UNCHANGED conn
         ELSE /\ boot[c] = "tables" /\ boot' = [boot EXCEPT ![c] = "timeline"]
              /\ conn' = [conn EXCEPT ![c] = "open"]
              /\ UNCHANGED init
    /\ buf' = [buf EXCEPT ![c] = <<>>]
    /\ UNCHANGED <<feed, shown>>

\* A page connects (again): it is registered, then INITIAL_STATE is prepared.
\* The store keeps what it showed before.
HandleConn(c) ==
    /\ conn[c] = "away" /\ boot[c] = "done"
    /\ conn' = [conn EXCEPT ![c] = "open"]
    /\ boot' = [boot EXCEPT ![c] = "tables"]
    /\ buf' = [buf EXCEPT ![c] = <<>>]
    /\ UNCHANGED <<feed, init, shown>>

InitialTables(c) ==
    /\ boot[c] = "tables"
    /\ init' = [init EXCEPT ![c] = About("tables", held["tables"])]
    /\ boot' = [boot EXCEPT ![c] = IF c \in Staff THEN "timeline" ELSE "send"]
    /\ UNCHANGED <<feed, conn, buf, shown>>

\* If the timeline cannot be read, INITIAL_STATE is sent without it.
InitialTimeline(c) ==
    /\ boot[c] = "timeline"
    /\ \E n \in {held["timeline"], Nothing} : init' = [init EXCEPT ![c]["timeline"] = n]
    /\ boot' = [boot EXCEPT ![c] = "send"]
    /\ UNCHANGED <<feed, conn, buf, shown>>

SendInitialOnly(c) ==   \* a bug: only the send, without the case of ctx.Done()
    /\ boot[c] = "send" /\ Len(buf[c]) < BufSize
    /\ buf' = [buf EXCEPT ![c] = Append(@, init[c])]
    /\ boot' = [boot EXCEPT ![c] = "done"]
    /\ init' = [init EXCEPT ![c] = Empty]
    /\ UNCHANGED <<feed, conn, shown>>

\* It waits for room in the buffer, or until the client's context is cancelled.
SendInitial(c) ==
    /\ boot[c] = "send"
    /\ \/ Len(buf[c]) < BufSize /\ buf' = [buf EXCEPT ![c] = Append(@, init[c])]
       \/ ~Registered(c) /\ UNCHANGED buf
    /\ boot' = [boot EXCEPT ![c] = "done"]
    /\ init' = [init EXCEPT ![c] = Empty]
    /\ UNCHANGED <<feed, conn, shown>>

\* The write pump, the wire, and the page: setTables and setTimeline replace
\* what the store has by what the message is about.
WritePump(c) ==
    /\ conn[c] = "open" /\ buf[c] # <<>>
    /\ buf' = [buf EXCEPT ![c] = Tail(@)]
    /\ shown' = [shown EXCEPT ![c] =
                   [f \in Feeds |-> IF Head(buf[c])[f] = Nothing
                                      THEN @[f] ELSE Head(buf[c])[f]]]
    /\ UNCHANGED <<feed, conn, boot, init>>

\* The connection is lost: the page is closed, the network fails, a pong or a
\* write takes too long.
Lose(c) ==
    /\ conn[c] = "open"
    /\ conn' = [conn EXCEPT ![c] = "broken"]
    /\ UNCHANGED <<feed, boot, init, buf, shown>>

\* The write pump has a deadline: it ends if the message cannot be written.
WriteTimesOut(c) == buf[c] # <<>> /\ Lose(c)

\* The read pump has returned; the client is removed, its context cancelled.
Unregister(c) ==
    /\ conn[c] = "broken"
    /\ conn' = [conn EXCEPT ![c] = "away"]
    /\ UNCHANGED <<feed, boot, init, buf, shown>>

------------------------------------------------------------------------------

WriterStep(w) == ReadSnapshot(w) \/ ReadFails(w) \/ Send(w)
BootStep(c) == InitialTables(c) \/ InitialTimeline(c) \/ SendInitial(c)
Pump(c) == WritePump(c) \/ WriteTimesOut(c)

Next ==
    \/ \E w \in Writers : (\E f \in Feeds : Mutate(w, f)) \/ WriterStep(w)
    \/ \E f \in Feeds : Broadcast(f)
    \/ \E c \in Conns : HandleConn(c) \/ BootStep(c) \/ WritePump(c) \/ Lose(c)
                        \/ Unregister(c)

\* Goroutines run: the writers', the hub's, and those of each client, whose
\* writes succeed or time out.  A goroutine that waits for room in a buffer is
\* given the next place (Go's channels queue their senders).  Nobody has to
\* connect, to leave, or to change anything.
Fairness ==
    /\ \A w \in Writers : WF_vars(WriterStep(w))
    /\ \A f \in Feeds : WF_vars(Broadcast(f))
    /\ \A c \in Conns :
         /\ WF_vars(InitialTables(c) \/ InitialTimeline(c)) /\ SF_vars(SendInitial(c))
         /\ WF_vars(Pump(c)) /\ WF_vars(Unregister(c))

Spec == Init /\ [][Next]_vars /\ Fairness

------------------------------------------------------------------------------
(* Properties. *)

\* Nothing of feed f is on its way to page c, which is connected.
Settled(c, f) ==
    /\ conn[c] = "open" /\ boot[c] = "done" /\ buf[c] = <<>> /\ chan[f] = <<>>
    /\ \A w \in Writers : writer[w] # Idle => writer[w].of # f

\* The goroutine that sends INITIAL_STATE ends for every connection, also for
\* one that is lost while its buffer is full: none is left behind.
InitialEnds == \A c \in Conns : boot[c] # "done" ~> boot[c] = "done"
==============================================================================
