---------------------------- MODULE LiveFeedProofs ----------------------------
(***************************************************************************)
(* What a browser is shown, for any pages, writers, channels and buffers    *)
(* and any number of changes.                                               *)
(***************************************************************************)
EXTENDS FeedWatch, SequenceTheorems, TLAPS

LEMMA FeedsAre == Feeds = {"tables", "timeline"} /\ Nothing = 0
  BY DEF Feeds, Nothing

LEMMA IdleIs ==
    /\ Idle.at = "idle" /\ Idle.of \in Feeds /\ Idle.data = Nothing
    /\ Idle \in [at : {"idle", "read", "send"}, of : Feeds, data : Nat]
  BY DEF Idle, Feeds, Nothing

LEMMA AboutIs ==
    ASSUME NEW f \in Feeds, NEW n \in Nat
    PROVE  /\ About(f, n) \in Message /\ About(f, n)[f] = n
           /\ \A g \in Feeds : g # f => About(f, n)[g] = Nothing
  BY DEF About, Empty, Message, Nothing

------------------------------------------------------------------------------
(* Types. *)

\* What is sent is something.
SentIsSome == \A w \in Writers : writer[w].at = "send" => writer[w].data # Nothing

WriterType ==
    /\ held \in [Feeds -> Nat \ {Nothing}]
    /\ writer \in [Writers -> [at : {"idle", "read", "send"}, of : Feeds, data : Nat]]
    /\ SentIsSome

ChanType ==
    /\ chan \in [Feeds -> Seq(Nat \ {Nothing})]
    /\ \A f \in Feeds : Len(chan[f]) <= ChanSize[f]

ConnType ==
    /\ conn \in [Conns -> {"away", "open", "broken"}]
    /\ boot \in [Conns -> {"done", "tables", "timeline", "send"}]
    /\ init \in [Conns -> Message]

PageType ==
    /\ buf \in [Conns -> Seq(Message)]
    /\ \A c \in Conns : Len(buf[c]) <= BufSize
    /\ shown \in [Conns -> Message]

LEMMA TypeSplits ==
    FeedTypeOK /\ SentIsSome <=> WriterType /\ ChanType /\ ConnType /\ PageType
  BY Zenon DEF FeedTypeOK, WriterType, ChanType, ConnType, PageType

LEMMA InitType == Init => FeedTypeOK /\ SentIsSome
<1> SUFFICES ASSUME Init PROVE FeedTypeOK /\ SentIsSome
  OBVIOUS
<1>1. Empty \in Message
  BY DEF Empty, Message, Nothing
<1>2. WriterType
  BY IdleIs DEF Init, WriterType, SentIsSome, Nothing
<1>3. ChanType
  BY FeedAssumption DEF Init, ChanType
<1>4. ConnType
  BY <1>1 DEF Init, ConnType
<1>5. PageType
  BY <1>1, FeedAssumption DEF Init, PageType
<1> QED BY <1>2, <1>3, <1>4, <1>5, TypeSplits

LEMMA RoomInChannel ==
    ASSUME ChanType, NEW f \in Feeds, NEW n \in Nat \ {Nothing}
    PROVE  (IF Len(chan[f]) < ChanSize[f]
              THEN [chan EXCEPT ![f] = Append(@, n)] ELSE chan) = chan' => ChanType'
<1> SUFFICES ASSUME chan' = IF Len(chan[f]) < ChanSize[f]
                              THEN [chan EXCEPT ![f] = Append(@, n)] ELSE chan
             PROVE  ChanType'
  OBVIOUS
<1>1. CASE Len(chan[f]) < ChanSize[f]
  <2>1. /\ chan[f] \in Seq(Nat \ {Nothing}) /\ Len(chan[f]) \in Nat
        /\ ChanSize[f] \in Nat
    BY FeedAssumption DEF ChanType
  <2>2. /\ Append(chan[f], n) \in Seq(Nat \ {Nothing})
        /\ Len(Append(chan[f], n)) = Len(chan[f]) + 1
    BY <2>1, AppendProperties
  <2>3. chan' = [chan EXCEPT ![f] = Append(chan[f], n)]
    BY <1>1
  <2>4. chan' \in [Feeds -> Seq(Nat \ {Nothing})]
    BY <2>2, <2>3 DEF ChanType
  <2>5. \A g \in Feeds : Len(chan'[g]) <= ChanSize[g]
    BY <1>1, <2>1, <2>2, <2>3 DEF ChanType
  <2> QED BY <2>4, <2>5 DEF ChanType
<1>2. CASE ~(Len(chan[f]) < ChanSize[f])
  BY <1>2 DEF ChanType
<1> QED BY <1>1, <1>2

LEMMA WriterTypes ==
    ASSUME WriterType, ChanType, NEW w \in Writers,
           (\E f \in Feeds : Mutate(w, f)) \/ WriterStep(w)
    PROVE  WriterType' /\ ChanType' /\ UNCHANGED <<client, shown>>
<1> DEFINE W == [at : {"idle", "read", "send"}, of : Feeds, data : Nat]
<1>1. writer[w] \in W /\ held[writer[w].of] \in Nat \ {Nothing}
  BY DEF WriterType
<1>2. ASSUME NEW f \in Feeds, Mutate(w, f) PROVE WriterType' /\ ChanType'
  <2>1. held' \in [Feeds -> Nat \ {Nothing}]
    BY <1>2 DEF Mutate, WriterType, Nothing
  <2>2. [at |-> "read", of |-> f, data |-> Nothing] \in W
    BY DEF Nothing
  <2>3. writer' \in [Writers -> W] /\ \A v \in Writers \ {w} : writer'[v] = writer[v]
    BY <1>2, <2>2 DEF Mutate, WriterType
  <2>4. writer'[w].at = "read"
    BY <1>2 DEF Mutate, WriterType
  <2>5. SentIsSome'
    BY <2>3, <2>4 DEF WriterType, SentIsSome
  <2>6. ChanType'
    BY <1>2 DEF Mutate, ChanType
  <2> QED BY <2>1, <2>3, <2>5, <2>6 DEF WriterType
<1>3. CASE ReadSnapshot(w)
  <2> DEFINE r == [writer[w] EXCEPT !.at = "send", !.data = held[writer[w].of]]
  <2>1. r \in W /\ r.data # Nothing
    BY <1>1
  <2>2. writer' = [writer EXCEPT ![w] = r]
    BY <1>3 DEF ReadSnapshot
  <2> HIDE DEF r
  <2>3. /\ writer' \in [Writers -> W] /\ writer'[w].data # Nothing
        /\ \A v \in Writers \ {w} : writer'[v] = writer[v]
    BY <2>1, <2>2 DEF WriterType
  <2>4. SentIsSome'
    BY <2>3 DEF WriterType, SentIsSome
  <2> QED BY <1>3, <2>3, <2>4 DEF ReadSnapshot, WriterType, ChanType
<1>4. ASSUME writer' = [writer EXCEPT ![w] = Idle], UNCHANGED held PROVE WriterType'
  <2>1. /\ writer' \in [Writers -> W] /\ writer'[w].at = "idle"
        /\ \A v \in Writers \ {w} : writer'[v] = writer[v]
    BY <1>4, IdleIs DEF WriterType
  <2>2. SentIsSome'
    BY <2>1 DEF WriterType, SentIsSome
  <2> QED BY <1>4, <2>1, <2>2 DEF WriterType
<1>5. CASE ReadFails(w)
  BY <1>4, <1>5 DEF ReadFails, ChanType
<1>6. CASE Send(w)
  <2>1. writer[w].of \in Feeds /\ writer[w].data \in Nat \ {Nothing}
    BY <1>1, <1>6 DEF Send, WriterType, SentIsSome
  <2>2. ChanType'
    BY <1>6, <2>1, RoomInChannel DEF Send
  <2> QED BY <1>4, <1>6, <2>2 DEF Send
<1>7. UNCHANGED <<client, shown>>
  BY DEF Mutate, WriterStep, ReadSnapshot, ReadFails, Send
<1> QED BY <1>2, <1>3, <1>5, <1>6, <1>7 DEF WriterStep

\* What is put into a buffer with room leaves a buffer of messages.
LEMMA BufferTakes ==
    ASSUME PageType, NEW c \in Conns, NEW m \in Message, Len(buf[c]) < BufSize
    PROVE  Append(buf[c], m) \in Seq(Message) /\ Len(Append(buf[c], m)) <= BufSize
<1>1. buf[c] \in Seq(Message) /\ Len(buf[c]) \in Nat /\ BufSize \in Nat
  BY FeedAssumption DEF PageType
<1> QED BY <1>1, AppendProperties

LEMMA BroadcastTypes ==
    ASSUME ChanType, ConnType, PageType, NEW f \in Feeds, Broadcast(f)
    PROVE  /\ ChanType' /\ ConnType' /\ PageType'
           /\ UNCHANGED <<held, writer, conn, boot, init, shown>>
<1>1. /\ chan[f] \in Seq(Nat \ {Nothing}) /\ chan[f] # <<>>
      /\ chan' = [chan EXCEPT ![f] = Tail(chan[f])]
      /\ Len(chan[f]) \in Nat /\ ChanSize[f] \in Nat /\ Len(chan[f]) <= ChanSize[f]
  <2>1. chan[f] \in Seq(Nat \ {Nothing}) /\ Len(chan[f]) <= ChanSize[f]
    BY DEF ChanType
  <2>2. Len(chan[f]) \in Nat /\ ChanSize[f] \in Nat
    BY <2>1, FeedAssumption, LenProperties
  <2> QED BY <2>1, <2>2 DEF Broadcast
<1>2. /\ Head(chan[f]) \in Nat \ {Nothing} /\ Tail(chan[f]) \in Seq(Nat \ {Nothing})
      /\ Len(Tail(chan[f])) = Len(chan[f]) - 1
  BY <1>1, HeadTailProperties
<1>3. ChanType'
  BY <1>1, <1>2 DEF ChanType
<1>4. About(f, Head(chan[f])) \in Message
  BY <1>2, AboutIs
<1>5. ASSUME NEW c \in Conns PROVE buf'[c] \in Seq(Message) /\ Len(buf'[c]) <= BufSize
  <2>1. buf'[c] = IF Registered(c) /\ c \in Staff /\ Len(buf[c]) < BufSize
                    THEN Append(buf[c], About(f, Head(chan[f]))) ELSE buf[c]
    BY DEF Broadcast
  <2> QED BY <1>4, <2>1, BufferTakes DEF PageType
<1>6. PageType'
  BY <1>5 DEF PageType, Broadcast
<1> QED BY <1>3, <1>6 DEF Broadcast, ConnType

LEMMA ConnTypes ==
    ASSUME WriterType, ConnType, PageType, NEW c \in Conns,
           HandleConn(c) \/ BootStep(c) \/ WritePump(c) \/ Lose(c) \/ Unregister(c)
    PROVE  ConnType' /\ PageType' /\ UNCHANGED feed
<1>1. init[c] \in Message /\ buf[c] \in Seq(Message) /\ Empty \in Message
  BY DEF ConnType, PageType, Empty, Message, Nothing
<1>2. CASE HandleConn(c)
  <2>1. Len(<<>>) <= BufSize /\ <<>> \in Seq(Message)
    BY FeedAssumption
  <2> QED BY <1>2, <2>1 DEF HandleConn, ConnType, PageType
<1>3. CASE InitialTables(c)
  <2>1. About("tables", held["tables"]) \in Message
    BY AboutIs DEF WriterType, Feeds
  <2> QED BY <1>3, <2>1 DEF InitialTables, ConnType, PageType
<1>4. CASE InitialTimeline(c)
  <2>1. PICK n \in {held["timeline"], Nothing} :
          init' = [init EXCEPT ![c] = [init[c] EXCEPT !["timeline"] = n]]
    BY <1>4 DEF InitialTimeline
  <2>2. [init[c] EXCEPT !["timeline"] = n] \in Message
    BY <1>1 DEF WriterType, Feeds, Message, Nothing
  <2>3. init' \in [Conns -> Message]
    BY <2>1, <2>2 DEF ConnType
  <2> QED BY <1>4, <2>3 DEF InitialTimeline, ConnType, PageType
<1>5. CASE SendInitial(c)
  <2>1. CASE buf' = [buf EXCEPT ![c] = Append(buf[c], init[c])] /\ Len(buf[c]) < BufSize
    <3>1. /\ Append(buf[c], init[c]) \in Seq(Message)
          /\ Len(Append(buf[c], init[c])) <= BufSize
      BY <1>1, <2>1, BufferTakes
    <3> QED BY <1>1, <1>5, <2>1, <3>1 DEF SendInitial, ConnType, PageType
  <2>2. CASE UNCHANGED buf
    BY <1>1, <1>5, <2>2 DEF SendInitial, ConnType, PageType
  <2> QED BY <1>5, <2>1, <2>2 DEF SendInitial
<1>6. CASE WritePump(c)
  <2>1. /\ Head(buf[c]) \in Message /\ Tail(buf[c]) \in Seq(Message)
        /\ Len(Tail(buf[c])) = Len(buf[c]) - 1 /\ Len(buf[c]) \in Nat
    BY <1>1, <1>6, HeadTailProperties DEF WritePump
  <2>2. Len(Tail(buf[c])) <= BufSize
    BY <2>1, FeedAssumption DEF PageType
  <2> DEFINE page == [f \in Feeds |-> IF Head(buf[c])[f] = Nothing
                                        THEN shown[c][f] ELSE Head(buf[c])[f]]
  <2>3. page \in Message
    BY <2>1 DEF PageType, Message
  <2>4. shown' = [shown EXCEPT ![c] = page]
    BY <1>6 DEF WritePump
  <2> HIDE DEF page
  <2>5. PageType'
    BY <1>6, <2>1, <2>2, <2>3, <2>4 DEF WritePump, PageType
  <2> QED BY <1>6, <2>5 DEF WritePump, ConnType
<1>7. CASE Lose(c) \/ Unregister(c)
  BY <1>7 DEF Lose, Unregister, ConnType, PageType
<1>8. UNCHANGED feed
  BY DEF HandleConn, BootStep, InitialTables, InitialTimeline, SendInitial, WritePump,
     Lose, Unregister, feed
<1> QED BY <1>2, <1>3, <1>4, <1>5, <1>6, <1>7, <1>8 DEF BootStep

LEMMA StepType == FeedTypeOK /\ SentIsSome /\ [Next]_vars => (FeedTypeOK /\ SentIsSome)'
<1> SUFFICES ASSUME WriterType, ChanType, ConnType, PageType, [Next]_vars
             PROVE  WriterType' /\ ChanType' /\ ConnType' /\ PageType'
  BY TypeSplits DEF FeedTypeOK, SentIsSome, WriterType, ChanType, ConnType, PageType
<1>1. CASE UNCHANGED vars
  BY <1>1 DEF vars, feed, client, WriterType, SentIsSome, ChanType, ConnType, PageType
<1>2. ASSUME NEW w \in Writers, (\E f \in Feeds : Mutate(w, f)) \/ WriterStep(w)
      PROVE  WriterType' /\ ChanType' /\ ConnType' /\ PageType'
  BY <1>2, WriterTypes DEF client, ConnType, PageType
<1>3. ASSUME NEW f \in Feeds, Broadcast(f)
      PROVE  WriterType' /\ ChanType' /\ ConnType' /\ PageType'
  BY <1>3, BroadcastTypes DEF WriterType, SentIsSome
<1>4. ASSUME NEW c \in Conns,
             HandleConn(c) \/ BootStep(c) \/ WritePump(c) \/ Lose(c) \/ Unregister(c)
      PROVE  WriterType' /\ ChanType' /\ ConnType' /\ PageType'
  BY <1>4, ConnTypes DEF feed, WriterType, SentIsSome, ChanType
<1> QED BY <1>1, <1>2, <1>3, <1>4 DEF Next

------------------------------------------------------------------------------
(* The next mutation repairs. *)

\* A message m says something of f; the last such message of s says n.
Says(m, f) == m[f] # Nothing
Silent(s, f) == \A i \in 1 .. Len(s) : ~Says(s[i], f)
LastSays(s, f, n) ==
    \E i \in 1 .. Len(s) :
        /\ s[i][f] = n
        /\ \A j \in 1 .. Len(s) : j > i => ~Says(s[j], f)

Nobody(f) == \A w \in Writers : ~Changing(w, f)

\* A change of f is the only one, and it sends what is held.
OneChange(f) ==
    /\ \A w, v \in Writers : Changing(w, f) /\ Changing(v, f) => w = v
    /\ \A w \in Writers :
         writer[w].at = "send" /\ writer[w].of = f => writer[w].data = held[f]

\* After it, the last that the channel has of f is what is held.
ChannelIsFresh(f) ==
    Nobody(f) /\ chan[f] # <<>> => chan[f][Len(chan[f])] = held[f]

\* An INITIAL_STATE that has read f has read what is held.
InitialIsFresh(f) ==
    \A c \in Staff :
        boot[c] = "send" \/ (boot[c] = "timeline" /\ f = "tables") => init[c][f] = held[f]

\* The last that a page will be told of f, or has been, is what is held.
PageIsFresh(c, f) ==
    \/ LastSays(buf[c], f, held[f])
    \/ Silent(buf[c], f) /\ shown[c][f] = held[f]

PagesAreFresh(f) ==
    \A c \in Staff :
        conn[c] = "open" /\ boot[c] = "done" /\ Nobody(f) /\ chan[f] = <<>> =>
            PageIsFresh(c, f)

Fresh(f) ==
    OneChange(f) /\ ChannelIsFresh(f) /\ InitialIsFresh(f) /\ PagesAreFresh(f)

CalmIsFresh == \A f \in Feeds : calm[f] => Fresh(f)

LEMMA AppendSays ==
    ASSUME NEW S, NEW s \in Seq(S), NEW m \in S, NEW f, NEW n
    PROVE  /\ m[f] = n => LastSays(Append(s, m), f, n)
           /\ ~Says(m, f) /\ LastSays(s, f, n) => LastSays(Append(s, m), f, n)
           /\ ~Says(m, f) /\ Silent(s, f) => Silent(Append(s, m), f)
<1> DEFINE r == Append(s, m)
<1>1. /\ Len(s) \in Nat /\ Len(r) = Len(s) + 1
      /\ \A i \in 1 .. Len(s) : r[i] = s[i]
      /\ r[Len(s) + 1] = m
  BY AppendProperties
<1> HIDE DEF r
<1>2. ASSUME m[f] = n PROVE LastSays(r, f, n)
  <2>1. Len(r) \in 1 .. Len(r) /\ r[Len(r)] = m
    BY <1>1
  <2> QED BY <1>2, <2>1 DEF LastSays
<1>3. ASSUME ~Says(m, f), LastSays(s, f, n) PROVE LastSays(r, f, n)
  <2>1. PICK i \in 1 .. Len(s) : s[i][f] = n /\ \A j \in 1 .. Len(s) : j > i => ~Says(s[j], f)
    BY <1>3 DEF LastSays
  <2>2. i \in 1 .. Len(r) /\ r[i] = s[i]
    BY <1>1
  <2>3. ASSUME NEW j \in 1 .. Len(r), j > i PROVE ~Says(r[j], f)
    <3>1. CASE j \in 1 .. Len(s)
      BY <1>1, <2>1, <2>3, <3>1
    <3>2. CASE j = Len(s) + 1
      BY <1>1, <1>3, <3>2
    <3> QED BY <1>1, <3>1, <3>2
  <2> QED BY <2>1, <2>2, <2>3 DEF LastSays
<1>4. ASSUME ~Says(m, f), Silent(s, f) PROVE Silent(r, f)
  <2>1. ASSUME NEW j \in 1 .. Len(r) PROVE ~Says(r[j], f)
    <3>1. CASE j \in 1 .. Len(s)
      BY <1>1, <1>4, <3>1 DEF Silent
    <3>2. CASE j = Len(s) + 1
      BY <1>1, <1>4, <3>2
    <3> QED BY <1>1, <3>1, <3>2
  <2> QED BY <2>1 DEF Silent
<1> QED BY <1>2, <1>3, <1>4 DEF r

LEMMA TailSays ==
    ASSUME NEW S, NEW s \in Seq(S), s # <<>>, NEW f, NEW n
    PROVE  /\ LastSays(s, f, n) =>
                \/ LastSays(Tail(s), f, n)
                \/ Silent(Tail(s), f) /\ Head(s)[f] = n
           /\ Silent(s, f) => Silent(Tail(s), f) /\ ~Says(Head(s), f)
<1> DEFINE r == Tail(s)
<1>1. /\ Len(s) \in Nat \ {0} /\ Len(r) = Len(s) - 1
      /\ \A i \in 1 .. Len(r) : r[i] = s[i + 1]
      /\ Head(s) = s[1]
  BY HeadTailProperties
<1> HIDE DEF r
<1>2. ASSUME Silent(s, f) PROVE Silent(r, f) /\ ~Says(Head(s), f)
  <2>1. \A i \in 1 .. Len(r) : i + 1 \in 1 .. Len(s)
    BY <1>1
  <2> QED BY <1>1, <1>2, <2>1 DEF Silent
<1>3. ASSUME LastSays(s, f, n), ~LastSays(r, f, n)
      PROVE  Silent(r, f) /\ Head(s)[f] = n
  <2>1. PICK i \in 1 .. Len(s) : s[i][f] = n /\ \A j \in 1 .. Len(s) : j > i => ~Says(s[j], f)
    BY <1>3 DEF LastSays
  <2>2. ASSUME NEW j \in 1 .. Len(r), j > i - 1 PROVE ~Says(r[j], f)
    <3>1. j + 1 \in 1 .. Len(s) /\ j + 1 > i
      BY <1>1, <2>2
    <3> QED BY <1>1, <2>1, <3>1
  <2>3. CASE i = 1
    BY <1>1, <2>1, <2>2, <2>3 DEF Silent
  <2>4. CASE i > 1
    <3>1. i - 1 \in 1 .. Len(r) /\ r[i - 1] = s[i]
      BY <1>1, <2>4
    <3>2. LastSays(r, f, n)
      BY <2>1, <2>2, <3>1 DEF LastSays
    <3> QED BY <1>3, <3>2
  <2> QED BY <2>3, <2>4
<1> QED BY <1>2, <1>3 DEF r

LEMMA InitFresh == WatchInit => CalmIsFresh
<1> SUFFICES ASSUME WatchInit, NEW f \in Feeds PROVE Fresh(f)
  BY DEF CalmIsFresh
<1>1. OneChange(f)
  BY IdleIs DEF WatchInit, Init, OneChange, Changing
<1>2. ChannelIsFresh(f) /\ InitialIsFresh(f) /\ PagesAreFresh(f)
  BY FeedAssumption DEF WatchInit, Init, ChannelIsFresh, InitialIsFresh, PagesAreFresh
<1> QED BY <1>1, <1>2 DEF Fresh

\* What a step of a writer leaves alone, if it is not about f.
LEMMA OtherWriters ==
    ASSUME NEW f \in Feeds, Fresh(f), OneChange(f)', UNCHANGED <<client, shown>>,
           held'[f] = held[f], chan'[f] = chan[f], Nobody(f)' => Nobody(f)
    PROVE  Fresh(f)'
<1>1. ChannelIsFresh(f)'
  BY DEF Fresh, ChannelIsFresh
<1>2. InitialIsFresh(f)'
  BY DEF Fresh, InitialIsFresh, client
<1>3. PagesAreFresh(f)'
  <2> SUFFICES ASSUME NEW c \in Staff, conn[c] = "open", boot[c] = "done", Nobody(f)',
                      chan'[f] = <<>>
               PROVE  PageIsFresh(c, f)'
    BY DEF PagesAreFresh, client
  <2>1. PageIsFresh(c, f)
    BY DEF Fresh, PagesAreFresh
  <2>2. buf' = buf /\ shown' = shown
    BY DEF client
  <2> QED BY <2>1, <2>2 DEF PageIsFresh
<1> QED BY <1>1, <1>2, <1>3 DEF Fresh

\* A change that is alone makes what was stale before irrelevant.
LEMMA ChangeAlone ==
    ASSUME WriterType, NEW f \in Feeds, NEW w \in Writers, Mutate(w, f), Alone(w, f)
    PROVE  Fresh(f)'
<1>1. /\ writer'[w].at = "read" /\ writer'[w].of = f
      /\ \A v \in Writers \ {w} : writer'[v] = writer[v]
  BY DEF Mutate, WriterType
<1>2. Changing(w, f)'
  BY <1>1, IdleIs DEF Changing
<1>3. OneChange(f)'
  <2>1. \A v \in Writers \ {w} : ~Changing(v, f) /\ ~Changing(v, f)'
    BY <1>1 DEF Alone, Changing
  <2>2. \A v \in Writers \ {w} : ~(writer'[v].at = "send" /\ writer'[v].of = f)
    BY <1>1, <2>1, IdleIs DEF Changing
  <2> QED BY <1>1, <2>1, <2>2 DEF OneChange
<1>4. ~Nobody(f)'
  BY <1>2 DEF Nobody
<1>5. InitialIsFresh(f)'
  <2>1. boot' = boot
    BY DEF Mutate, client
  <2>2. "tables" # "timeline"
    OBVIOUS
  <2> QED BY <2>1, <2>2, FeedAssumption DEF Alone, InitialIsFresh
<1> QED BY <1>3, <1>4, <1>5 DEF Fresh, ChannelIsFresh, PagesAreFresh

LEMMA FreshWriters ==
    ASSUME WriterType, ChanType, NEW f \in Feeds, Fresh(f), ~Lost(f), NEW w \in Writers,
           (\E g \in Feeds \ {f} : Mutate(w, g)) \/ WriterStep(w)
    PROVE  Fresh(f)'
<1>1. UNCHANGED <<client, shown>>
  BY DEF Mutate, WriterStep, ReadSnapshot, ReadFails, Send
<1>2. ASSUME NEW g \in Feeds \ {f}, Mutate(w, g) PROVE Fresh(f)'
  <2>1. /\ held'[f] = held[f] /\ chan' = chan /\ writer[w] = Idle
        /\ writer'[w].at = "read" /\ writer'[w].of = g
        /\ \A v \in Writers \ {w} : writer'[v] = writer[v]
    BY <1>2 DEF Mutate, WriterType
  <2>2. \A v \in Writers : Changing(v, f)' <=> Changing(v, f)
    BY <1>2, <2>1 DEF Changing
  <2>3. OneChange(f)'
    <3>1. \A v \in Writers : writer'[v].at = "send" => v # w
      BY <2>1
    <3> QED BY <2>1, <2>2, <3>1 DEF Fresh, OneChange
  <2> QED BY <1>1, <2>1, <2>2, <2>3, OtherWriters DEF Nobody
<1>3. CASE ReadSnapshot(w)
  <2> DEFINE r == [writer[w] EXCEPT !.at = "send", !.data = held[writer[w].of]]
  <2>1. writer' = [writer EXCEPT ![w] = r] /\ UNCHANGED <<held, chan>>
    BY <1>3 DEF ReadSnapshot
  <2>2. r.at = "send" /\ r.of = writer[w].of /\ r.data = held[r.of]
    BY DEF WriterType
  <2>3. writer[w].at = "read"
    BY <1>3 DEF ReadSnapshot
  <2> HIDE DEF r
  <2>4. writer'[w] = r /\ \A v \in Writers \ {w} : writer'[v] = writer[v]
    BY <2>1 DEF WriterType
  <2>5. writer[w] # Idle /\ r # Idle
    BY <2>2, <2>3, IdleIs
  <2>6. \A v \in Writers : Changing(v, f)' <=> Changing(v, f)
    BY <2>2, <2>4, <2>5 DEF Changing
  <2>7. OneChange(f)'
    BY <2>1, <2>2, <2>4, <2>6 DEF Fresh, OneChange
  <2> QED BY <1>1, <2>1, <2>6, <2>7, OtherWriters DEF Nobody
<1>4. ASSUME writer' = [writer EXCEPT ![w] = Idle], UNCHANGED held PROVE
         /\ ~Changing(w, f)' /\ \A v \in Writers \ {w} : Changing(v, f)' <=> Changing(v, f)
         /\ OneChange(f)'
  <2>1. writer'[w] = Idle /\ \A v \in Writers \ {w} : writer'[v] = writer[v]
    BY <1>4 DEF WriterType
  <2>2. writer'[w].at # "send"
    BY <2>1, IdleIs
  <2> QED BY <1>4, <2>1, <2>2 DEF Changing, Fresh, OneChange
<1>5. CASE writer[w].of # f /\ (ReadFails(w) \/ Send(w))
  <2>1. /\ writer' = [writer EXCEPT ![w] = Idle] /\ UNCHANGED held
        /\ chan'[f] = chan[f]
    BY <1>5 DEF ReadFails, Send, ChanType
  <2>2. ~Changing(w, f)
    BY <1>5 DEF Changing
  <2> QED BY <1>1, <1>4, <2>1, <2>2, OtherWriters DEF Nobody
<1>6. ASSUME writer[w].of = f PROVE ~ReadFails(w)
  <2> SUFFICES ASSUME ReadFails(w) PROVE FALSE
    OBVIOUS
  <2>1. writer'[w] = Idle /\ writer[w].at = "read"
    BY DEF ReadFails, WriterType
  <2>2. Changing(w, f)
    BY <1>6, <2>1, IdleIs DEF Changing
  <2> QED BY <2>1, <2>2 DEF Lost
<1>7. CASE writer[w].of = f /\ Send(w)
  <2>1. /\ writer[w].at = "send" /\ writer' = [writer EXCEPT ![w] = Idle]
        /\ UNCHANGED held /\ writer'[w] = Idle
    BY <1>7 DEF Send, WriterType
  <2>2. Changing(w, f)
    BY <1>7, <2>1, IdleIs DEF Changing
  <2>3. Len(chan[f]) # ChanSize[f]
    BY <2>1, <2>2 DEF Lost
  <2>4. /\ chan[f] \in Seq(Nat \ {Nothing}) /\ Len(chan[f]) \in Nat
        /\ ChanSize[f] \in Nat /\ Len(chan[f]) <= ChanSize[f]
    BY FeedAssumption, LenProperties DEF ChanType
  <2>5. Len(chan[f]) < ChanSize[f]
    BY <2>3, <2>4
  <2>6. writer[w].data = held[f] /\ held[f] \in Nat \ {Nothing}
    BY <1>7, <2>1 DEF Fresh, OneChange, WriterType
  <2>7. chan'[f] = Append(chan[f], held[f])
    BY <1>7, <2>5, <2>6 DEF Send, ChanType
  <2>8. chan'[f] # <<>> /\ chan'[f][Len(chan'[f])] = held[f]
    BY <2>4, <2>6, <2>7, AppendProperties
  <2>9. ChannelIsFresh(f)' /\ PagesAreFresh(f)'
    BY <2>1, <2>8 DEF ChannelIsFresh, PagesAreFresh
  <2>10. InitialIsFresh(f)'
    BY <1>1, <2>1 DEF Fresh, InitialIsFresh, client
  <2> QED BY <1>4, <2>1, <2>9, <2>10 DEF Fresh
<1> QED BY <1>2, <1>3, <1>5, <1>6, <1>7 DEF WriterStep

LEMMA TailOf ==
    ASSUME NEW S, NEW s \in Seq(S), s # <<>>
    PROVE  /\ Len(Tail(s)) < Len(s)
           /\ Tail(s) # <<>> => Tail(s)[Len(Tail(s))] = s[Len(s)]
           /\ Tail(s) = <<>> => Head(s) = s[Len(s)]
<1>1. /\ Len(s) \in Nat \ {0} /\ Tail(s) \in Seq(S) /\ Len(Tail(s)) = Len(s) - 1
      /\ \A i \in 1 .. Len(Tail(s)) : Tail(s)[i] = s[i + 1]
      /\ Head(s) = s[1]
  BY HeadTailProperties
<1>2. Tail(s) = <<>> => Len(s) = 1
  <2>1. Tail(s) = <<>> => Len(Tail(s)) = 0
    BY <1>1, EmptySeq
  <2> QED BY <1>1, <2>1
<1>3. Tail(s) # <<>> => Len(Tail(s)) \in 1 .. Len(Tail(s))
  <2>1. Tail(s) # <<>> => Len(Tail(s)) # 0
    BY <1>1, EmptySeq
  <2> QED BY <1>1, <2>1
<1> QED BY <1>1, <1>2, <1>3

LEMMA FreshBroadcast ==
    ASSUME WriterType, ChanType, PageType, NEW f \in Feeds, Fresh(f), ~Lost(f),
           NEW g \in Feeds, Broadcast(g)
    PROVE  Fresh(f)'
<1>1. /\ UNCHANGED <<held, writer, conn, boot, init, shown>>
      /\ chan[g] # <<>> /\ chan' = [chan EXCEPT ![g] = Tail(chan[g])]
  BY DEF Broadcast
<1>2. chan[g] \in Seq(Nat \ {Nothing}) /\ Head(chan[g]) \in Nat \ {Nothing}
  BY <1>1, HeadTailProperties DEF ChanType
<1>3. OneChange(f)' /\ InitialIsFresh(f)' /\ (Nobody(f)' <=> Nobody(f))
  BY <1>1 DEF Fresh, OneChange, InitialIsFresh, Nobody, Changing
<1>4. ChannelIsFresh(f)'
  <2>1. CASE g = f
    <3>1. chan'[f] = Tail(chan[f])
      BY <1>1, <2>1 DEF ChanType
    <3> QED BY <1>1, <1>2, <1>3, <2>1, <3>1, TailOf DEF Fresh, ChannelIsFresh
  <2>2. CASE g # f
    BY <1>1, <1>3, <2>2 DEF Fresh, ChannelIsFresh, ChanType
  <2> QED BY <2>1, <2>2
<1>5. ASSUME NEW c \in Staff, conn[c] = "open", boot[c] = "done", Nobody(f), chan'[f] = <<>>
      PROVE  PageIsFresh(c, f)'
  <2>1. c \in Conns /\ buf[c] \in Seq(Message) /\ Len(buf[c]) \in Nat /\ BufSize \in Nat
    BY FeedAssumption, LenProperties DEF PageType
  <2> DEFINE m == About(g, Head(chan[g]))
  <2>2. m \in Message /\ m[g] = Head(chan[g]) /\ (g # f => m[f] = Nothing)
    BY <1>2, AboutIs
  <2>3. buf'[c] = IF Len(buf[c]) < BufSize THEN Append(buf[c], m) ELSE buf[c]
    BY <1>5, <2>1 DEF Broadcast, Registered
  <2> HIDE DEF m
  <2>4. CASE g = f
    <3>1. chan'[f] = Tail(chan[f])
      BY <1>1, <2>4 DEF ChanType
    <3>2. Len(chan'[f]) < Len(chan[f]) /\ Head(chan[f]) = chan[f][Len(chan[f])]
      BY <1>1, <1>2, <1>5, <2>4, <3>1, TailOf
    <3>3. Head(chan[f]) = held[f]
      BY <1>1, <1>5, <2>4, <3>2 DEF Fresh, ChannelIsFresh
    <3>4. Len(buf[c]) < BufSize
      <4>1. Len(buf[c]) # BufSize
        BY <1>5, <3>2 DEF Lost
      <4> QED BY <2>1, <4>1 DEF PageType
    <3>5. LastSays(buf'[c], f, held'[f])
      BY <1>1, <2>1, <2>2, <2>3, <2>4, <3>3, <3>4, AppendSays
    <3> QED BY <3>5 DEF PageIsFresh
  <2>5. CASE g # f
    <3>1. PageIsFresh(c, f)
      BY <1>1, <1>5, <2>5 DEF Fresh, PagesAreFresh, ChanType
    <3>2. ~Says(m, f)
      BY <2>2, <2>5 DEF Says
    <3>3. LastSays(buf[c], f, held[f]) => LastSays(buf'[c], f, held[f])
      BY <2>1, <2>2, <2>3, <3>2, AppendSays
    <3>4. Silent(buf[c], f) => Silent(buf'[c], f)
      BY <2>1, <2>2, <2>3, <3>2, AppendSays
    <3> QED BY <1>1, <3>1, <3>3, <3>4 DEF PageIsFresh
  <2> QED BY <2>4, <2>5
<1>6. PagesAreFresh(f)'
  BY <1>1, <1>3, <1>5 DEF PagesAreFresh
<1> QED BY <1>3, <1>4, <1>6 DEF Fresh

\* What remains to be shown of a step of page c alone.
LEMMA OtherPages ==
    ASSUME NEW f \in Feeds, Fresh(f), NEW c \in Conns, UNCHANGED feed,
           \A d \in Conns \ {c} :
             /\ conn'[d] = conn[d] /\ boot'[d] = boot[d] /\ init'[d] = init[d]
             /\ buf'[d] = buf[d] /\ shown'[d] = shown[d],
           c \in Staff =>
             /\ boot'[c] = "send" \/ (boot'[c] = "timeline" /\ f = "tables") =>
                  init'[c][f] = held[f]
             /\ conn'[c] = "open" /\ boot'[c] = "done" /\ Nobody(f) /\ chan[f] = <<>> =>
                  PageIsFresh(c, f)'
    PROVE  Fresh(f)'
<1>1. OneChange(f)' /\ ChannelIsFresh(f)' /\ (Nobody(f)' <=> Nobody(f))
  BY DEF Fresh, OneChange, ChannelIsFresh, Nobody, Changing, feed
<1>2. InitialIsFresh(f)'
  BY FeedAssumption DEF Fresh, InitialIsFresh, feed
<1>3. PagesAreFresh(f)'
  <2> SUFFICES ASSUME NEW d \in Staff, conn'[d] = "open", boot'[d] = "done", Nobody(f),
                      chan[f] = <<>>
               PROVE  PageIsFresh(d, f)'
    BY <1>1 DEF PagesAreFresh, feed
  <2>1. CASE d = c
    BY <2>1
  <2>2. CASE d # c
    <3>1. /\ conn'[d] = conn[d] /\ boot'[d] = boot[d]
          /\ buf'[d] = buf[d] /\ shown'[d] = shown[d]
      BY <2>2, FeedAssumption
    <3>2. PageIsFresh(d, f)
      BY <3>1 DEF Fresh, PagesAreFresh
    <3> QED BY <3>1, <3>2 DEF PageIsFresh, feed
  <2> QED BY <2>1, <2>2
<1> QED BY <1>1, <1>2, <1>3 DEF Fresh

LEMMA FreshPages ==
    ASSUME WriterType, ConnType, PageType, NEW f \in Feeds, Fresh(f), ~Lost(f), NEW c \in Conns,
           HandleConn(c) \/ BootStep(c) \/ WritePump(c) \/ Lose(c) \/ Unregister(c)
    PROVE  Fresh(f)'
<1>1. UNCHANGED feed
  BY DEF HandleConn, BootStep, InitialTables, InitialTimeline, SendInitial, WritePump,
     Lose, Unregister, feed
<1>2. \A d \in Conns \ {c} :
         /\ conn'[d] = conn[d] /\ boot'[d] = boot[d] /\ init'[d] = init[d]
         /\ buf'[d] = buf[d] /\ shown'[d] = shown[d]
  BY DEF HandleConn, BootStep, InitialTables, InitialTimeline, SendInitial, WritePump,
     Lose, Unregister, ConnType, PageType
<1>3. buf[c] \in Seq(Message) /\ init[c] \in Message /\ held[f] \in Nat \ {Nothing}
  BY DEF ConnType, PageType, WriterType
<1> DEFINE Read == boot'[c] = "send" \/ (boot'[c] = "timeline" /\ f = "tables") =>
                     init'[c][f] = held[f]
           Told == conn'[c] = "open" /\ boot'[c] = "done" /\ Nobody(f) /\ chan[f] = <<>> =>
                     PageIsFresh(c, f)'
<1>4. ASSUME c \in Staff, HandleConn(c) PROVE Read /\ Told
  BY <1>4 DEF HandleConn, ConnType
<1>5. ASSUME c \in Staff, InitialTables(c) PROVE Read /\ Told
  <2>1. boot'[c] = "timeline" /\ init'[c] = About("tables", held["tables"])
    BY <1>5 DEF InitialTables, ConnType
  <2>2. f = "tables" => init'[c][f] = held[f]
    BY <1>3, <2>1, AboutIs
  <2> QED BY <2>1, <2>2
<1>6. ASSUME c \in Staff, InitialTimeline(c) PROVE Read /\ Told
  <2>1. PICK n \in {held["timeline"], Nothing} :
          init' = [init EXCEPT ![c] = [init[c] EXCEPT !["timeline"] = n]]
    BY <1>6 DEF InitialTimeline
  <2>2. boot[c] = "timeline" /\ boot'[c] = "send"
    BY <1>6 DEF InitialTimeline, ConnType
  <2>3. init'[c][f] # Nothing
    BY <1>6, <2>2 DEF Lost
  <2>4. init'[c] = [init[c] EXCEPT !["timeline"] = n]
    BY <2>1 DEF ConnType
  <2>5. CASE f = "timeline"
    <3>1. init'[c][f] = n
      BY <1>3, <2>4, <2>5 DEF Message
    <3> QED BY <2>1, <2>2, <2>3, <2>5, <3>1
  <2>6. CASE f = "tables"
    <3>1. init'[c][f] = init[c][f]
      BY <1>3, <2>4, <2>6 DEF Message
    <3> QED BY <1>6, <2>2, <2>6, <3>1 DEF Fresh, InitialIsFresh
  <2> QED BY <2>5, <2>6 DEF Feeds
<1>7. ASSUME c \in Staff, SendInitial(c) PROVE Read /\ Told
  <2>1. boot[c] = "send" /\ boot'[c] = "done" /\ conn' = conn /\ shown' = shown
    BY <1>7 DEF SendInitial, ConnType
  <2>2. init[c][f] = held[f]
    BY <1>7, <2>1 DEF Fresh, InitialIsFresh
  <2>3. ASSUME conn[c] = "open" PROVE PageIsFresh(c, f)'
    <3>1. buf'[c] = Append(buf[c], init[c])
      BY <1>7, <2>3 DEF SendInitial, Registered, PageType
    <3>2. LastSays(buf'[c], f, held[f])
      BY <1>3, <2>2, <3>1, AppendSays
    <3> QED BY <1>1, <3>2 DEF PageIsFresh, feed
  <2> QED BY <2>1, <2>3
<1>8. ASSUME c \in Staff, WritePump(c) PROVE Read /\ Told
  <2>1. /\ buf[c] # <<>> /\ buf'[c] = Tail(buf[c])
        /\ shown'[c][f] = IF Head(buf[c])[f] = Nothing THEN shown[c][f] ELSE Head(buf[c])[f]
        /\ UNCHANGED <<conn, boot, init>>
    BY <1>8 DEF WritePump, PageType
  <2>2. Read
    BY <1>8, <2>1 DEF Fresh, InitialIsFresh
  <2>3. ASSUME PageIsFresh(c, f) PROVE PageIsFresh(c, f)'
    <3>1. held'[f] = held[f]
      BY <1>1 DEF feed
    <3>2. CASE LastSays(buf[c], f, held[f])
      <4>1. LastSays(buf'[c], f, held[f]) \/ (Silent(buf'[c], f) /\ Head(buf[c])[f] = held[f])
        BY <1>3, <2>1, <3>2, TailSays
      <4> QED BY <1>3, <2>1, <3>1, <4>1 DEF PageIsFresh
    <3>3. CASE Silent(buf[c], f) /\ shown[c][f] = held[f]
      <4>1. Silent(buf'[c], f) /\ ~Says(Head(buf[c]), f)
        BY <1>3, <2>1, <3>3, TailSays
      <4> QED BY <2>1, <3>1, <3>3, <4>1 DEF PageIsFresh, Says
    <3> QED BY <2>3, <3>2, <3>3 DEF PageIsFresh
  <2>4. Told
    BY <1>8, <2>1, <2>3 DEF Fresh, PagesAreFresh
  <2> QED BY <2>2, <2>4
<1>9. ASSUME c \in Staff, Lose(c) \/ Unregister(c) PROVE Read /\ Told
  <2>1. UNCHANGED <<boot, init>> /\ conn'[c] # "open"
    BY <1>9 DEF Lose, Unregister, ConnType
  <2> QED BY <1>9, <2>1 DEF Fresh, InitialIsFresh
<1>10. c \in Staff => Read /\ Told
  BY <1>4, <1>5, <1>6, <1>7, <1>8, <1>9 DEF BootStep
<1> QED BY <1>1, <1>2, <1>10, OtherPages

LEMMA StepFresh ==
    FeedTypeOK /\ SentIsSome /\ CalmIsFresh /\ [WatchNext]_watchVars => CalmIsFresh'
<1> SUFFICES ASSUME WriterType, ChanType, ConnType, PageType, CalmIsFresh,
                    [WatchNext]_watchVars, NEW f \in Feeds, calm'[f]
             PROVE  Fresh(f)'
  BY TypeSplits DEF CalmIsFresh
<1>1. CASE UNCHANGED watchVars
  <2>1. Fresh(f)
    BY <1>1 DEF CalmIsFresh, watchVars
  <2> QED BY <1>1, <2>1 DEF watchVars, vars, feed, client, Fresh, OneChange, ChannelIsFresh,
           InitialIsFresh, PagesAreFresh, PageIsFresh, Nobody, Changing
<1>2. CASE WatchNext /\ \E w \in Writers : Begins(w, f)
  <2>1. PICK w \in Writers : Begins(w, f) /\ Alone(w, f)
    BY <1>2 DEF WatchNext
  <2>2. writer[w] = Idle /\ writer'[w] # Idle /\ writer'[w].of = f
    BY <2>1 DEF Begins, Changing
  <2>3. Mutate(w, f)
    <3>1. PICK v \in Writers : (\E g \in Feeds : Mutate(v, g)) \/ WriterStep(v)
      <4>1. writer' # writer
        BY <2>2
      <4> QED BY <1>2, <4>1 DEF WatchNext, Next, Broadcast, HandleConn, BootStep,
              InitialTables, InitialTimeline, SendInitial, WritePump, Lose, Unregister, feed
    <3>2. writer' = [writer EXCEPT ![v] = writer'[v]]
      BY <3>1 DEF Mutate, WriterStep, ReadSnapshot, ReadFails, Send, WriterType
    <3>3. v = w
      BY <2>2, <3>2 DEF WriterType
    <3>4. ~WriterStep(w)
      BY <2>2, IdleIs DEF WriterStep, ReadSnapshot, ReadFails, Send
    <3>5. PICK g \in Feeds : Mutate(w, g)
      BY <3>1, <3>3, <3>4
    <3>6. writer'[w].of = g
      BY <3>5 DEF Mutate, WriterType
    <3> QED BY <2>2, <3>5, <3>6
  <2> QED BY <2>1, <2>3, ChangeAlone
<1>3. CASE WatchNext /\ ~\E w \in Writers : Begins(w, f)
  <2>1. calm[f] /\ ~Lost(f) /\ Next
    BY <1>3 DEF WatchNext
  <2>2. Fresh(f)
    BY <2>1 DEF CalmIsFresh
  <2>3. ASSUME NEW w \in Writers PROVE ~Mutate(w, f)
    <3> SUFFICES ASSUME Mutate(w, f) PROVE FALSE
      OBVIOUS
    <3>1. writer[w] = Idle /\ writer'[w].at = "read" /\ writer'[w].of = f
      BY DEF Mutate, WriterType
    <3>2. Begins(w, f)
      BY <3>1, IdleIs DEF Begins, Changing
    <3> QED BY <1>3, <3>2
  <2>4. ASSUME NEW w \in Writers, (\E g \in Feeds : Mutate(w, g)) \/ WriterStep(w)
        PROVE  Fresh(f)'
    BY <2>1, <2>2, <2>3, <2>4, FreshWriters
  <2>5. ASSUME NEW g \in Feeds, Broadcast(g) PROVE Fresh(f)'
    BY <2>1, <2>2, <2>5, FreshBroadcast
  <2>6. ASSUME NEW c \in Conns,
               HandleConn(c) \/ BootStep(c) \/ WritePump(c) \/ Lose(c) \/ Unregister(c)
        PROVE  Fresh(f)'
    BY <2>1, <2>2, <2>6, FreshPages
  <2> QED BY <2>1, <2>4, <2>5, <2>6 DEF Next
<1> QED BY <1>1, <1>2, <1>3

------------------------------------------------------------------------------
LEMMA FeedTypeInvariant == Spec => [](FeedTypeOK /\ SentIsSome)
  BY InitType, StepType, PTL DEF Spec

LEMMA WatchIsSpec == WatchSpec => Spec
<1>1. WatchInit => Init
  BY DEF WatchInit
<1>2. [WatchNext]_watchVars => [Next]_vars
  BY DEF WatchNext, watchVars
<1> QED BY <1>1, <1>2, PTL DEF WatchSpec, Spec

\* Every reachable state of the feeds is well typed: no channel and no buffer of
\* a page ever holds more than it has room for.
THEOREM FeedTypes == Spec => []FeedTypeOK
  BY FeedTypeInvariant, PTL

\* For any writers, pages and sizes of channels and buffers: a change that runs
\* by itself and of which nothing is dropped leaves every staff page with what
\* is held.
THEOREM NextMutationRepairsFeed == WatchSpec => []NextMutationRepairs
<1>1. FeedTypeOK /\ SentIsSome /\ CalmIsFresh => NextMutationRepairs
  <2> SUFFICES ASSUME FeedTypeOK, CalmIsFresh, NEW c \in Staff, NEW f \in Feeds,
                      calm[f], Settled(c, f)
               PROVE  shown[c][f] = held[f]
    BY DEF NextMutationRepairs
  <2>1. buf[c] = <<>> /\ conn[c] = "open" /\ boot[c] = "done" /\ chan[f] = <<>> /\ Nobody(f)
    BY DEF Settled, Nobody, Changing
  <2>2. PageIsFresh(c, f)
    BY <2>1 DEF CalmIsFresh, Fresh, PagesAreFresh
  <2>3. ~LastSays(buf[c], f, held[f])
    BY <2>1 DEF LastSays
  <2> QED BY <2>2, <2>3 DEF PageIsFresh
<1>2. WatchSpec => [](FeedTypeOK /\ SentIsSome)
  BY WatchIsSpec, FeedTypeInvariant, PTL
<1> QED BY <1>1, <1>2, InitFresh, StepFresh, PTL DEF WatchSpec

==============================================================================
