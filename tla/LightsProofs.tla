----------------------------- MODULE LightsProofs -----------------------------
(***************************************************************************)
(* What the venue cache says of the lights, for any tables, callers,        *)
(* channel and numbers of switches and disturbances.                        *)
(***************************************************************************)
EXTENDS LightsWatch, SequenceTheorems, TLAPS

LEMMA SubSeqType ==
    ASSUME NEW S, NEW s \in Seq(S), NEW m \in 1 .. Len(s) + 1, NEW n \in 0 .. Len(s)
    PROVE  SubSeq(s, m, n) \in Seq(S)
<1>1. \A i \in m .. n : s[i] \in S
  OBVIOUS
<1> QED BY <1>1, SubSeqProperties

------------------------------------------------------------------------------
(* Types, one component after the other. *)

Light == {"ON", "OFF", "PENDING-ON", "PENDING-OFF"}
Queued == [pending : BOOLEAN, on : BOOLEAN, ack : BOOLEAN]

CacheType ==
    /\ light \in [Tables -> Light]
    /\ sending \in [Callers -> Command \cup {NoCommand}]
    /\ cmds \in Seq(Command) /\ Len(cmds) <= ChanSize
    /\ dropped \in BOOLEAN
    /\ sync \in [Syncers -> {None, Due} \cup SyncMessage]

NetworkType ==
    /\ online \in BOOLEAN
    /\ down \in Seq(DownMessage)
    /\ up \in Seq(UpMessage)
    /\ esp \in {"connected", "away", "booted"}

DeviceType ==
    /\ relay \in [Tables -> BOOLEAN]
    /\ queue \in [Tables -> Queued]
    /\ stage \in [Tables -> {"rest", "switched", "acked"}]

CountType == switches \in 0 .. MaxSwitches /\ upsets \in 0 .. MaxUpsets

LEMMA TypeSplits == LightsTypeOK <=> CacheType /\ NetworkType /\ DeviceType /\ CountType
  BY Zenon DEF LightsTypeOK, CacheType, NetworkType, DeviceType, CountType, Light, Queued

LEMMA MessageTypes ==
    /\ \A cmd \in Command : Set(cmd) \in DownMessage
    /\ \A on \in [Tables -> BOOLEAN] : Sync(on) \in SyncMessage
    /\ SyncMessage \subseteq DownMessage
    /\ \A target \in Tables \cup {All}, on \in BOOLEAN : Ack(target, on) \in UpMessage
    /\ SyncRequest \in UpMessage /\ SyncAck \in UpMessage
  BY DEF SyncMessage, DownMessage, AckMessage, UpMessage

LEMMA CommandType ==
    ASSUME NEW cmd \in Command
    PROVE  cmd.to \in Tables \cup {All} /\ cmd.on \in BOOLEAN
  BY DEF Command

LEMMA NoneIsNotDue == None # Due /\ \A on : Sync(on) \notin {None, Due}
<1>1. None.is = "none" /\ Due.is = "due" /\ None # Due
  BY DEF None, Due
<1>2. ASSUME NEW on PROVE Sync(on) \notin {None, Due}
  BY DEF Sync, None, Due
<1> QED BY <1>1, <1>2

\* What a message is, told from its kind.
LEMMA DownKinds ==
    ASSUME NEW m \in DownMessage
    PROVE  \/ m.kind = "sync" /\ m \in SyncMessage /\ m = Sync(m.tables)
              /\ m.tables \in [Tables -> BOOLEAN]
           \/ m.kind = "set" /\ m.to \in Tables \cup {All} /\ m.on \in BOOLEAN
  BY DEF DownMessage, SyncMessage, Set, Sync, Command

LEMMA UpKinds ==
    ASSUME NEW m \in UpMessage
    PROVE  \/ m.kind = "ack" /\ m.to \in Tables \cup {All} /\ m.on \in BOOLEAN
              /\ m \in AckMessage /\ m = Ack(m.to, m.on)
           \/ m.kind = "request" /\ m = SyncRequest
           \/ m.kind = "syncAck" /\ m = SyncAck
  BY DEF UpMessage, AckMessage, Ack, SyncRequest, SyncAck

LEMMA InitType == Init => LightsTypeOK
<1> SUFFICES ASSUME Init PROVE CacheType /\ NetworkType /\ DeviceType /\ CountType
  BY TypeSplits
<1>1. light \in [Tables -> Light]
  BY DEF Init, Light, Final
<1>2. CacheType
  <2>1. cmds = <<>> /\ Len(cmds) = 0 /\ cmds \in Seq(Command)
    BY DEF Init
  <2>2. sending \in [Callers -> Command \cup {NoCommand}]
    BY DEF Init
  <2>3. sync \in [Syncers -> {None, Due} \cup SyncMessage]
    BY DEF Init
  <2>4. Len(cmds) <= ChanSize
    BY <2>1, LightsAssumption
  <2>5. dropped \in BOOLEAN
    BY DEF Init
  <2> QED BY <1>1, <2>1, <2>2, <2>3, <2>4, <2>5, Zenon DEF CacheType
<1>3. NetworkType /\ DeviceType
  BY DEF Init, NetworkType, DeviceType, Queued, Quiet
<1>4. CountType
  BY LightsAssumption DEF Init, CountType
<1> QED BY <1>2, <1>3, <1>4

LEMMA CountsKept ==
    ASSUME CountType, NEW kind, UNCHANGED counts \/ Upset(kind)
    PROVE  CountType'
  BY LightsAssumption DEF CountType, counts, Upset

\* The steps of the backend.
LEMMA ServerTypes ==
    ASSUME LightsTypeOK,
           \/ \E c \in Callers : SetLight(c) \/ SendCommand(c)
           \/ PublishRelayCommand
           \/ Syncs
           \/ HandleMessage
    PROVE  LightsTypeOK'
<1>0. CacheType /\ NetworkType /\ DeviceType /\ CountType
  BY TypeSplits
<1> SUFFICES CacheType' /\ NetworkType' /\ DeviceType' /\ CountType'
  BY TypeSplits DEF LightsTypeOK, CacheType, NetworkType, DeviceType, CountType, Light, Queued
<1>1. ASSUME NEW c \in Callers, SetLight(c)
      PROVE  CacheType' /\ NetworkType' /\ DeviceType' /\ CountType'
  <2>1. light' \in [Tables -> Light]
    BY <1>0, <1>1 DEF SetLight, CacheType, Light, Pending
  <2>2. sending' \in [Callers -> Command \cup {NoCommand}]
    BY <1>0, <1>1, LightsAssumption DEF SetLight, CacheType
  <2>3. switches' \in 0 .. MaxSwitches
    BY <1>0, <1>1, LightsAssumption DEF SetLight, CountType
  <2> QED
    BY <1>0, <1>1, <2>1, <2>2, <2>3 DEF SetLight, CacheType, NetworkType, DeviceType, CountType, device
<1>2. ASSUME NEW c \in Callers, SendCommand(c)
      PROVE  CacheType' /\ NetworkType' /\ DeviceType' /\ CountType'
  <2>1. sending[c] \in Command
    BY <1>0, <1>2 DEF SendCommand, CacheType
  <2>2. cmds' \in Seq(Command) /\ Len(cmds') <= ChanSize
    <3>1. cmds \in Seq(Command) /\ Len(cmds) \in Nat /\ Len(cmds) <= ChanSize /\ ChanSize \in Nat
      BY <1>0, LightsAssumption DEF CacheType
    <3>2. CASE Len(cmds) < ChanSize /\ cmds' = Append(cmds, sending[c])
      <4>1. cmds' \in Seq(Command) /\ Len(cmds') = Len(cmds) + 1
        BY <2>1, <3>1, <3>2, AppendProperties
      <4> QED BY <3>1, <3>2, <4>1
    <3>3. CASE UNCHANGED cmds
      BY <3>1, <3>3
    <3> QED BY <1>2, <3>2, <3>3 DEF SendCommand
  <2>3. sending' \in [Callers -> Command \cup {NoCommand}]
    BY <1>0, <1>2 DEF SendCommand, CacheType
  <2> QED
    BY <1>0, <1>2, <2>2, <2>3 DEF SendCommand, CacheType, NetworkType, DeviceType, CountType, device, counts
<1>3. ASSUME PublishRelayCommand
      PROVE  CacheType' /\ NetworkType' /\ DeviceType' /\ CountType'
  <2>1. /\ Head(cmds) \in Command
        /\ cmds' \in Seq(Command) /\ Len(cmds') <= ChanSize
    BY <1>0, <1>3, HeadTailProperties, LightsAssumption DEF PublishRelayCommand, CacheType
  <2>2. down' \in Seq(DownMessage)
    <3>1. Set(Head(cmds)) \in DownMessage
      BY <2>1, MessageTypes
    <3>2. down \in Seq(DownMessage)
      BY <1>0 DEF NetworkType
    <3>3. down' = Append(down, Set(Head(cmds))) \/ down' = down
      BY <1>3 DEF PublishRelayCommand
    <3> QED BY <3>1, <3>2, <3>3, AppendProperties
  <2> QED
    BY <1>0, <1>3, <2>1, <2>2 DEF PublishRelayCommand, CacheType, NetworkType, DeviceType, CountType,
       device, counts
<1>4. ASSUME NEW s \in Syncers, TakeSnapshot(s)
      PROVE  CacheType' /\ NetworkType' /\ DeviceType' /\ CountType'
  <2>1. Sync(Snapshot) \in SyncMessage
    <3>1. Snapshot \in [Tables -> BOOLEAN]
      BY DEF Snapshot
    <3> QED BY <3>1, MessageTypes
  <2>2. sync' \in [Syncers -> {None, Due} \cup SyncMessage]
    BY <1>0, <1>4, <2>1 DEF TakeSnapshot, CacheType
  <2> QED
    BY <1>0, <1>4, <2>2 DEF TakeSnapshot, CacheType, NetworkType, DeviceType, CountType, device, counts
<1>5. ASSUME NEW s \in Syncers, PublishFullStateSync(s)
      PROVE  CacheType' /\ NetworkType' /\ DeviceType' /\ CountType'
  <2>1. sync[s] \in DownMessage
    BY <1>0, <1>5, MessageTypes DEF PublishFullStateSync, CacheType
  <2>2. sync' \in [Syncers -> {None, Due} \cup SyncMessage] /\ down' \in Seq(DownMessage)
    BY <1>0, <1>5, <2>1 DEF PublishFullStateSync, CacheType, NetworkType
  <2> QED
    BY <1>0, <1>5, <2>2 DEF PublishFullStateSync, CacheType, NetworkType, DeviceType, CountType, device, counts
<1>6. ASSUME HandleMessage
      PROVE  CacheType' /\ NetworkType' /\ DeviceType' /\ CountType'
  <2>1. up' \in Seq(UpMessage) /\ Head(up) \in UpMessage
    BY <1>0, <1>6, HeadTailProperties DEF HandleMessage, NetworkType
  <2>2. sync' \in [Syncers -> {None, Due} \cup SyncMessage]
    BY <1>0, <1>6 DEF HandleMessage, CacheType
  <2>3. light' \in [Tables -> Light]
    <3>1. CASE Confirm(Head(up).to, Head(up).on)
      BY <1>0, <3>1 DEF Confirm, CacheType, Light, Final
    <3>2. CASE ConfirmFullSync
      BY <1>0, <3>2 DEF ConfirmFullSync, CacheType, Light
    <3>3. CASE UNCHANGED light
      BY <1>0, <3>3 DEF CacheType
    <3> QED BY <1>6, <3>1, <3>2, <3>3 DEF HandleMessage
  <2> QED
    BY <1>0, <1>6, <2>1, <2>2, <2>3 DEF HandleMessage, CacheType, NetworkType, DeviceType, CountType,
       device, counts
<1> QED
  BY <1>1, <1>2, <1>3, <1>4, <1>5, <1>6, Zenon DEF Syncs

\* The steps of the ESP32.
LEMMA DeviceTypes ==
    ASSUME LightsTypeOK,
           Deliver \/ Updates \/ EventConnected
    PROVE  LightsTypeOK'
<1>0. CacheType /\ NetworkType /\ DeviceType /\ CountType
  BY TypeSplits
<1> SUFFICES CacheType' /\ NetworkType' /\ DeviceType' /\ CountType'
  BY TypeSplits DEF LightsTypeOK, CacheType, NetworkType, DeviceType, CountType, Light, Queued
<1>1. ASSUME Deliver PROVE CacheType' /\ NetworkType' /\ DeviceType' /\ CountType'
  <2> DEFINE m == Head(down)
  <2>1. m \in DownMessage /\ down' \in Seq(DownMessage)
    BY <1>0, <1>1, HeadTailProperties DEF Deliver, NetworkType
  <2>2. CountType'
    BY <1>0, <1>1, CountsKept DEF Deliver
  <2>3. EventData(m) /\ UNCHANGED <<server, online, esp, stage>>
    BY <1>1 DEF Deliver
  <2> HIDE DEF m
  <2>4. /\ relay' \in [Tables -> BOOLEAN] /\ queue' \in [Tables -> Queued]
        /\ up' \in Seq(UpMessage)
    <3>1. CASE m.kind = "sync"
      <4>1. relay' = m.tables /\ up' = Append(up, SyncAck) /\ UNCHANGED queue
        BY <2>3, <3>1 DEF EventData
      <4>2. m.tables \in [Tables -> BOOLEAN]
        BY <2>1, <3>1, DownKinds
      <4> QED BY <1>0, <4>1, <4>2, MessageTypes DEF DeviceType, NetworkType
    <3>2. CASE m.kind = "set"
      <4>1. m.to \in Tables \cup {All} /\ m.on \in BOOLEAN
        BY <2>1, <3>2, DownKinds
      <4>2. UNCHANGED relay
        BY <2>3, <3>2 DEF EventData
      <4>3. up' \in Seq(UpMessage)
        <5>1. Ack(All, m.on) \in UpMessage
          BY <4>1, MessageTypes
        <5>2. up' = Append(up, Ack(All, m.on)) \/ UNCHANGED up
          BY <2>3, <3>2 DEF EventData
        <5> QED BY <1>0, <5>1, <5>2 DEF NetworkType
      <4>4. queue' \in [Tables -> Queued]
        <5>1. CASE m.to = All /\ QueueStateAll(m.on)
          BY <4>1, <5>1 DEF QueueStateAll, Queued
        <5>2. CASE QueueState(m.to, m.on)
          BY <1>0, <4>1, <5>2 DEF DeviceType, QueueState, Queued
        <5> QED BY <2>3, <3>2, <5>1, <5>2 DEF EventData
      <4> QED BY <1>0, <4>2, <4>3, <4>4 DEF DeviceType
    <3> QED BY <2>1, <3>1, <3>2, DownKinds
  <2> QED
    BY <1>0, <2>1, <2>2, <2>3, <2>4 DEF CacheType, NetworkType, DeviceType, server
<1>2. ASSUME NEW t \in Tables, SwitchRelay(t)
      PROVE  CacheType' /\ NetworkType' /\ DeviceType' /\ CountType'
  <2>1. queue[t].on \in BOOLEAN
    BY <1>0 DEF DeviceType, Queued
  <2> QED
    BY <1>0, <1>2, <2>1 DEF SwitchRelay, CacheType, NetworkType, DeviceType, CountType, server, counts
<1>3. ASSUME NEW t \in Tables, AcknowledgeCommand(t)
      PROVE  CacheType' /\ NetworkType' /\ DeviceType' /\ CountType'
  <2>1. queue[t].on \in BOOLEAN
    BY <1>0 DEF DeviceType, Queued
  <2>2. up' \in Seq(UpMessage)
    BY <1>0, <1>3, <2>1, MessageTypes DEF AcknowledgeCommand, NetworkType
  <2> QED
    BY <1>0, <1>3, <2>2 DEF AcknowledgeCommand, CacheType, NetworkType, DeviceType, CountType, server, counts
<1>4. ASSUME NEW t \in Tables, ClearPending(t)
      PROVE  CacheType' /\ NetworkType' /\ DeviceType' /\ CountType'
  <2>1. queue' \in [Tables -> Queued]
    BY <1>0, <1>4 DEF ClearPending, DeviceType, Queued
  <2> QED
    BY <1>0, <1>4, <2>1 DEF ClearPending, CacheType, NetworkType, DeviceType, CountType, server, counts
<1>5. ASSUME EventConnected
      PROVE  CacheType' /\ NetworkType' /\ DeviceType' /\ CountType'
  <2>1. PICK n \in 0 .. Len(up) :
          up' = SubSeq(up, 1, n) \o <<SyncRequest>> \o SubSeq(up, n + 1, Len(up))
    BY <1>5 DEF EventConnected
  <2>2. up \in Seq(UpMessage) /\ Len(up) \in Nat
    BY <1>0 DEF NetworkType
  <2>3. /\ SubSeq(up, 1, n) \in Seq(UpMessage)
        /\ SubSeq(up, n + 1, Len(up)) \in Seq(UpMessage)
        /\ <<SyncRequest>> \in Seq(UpMessage)
    BY <2>2, SubSeqType, MessageTypes
  <2>4. up' \in Seq(UpMessage)
    BY <2>1, <2>3
  <2> QED
    BY <1>0, <1>5, <2>4 DEF EventConnected, CacheType, NetworkType, DeviceType, CountType, server, device,
       counts
<1> QED
  BY <1>1, <1>2, <1>3, <1>4, <1>5, Zenon DEF Updates, Update

\* The steps of the network, and what disturbs.
LEMMA UpsetTypes ==
    ASSUME LightsTypeOK, Discard \/ Disturb \/ UNCHANGED vars
    PROVE  LightsTypeOK'
<1>0. CacheType /\ NetworkType /\ DeviceType /\ CountType
  BY TypeSplits
<1> SUFFICES CacheType' /\ NetworkType' /\ DeviceType' /\ CountType'
  BY TypeSplits DEF LightsTypeOK, CacheType, NetworkType, DeviceType, CountType, Light, Queued
<1>1. /\ \A n \in 1 .. (Len(down) + 1) : SubSeq(down, n, Len(down)) \in Seq(DownMessage)
      /\ \A n \in 0 .. Len(down) : SubSeq(down, 1, n) \in Seq(DownMessage)
      /\ \A n \in 0 .. Len(up) : SubSeq(up, 1, n) \in Seq(UpMessage)
  <2>1. down \in Seq(DownMessage) /\ up \in Seq(UpMessage) /\ Len(down) \in Nat /\ Len(up) \in Nat
    BY <1>0 DEF NetworkType
  <2> QED BY <2>1, SubSeqType
<1>2. CASE Discard
  <2>1. down' \in Seq(DownMessage)
    BY <1>0, <1>2 DEF Discard, NetworkType
  <2> QED
    BY <1>0, <1>2, <2>1 DEF Discard, CacheType, NetworkType, DeviceType, CountType, server, device, counts
<1>3. CASE Disconnect
  <2>1. CountType' /\ down' \in Seq(DownMessage)
    BY <1>0, <1>1, <1>3, CountsKept DEF Disconnect
  <2> QED
    BY <1>0, <1>3, <2>1 DEF Disconnect, CacheType, NetworkType, DeviceType, server, device
<1>4. CASE Reboot
  <2>1. CountType' /\ down' \in Seq(DownMessage) /\ up' \in Seq(UpMessage)
    BY <1>0, <1>1, <1>4, CountsKept DEF Reboot
  <2>2. DeviceType'
    BY <1>4 DEF Reboot, DeviceType, Queued, Quiet
  <2> QED
    BY <1>0, <1>4, <2>1, <2>2 DEF Reboot, CacheType, NetworkType, server
<1>5. CASE Duplicate
  <2>1. CountType'
    BY <1>0, <1>5, CountsKept DEF Duplicate
  <2>2. down' \in Seq(DownMessage)
    <3>1. Head(down) \in DownMessage /\ down \in Seq(DownMessage)
      BY <1>0, <1>5, HeadTailProperties DEF Duplicate, NetworkType
    <3> QED BY <1>5, <3>1 DEF Duplicate
  <2> QED
    BY <1>0, <1>5, <2>1, <2>2 DEF Duplicate, CacheType, NetworkType, DeviceType, server, device
<1>6. CASE Reconnect
  <2>1. CountType' /\ sync' \in [Syncers -> {None, Due} \cup SyncMessage]
    BY <1>0, <1>6, CountsKept DEF Reconnect, CacheType
  <2> QED
    BY <1>0, <1>6, <2>1 DEF Reconnect, CacheType, NetworkType, DeviceType, device
<1>7. CASE Restart
  <2>1. CountType' /\ down' \in Seq(DownMessage)
    BY <1>0, <1>1, <1>7, CountsKept DEF Restart
  <2>2. light' \in [Tables -> Light] /\ sync' \in [Syncers -> {None, Due} \cup SyncMessage]
    BY <1>7 DEF Restart, Light
  <2>3. CacheType'
    BY <1>0, <1>7, <2>2, LightsAssumption DEF Restart, CacheType
  <2> QED
    BY <1>0, <1>7, <2>1, <2>3 DEF Restart, NetworkType, DeviceType, device
<1>8. CASE UNCHANGED vars
  BY <1>0, <1>8 DEF vars, server, device, counts, CacheType, NetworkType, DeviceType, CountType
<1> QED
  BY <1>2, <1>3, <1>4, <1>5, <1>6, <1>7, <1>8 DEF Disturb

LEMMA StepType == LightsTypeOK /\ [Next]_vars => LightsTypeOK'
  BY ServerTypes, DeviceTypes, UpsetTypes, Zenon DEF Next, Sends

------------------------------------------------------------------------------
(* As long as nothing disturbs: what the last acknowledgement says. *)

About(m, t) == m.kind = "ack" /\ (m.to = t \/ m.to = All)

\* The last message of s about t says v; none is about t.
LastSays(s, t, v) ==
    \E i \in 1 .. Len(s) :
        /\ About(s[i], t) /\ s[i].on = v
        /\ \A j \in 1 .. Len(s) : j > i => ~About(s[j], t)
Silent(s, t) == \A i \in 1 .. Len(s) : ~About(s[i], t)

\* How the relay of t will be when what is queued for it has been done.
Target(t) == IF queue[t].pending THEN queue[t].on ELSE relay[t]

\* The cache is told of it by a message that is on its way, or has been.
Told(t) ==
    \/ LastSays(up, t, Target(t))
    \/ Silent(up, t) /\ (~IsPending(light[t]) => light[t] = Final(Target(t)))

\* It will be, once the relay has been switched.
AckDue(t) == queue[t].pending /\ queue[t].ack /\ stage[t] # "acked"

Calm ==
    /\ online /\ esp = "connected"
    /\ \A s \in Syncers : sync[s] = None
    /\ \A i \in 1 .. Len(down) : down[i].kind = "set"
    /\ \A i \in 1 .. Len(up) : up[i].kind = "ack"

UpdateInStep ==
    \A t \in Tables : stage[t] # "rest" => queue[t].pending /\ relay[t] = queue[t].on

Undisturbed ==
    upsets = 0 => Calm /\ UpdateInStep /\ \A t \in Tables : AckDue(t) \/ Told(t)

LEMMA AppendSays ==
    ASSUME NEW S, NEW s \in Seq(S), NEW m \in S, NEW t, NEW v
    PROVE  /\ About(m, t) /\ m.on = v => LastSays(Append(s, m), t, v)
           /\ ~About(m, t) /\ LastSays(s, t, v) => LastSays(Append(s, m), t, v)
           /\ ~About(m, t) /\ Silent(s, t) => Silent(Append(s, m), t)
<1> DEFINE r == Append(s, m)
<1>1. /\ Len(s) \in Nat /\ Len(r) = Len(s) + 1
      /\ \A i \in 1 .. Len(s) : r[i] = s[i]
      /\ r[Len(s) + 1] = m
  BY AppendProperties
<1> HIDE DEF r
<1>2. ASSUME About(m, t), m.on = v PROVE LastSays(r, t, v)
  <2>1. Len(r) \in 1 .. Len(r) /\ r[Len(r)] = m
    BY <1>1
  <2> QED BY <1>2, <2>1 DEF LastSays
<1>3. ASSUME ~About(m, t), LastSays(s, t, v) PROVE LastSays(r, t, v)
  <2>1. PICK i \in 1 .. Len(s) :
          About(s[i], t) /\ s[i].on = v /\ \A j \in 1 .. Len(s) : j > i => ~About(s[j], t)
    BY <1>3 DEF LastSays
  <2>2. i \in 1 .. Len(r) /\ r[i] = s[i]
    BY <1>1
  <2>3. ASSUME NEW j \in 1 .. Len(r), j > i PROVE ~About(r[j], t)
    <3>1. CASE j \in 1 .. Len(s)
      BY <1>1, <2>1, <2>3, <3>1
    <3>2. CASE j = Len(s) + 1
      BY <1>1, <1>3, <3>2
    <3> QED BY <1>1, <3>1, <3>2
  <2> QED BY <2>1, <2>2, <2>3 DEF LastSays
<1>4. ASSUME ~About(m, t), Silent(s, t) PROVE Silent(r, t)
  <2>1. ASSUME NEW j \in 1 .. Len(r) PROVE ~About(r[j], t)
    <3>1. CASE j \in 1 .. Len(s)
      BY <1>1, <1>4, <3>1 DEF Silent
    <3>2. CASE j = Len(s) + 1
      BY <1>1, <1>4, <3>2
    <3> QED BY <1>1, <3>1, <3>2
  <2> QED BY <2>1 DEF Silent
<1> QED BY <1>2, <1>3, <1>4 DEF r

LEMMA TailSays ==
    ASSUME NEW S, NEW s \in Seq(S), s # <<>>, NEW t, NEW v
    PROVE  /\ LastSays(s, t, v) =>
                \/ LastSays(Tail(s), t, v)
                \/ Silent(Tail(s), t) /\ About(Head(s), t) /\ Head(s).on = v
           /\ Silent(s, t) => Silent(Tail(s), t) /\ ~About(Head(s), t)
<1> DEFINE r == Tail(s)
<1>1. /\ Len(s) \in Nat \ {0} /\ Len(r) = Len(s) - 1
      /\ \A i \in 1 .. Len(r) : r[i] = s[i + 1]
      /\ Head(s) = s[1]
  BY HeadTailProperties
<1> HIDE DEF r
<1>2. ASSUME Silent(s, t) PROVE Silent(r, t) /\ ~About(Head(s), t)
  <2>1. \A i \in 1 .. Len(r) : i + 1 \in 1 .. Len(s)
    BY <1>1
  <2> QED BY <1>1, <1>2, <2>1 DEF Silent
<1>3. ASSUME LastSays(s, t, v), ~LastSays(r, t, v)
      PROVE  Silent(r, t) /\ About(Head(s), t) /\ Head(s).on = v
  <2>1. PICK i \in 1 .. Len(s) :
          About(s[i], t) /\ s[i].on = v /\ \A j \in 1 .. Len(s) : j > i => ~About(s[j], t)
    BY <1>3 DEF LastSays
  <2>2. ASSUME NEW j \in 1 .. Len(r), j > i - 1 PROVE ~About(r[j], t)
    <3>1. j + 1 \in 1 .. Len(s) /\ j + 1 > i
      BY <1>1, <2>2
    <3> QED BY <1>1, <2>1, <3>1
  <2>3. CASE i = 1
    BY <1>1, <2>1, <2>2, <2>3 DEF Silent
  <2>4. CASE i > 1
    <3>1. i - 1 \in 1 .. Len(r) /\ r[i - 1] = s[i]
      BY <1>1, <2>4
    <3>2. LastSays(r, t, v)
      BY <2>1, <2>2, <3>1 DEF LastSays
    <3> QED BY <1>3, <3>2
  <2> QED BY <2>3, <2>4
<1> QED BY <1>2, <1>3 DEF r

LEMMA InitUndisturbed == Init => Undisturbed
<1> SUFFICES ASSUME Init PROVE Undisturbed
  OBVIOUS
<1>1. Len(up) = 0 /\ Len(down) = 0
  BY DEF Init
<1>2. Calm
  BY <1>1 DEF Init, Calm
<1>3. UpdateInStep
  BY DEF Init, UpdateInStep
<1>4. ASSUME NEW t \in Tables PROVE Told(t)
  <2>1. ~queue[t].pending /\ light[t] = Final(relay[t])
    BY DEF Init, Quiet
  <2>2. Silent(up, t)
    BY <1>1 DEF Silent
  <2> QED BY <2>1, <2>2 DEF Told, Target
<1> QED BY <1>2, <1>3, <1>4 DEF Undisturbed

\* What has not been disturbed after a step has not been before it, and the step
\* was not a disturbance.
LEMMA NotDisturbed ==
    ASSUME LightsTypeOK, [Next]_vars, upsets' = 0
    PROVE  upsets = 0 /\ ~Disturb /\ (Deliver => ~Updating)
<1>1. upsets \in Nat
  BY LightsAssumption DEF LightsTypeOK
<1>2. \A kind : ~Upset(kind)
  BY <1>1 DEF Upset
<1>3. ~Disturb /\ (Deliver => ~Updating)
  BY <1>2 DEF Disturb, Disconnect, Reboot, Duplicate, Reconnect, Restart, Deliver
<1>4. upsets' = upsets
  BY <1>2, <1>3 DEF Next, SetLight, Sends, SendCommand, PublishRelayCommand, Syncs, TakeSnapshot,
     PublishFullStateSync, HandleMessage, Deliver, Updates, Update, SwitchRelay,
     AcknowledgeCommand, ClearPending, EventConnected, Discard, vars, counts
<1> QED BY <1>3, <1>4

\* Nothing changes for the acknowledgements when a light becomes PENDING.
LEMMA TellingKept ==
    ASSUME UpdateInStep /\ \A t \in Tables : AckDue(t) \/ Told(t),
           UNCHANGED <<up, device>>,
           \A t \in Tables : light'[t] = light[t] \/ IsPending(light'[t])
    PROVE  UpdateInStep' /\ \A t \in Tables : AckDue(t)' \/ Told(t)'
<1>1. UpdateInStep'
  BY DEF UpdateInStep, device
<1>2. ASSUME NEW t \in Tables PROVE AckDue(t)' \/ Told(t)'
  <2>1. CASE AckDue(t)
    BY <2>1 DEF AckDue, device
  <2>2. CASE Told(t)
    BY <2>2 DEF Told, Target, LastSays, Silent, device
  <2> QED BY <2>1, <2>2
<1> QED BY <1>1, <1>2

LEMMA UndisturbedServer ==
    ASSUME LightsTypeOK, Calm, UpdateInStep, \A t \in Tables : AckDue(t) \/ Told(t),
           \/ \E c \in Callers : SetLight(c) \/ SendCommand(c)
           \/ PublishRelayCommand
           \/ Syncs
    PROVE  Calm' /\ UpdateInStep' /\ \A t \in Tables : AckDue(t)' \/ Told(t)'
<1>1. ASSUME NEW c \in Callers, SetLight(c)
      PROVE  Calm' /\ UpdateInStep' /\ \A t \in Tables : AckDue(t)' \/ Told(t)'
  <2>1. \A t \in Tables : light'[t] = light[t] \/ IsPending(light'[t])
    BY <1>1 DEF SetLight, IsPending, Pending
  <2>2. UNCHANGED <<up, device>> /\ Calm'
    BY <1>1 DEF SetLight, Calm
  <2> QED BY <2>1, <2>2, TellingKept
<1>2. ASSUME NEW c \in Callers, SendCommand(c)
      PROVE  Calm' /\ UpdateInStep' /\ \A t \in Tables : AckDue(t)' \/ Told(t)'
  <2>1. UNCHANGED <<light, up, device>> /\ Calm'
    BY <1>2 DEF SendCommand, Calm
  <2> QED BY <2>1, TellingKept
<1>3. ASSUME PublishRelayCommand
      PROVE  Calm' /\ UpdateInStep' /\ \A t \in Tables : AckDue(t)' \/ Told(t)'
  <2>1. UNCHANGED <<light, up, device>>
    BY <1>3 DEF PublishRelayCommand
  <2>2. down' = Append(down, Set(Head(cmds)))
    BY <1>3 DEF PublishRelayCommand, Calm
  <2>3. down \in Seq(DownMessage) /\ Set(Head(cmds)) \in DownMessage
    <3>1. Head(cmds) \in Command
      BY <1>3, HeadTailProperties DEF PublishRelayCommand, LightsTypeOK
    <3> QED BY <3>1, MessageTypes DEF LightsTypeOK
  <2>4. /\ Len(down) \in Nat /\ Len(down') = Len(down) + 1
        /\ \A i \in 1 .. Len(down) : down'[i] = down[i]
        /\ down'[Len(down) + 1].kind = "set"
    BY <2>2, <2>3, AppendProperties DEF Set
  <2>5. ASSUME NEW i \in 1 .. Len(down') PROVE down'[i].kind = "set"
    <3>1. i \in 1 .. Len(down) \/ i = Len(down) + 1
      BY <2>4
    <3> QED BY <2>4, <3>1 DEF Calm
  <2>6. Calm'
    BY <1>3, <2>1, <2>5 DEF Calm, PublishRelayCommand
  <2> QED BY <2>1, <2>6, TellingKept
<1>4. ~Syncs
  BY NoneIsNotDue DEF Calm, Syncs, TakeSnapshot, PublishFullStateSync
<1> QED BY <1>1, <1>2, <1>3, <1>4

LEMMA UndisturbedHandle ==
    ASSUME LightsTypeOK, Calm, UpdateInStep, \A t \in Tables : AckDue(t) \/ Told(t),
           HandleMessage
    PROVE  Calm' /\ UpdateInStep' /\ \A t \in Tables : AckDue(t)' \/ Told(t)'
<1> DEFINE m == Head(up)
<1>1. /\ up \in Seq(UpMessage) /\ up # <<>> /\ up' = Tail(up)
      /\ m \in UpMessage
      /\ Len(up) \in Nat \ {0} /\ Len(Tail(up)) = Len(up) - 1 /\ m = up[1]
      /\ \A i \in 1 .. Len(Tail(up)) : Tail(up)[i] = up[i + 1]
  BY HeadTailProperties DEF HandleMessage, LightsTypeOK
<1>2. m.kind = "ack" /\ m.to \in Tables \cup {All}
  <2>1. m.kind = "ack"
    BY <1>1 DEF Calm
  <2> QED BY <1>1, <2>1, UpKinds
<1>3. UNCHANGED <<sending, cmds, dropped, sync, online, down, esp, device>>
  BY <1>2 DEF HandleMessage, SyncRequest
<1>4. Confirm(m.to, m.on)
  BY <1>2 DEF HandleMessage, SyncRequest, SyncAck
<1> HIDE DEF m
<1>5. Calm'
  <2>1. \A i \in 1 .. Len(up') : i + 1 \in 1 .. Len(up) /\ up'[i] = up[i + 1]
    BY <1>1
  <2>2. \A i \in 1 .. Len(up') : up'[i].kind = "ack"
    BY <2>1 DEF Calm
  <2> QED BY <1>3, <2>2 DEF Calm
<1>6. UpdateInStep'
  BY <1>3 DEF UpdateInStep, device
<1>7. ASSUME NEW t \in Tables PROVE AckDue(t)' \/ Told(t)'
  <2>1. CASE AckDue(t)
    BY <1>3, <2>1 DEF AckDue, device
  <2>2. CASE Told(t)
    <3>1. Target(t)' = Target(t)
      BY <1>3 DEF Target, device
    <3>2. /\ About(m, t) => light'[t] = Final(m.on)
          /\ ~About(m, t) => light'[t] = light[t]
      BY <1>2, <1>4, LightsAssumption DEF Confirm, Addressed, About
    <3>3. \/ LastSays(up', t, Target(t))
          \/ Silent(up', t) /\ About(m, t) /\ m.on = Target(t)
          \/ Silent(up', t) /\ ~About(m, t) /\ (~IsPending(light[t]) => light[t] = Final(Target(t)))
      BY <1>1, <2>2, TailSays DEF Told, m
    <3>4. \/ LastSays(up', t, Target(t)')
          \/ Silent(up', t) /\ (~IsPending(light'[t]) => light'[t] = Final(Target(t)'))
      BY <3>1, <3>2, <3>3
    <3> QED BY <3>4 DEF Told
  <2> QED BY <2>1, <2>2
<1> QED BY <1>5, <1>6, <1>7

LEMMA UndisturbedDeliver ==
    ASSUME LightsTypeOK, Calm, UpdateInStep, \A t \in Tables : AckDue(t) \/ Told(t),
           Deliver, ~Updating
    PROVE  Calm' /\ UpdateInStep' /\ \A t \in Tables : AckDue(t)' \/ Told(t)'
<1> DEFINE m == Head(down)
<1>1. /\ down \in Seq(DownMessage) /\ down # <<>> /\ down' = Tail(down)
      /\ m \in DownMessage
      /\ Len(down) \in Nat \ {0} /\ Len(Tail(down)) = Len(down) - 1 /\ m = down[1]
      /\ \A i \in 1 .. Len(Tail(down)) : Tail(down)[i] = down[i + 1]
  BY HeadTailProperties DEF Deliver, LightsTypeOK
<1>2. m.kind = "set" /\ m.to \in Tables \cup {All} /\ m.on \in BOOLEAN
  <2>1. m.kind = "set"
    BY <1>1 DEF Calm
  <2> QED BY <1>1, <2>1, DownKinds
<1>3. EventData(m) /\ UNCHANGED <<server, online, esp, stage>>
  BY DEF Deliver
<1> HIDE DEF m
<1>4. UNCHANGED relay
  BY <1>2, <1>3 DEF EventData
<1>5. \A t \in Tables : stage[t] = "rest"
  BY DEF Updating
<1>6. UpdateInStep'
  BY <1>3, <1>5 DEF UpdateInStep
<1>7. \A i \in 1 .. Len(down') : down'[i].kind = "set"
  <2>1. \A i \in 1 .. Len(down') : i + 1 \in 1 .. Len(down) /\ down'[i] = down[i + 1]
    BY <1>1
  <2> QED BY <2>1 DEF Calm
<1>8. up \in Seq(UpMessage) /\ queue \in [Tables -> Queued]
  BY DEF LightsTypeOK, Queued
<1>9. CASE m.to = All
  <2> DEFINE a == Ack(All, m.on)
  <2>1. up' = Append(up, a) /\ QueueStateAll(m.on)
    BY <1>2, <1>3, <1>9 DEF EventData
  <2>2. a \in UpMessage
    BY <1>2, MessageTypes
  <2>3. a.kind = "ack" /\ a.to = All /\ a.on = m.on
    BY DEF Ack
  <2> HIDE DEF a
  <2>4. /\ Len(up) \in Nat /\ Len(up') = Len(up) + 1
        /\ \A i \in 1 .. Len(up) : up'[i] = up[i]
        /\ up'[Len(up) + 1].kind = "ack"
    BY <1>8, <2>1, <2>2, <2>3, AppendProperties
  <2>5. \A i \in 1 .. Len(up') : up'[i].kind = "ack"
    <3>1. \A i \in 1 .. Len(up') : i \in 1 .. Len(up) \/ i = Len(up) + 1
      BY <2>4
    <3> QED BY <2>4, <3>1 DEF Calm
  <2>6. Calm'
    BY <1>3, <1>7, <2>5 DEF Calm, server
  <2>7. ASSUME NEW t \in Tables PROVE Told(t)'
    <3>1. queue'[t].pending /\ queue'[t].on = m.on
      BY <2>1 DEF QueueStateAll
    <3>2. Target(t)' = m.on
      BY <3>1 DEF Target
    <3>3. LastSays(up', t, m.on)
      BY <1>8, <2>1, <2>2, <2>3, AppendSays DEF About
    <3> QED BY <3>2, <3>3 DEF Told
  <2> QED BY <1>6, <2>6, <2>7
<1>10. CASE m.to # All
  <2>1. QueueState(m.to, m.on) /\ UNCHANGED <<relay, up>>
    BY <1>2, <1>3, <1>10 DEF EventData
  <2>2. Calm'
    BY <1>3, <1>7, <2>1 DEF Calm, server
  <2>3. ASSUME NEW t \in Tables PROVE AckDue(t)' \/ Told(t)'
    <3>1. CASE t = m.to
      <4>1. queue'[t].pending /\ queue'[t].ack
        BY <1>8, <2>1, <3>1 DEF QueueState
      <4> QED BY <1>3, <1>5, <4>1 DEF AckDue
    <3>2. CASE t # m.to
      <4>1. queue'[t] = queue[t]
        BY <1>8, <2>1, <3>2 DEF QueueState
      <4>2. AckDue(t) => AckDue(t)'
        BY <1>3, <4>1 DEF AckDue
      <4>3. Target(t)' = Target(t)
        BY <2>1, <4>1 DEF Target
      <4>4. Told(t) => Told(t)'
        BY <1>3, <2>1, <4>3 DEF Told, LastSays, Silent, server
      <4> QED BY <4>2, <4>4
    <3> QED BY <3>1, <3>2
  <2> QED BY <1>6, <2>2, <2>3
<1> QED BY <1>9, <1>10

LEMMA UndisturbedUpdate ==
    ASSUME LightsTypeOK, Calm, UpdateInStep, \A t \in Tables : AckDue(t) \/ Told(t),
           NEW u \in Tables, Update(u)
    PROVE  Calm' /\ UpdateInStep' /\ \A t \in Tables : AckDue(t)' \/ Told(t)'
<1>0. /\ relay \in [Tables -> BOOLEAN] /\ queue \in [Tables -> Queued]
      /\ stage \in [Tables -> {"rest", "switched", "acked"}] /\ up \in Seq(UpMessage)
  BY DEF LightsTypeOK, Queued
<1>1. ASSUME NEW t \in Tables, t # u, UNCHANGED <<light, up>>,
             relay'[t] = relay[t], queue'[t] = queue[t], stage'[t] = stage[t]
      PROVE  AckDue(t)' \/ Told(t)'
  BY <1>1 DEF AckDue, Told, Target, LastSays, Silent
<1>2. CASE SwitchRelay(u)
  <2>1. UNCHANGED <<light, up, queue>> /\ Calm'
    BY <1>2 DEF SwitchRelay, server, Calm
  <2>2. /\ queue[u].pending /\ relay'[u] = queue[u].on /\ stage'[u] = "switched"
        /\ \A t \in Tables \ {u} : relay'[t] = relay[t] /\ stage'[t] = stage[t]
    BY <1>0, <1>2 DEF SwitchRelay
  <2>3. UpdateInStep'
    BY <2>1, <2>2 DEF UpdateInStep
  <2>4. AckDue(u)' \/ Told(u)'
    <3>1. Target(u)' = Target(u)
      BY <2>1, <2>2 DEF Target
    <3>2. Told(u) => Told(u)'
      BY <2>1, <3>1 DEF Told, LastSays, Silent
    <3>3. AckDue(u) => AckDue(u)'
      BY <2>1, <2>2 DEF AckDue
    <3> QED BY <3>2, <3>3
  <2> QED BY <1>1, <2>1, <2>2, <2>3, <2>4
<1>3. CASE AcknowledgeCommand(u)
  <2> DEFINE a == Ack(u, queue[u].on)
  <2>1. /\ UNCHANGED <<light, relay, queue>>
        /\ up' = IF queue[u].ack THEN Append(up, a) ELSE up
        /\ queue[u].pending /\ queue[u].on \in BOOLEAN
        /\ stage[u] = "switched" /\ stage'[u] = "acked"
        /\ \A t \in Tables \ {u} : stage'[t] = stage[t]
    BY <1>0, <1>3 DEF AcknowledgeCommand, server, UpdateInStep, Queued
  <2>2. a \in UpMessage
    BY <2>1, MessageTypes
  <2>3. a.kind = "ack" /\ a.to = u /\ a.on = queue[u].on
    BY DEF Ack
  <2> HIDE DEF a
  <2>4. UpdateInStep'
    BY <2>1 DEF UpdateInStep
  <2>5. CASE ~queue[u].ack
    <3>1. UNCHANGED up /\ Calm'
      BY <1>3, <2>1, <2>5 DEF AcknowledgeCommand, server, Calm
    <3>2. ~AckDue(u)
      BY <2>5 DEF AckDue
    <3>3. Told(u)'
      BY <2>1, <3>1, <3>2 DEF Told, Target, LastSays, Silent
    <3> QED BY <1>1, <2>1, <2>4, <3>1, <3>3
  <2>6. CASE queue[u].ack
    <3>1. up' = Append(up, a)
      BY <2>1, <2>6
    <3>2. /\ Len(up) \in Nat /\ Len(up') = Len(up) + 1
          /\ \A i \in 1 .. Len(up) : up'[i] = up[i]
          /\ up'[Len(up) + 1].kind = "ack"
      BY <1>0, <2>2, <2>3, <3>1, AppendProperties
    <3>3. \A i \in 1 .. Len(up') : up'[i].kind = "ack"
      <4>1. \A i \in 1 .. Len(up') : i \in 1 .. Len(up) \/ i = Len(up) + 1
        BY <3>2
      <4> QED BY <3>2, <4>1 DEF Calm
    <3>4. Calm'
      BY <1>3, <3>3 DEF AcknowledgeCommand, server, Calm
    <3>5. Told(u)'
      <4>1. LastSays(up', u, queue[u].on)
        BY <1>0, <2>2, <2>3, <3>1, AppendSays DEF About
      <4>2. Target(u)' = queue[u].on
        BY <2>1 DEF Target
      <4> QED BY <4>1, <4>2 DEF Told
    <3>6. ASSUME NEW t \in Tables, t # u PROVE AckDue(t)' \/ Told(t)'
      <4>1. CASE AckDue(t)
        BY <2>1, <3>6, <4>1 DEF AckDue
      <4>2. CASE Told(t)
        <5>1. ~About(a, t)
          BY <2>3, <3>6, LightsAssumption DEF About
        <5>2. Target(t)' = Target(t)
          BY <2>1 DEF Target
        <5>3. \/ LastSays(up', t, Target(t))
              \/ Silent(up', t) /\ (~IsPending(light[t]) => light[t] = Final(Target(t)))
          <6>1. /\ LastSays(up, t, Target(t)) => LastSays(up', t, Target(t))
                /\ Silent(up, t) => Silent(up', t)
            BY <1>0, <2>2, <3>1, <5>1, AppendSays
          <6> QED BY <4>2, <6>1 DEF Told
        <5> QED BY <2>1, <5>2, <5>3 DEF Told
      <4> QED BY <4>1, <4>2
    <3> QED BY <2>4, <3>4, <3>5, <3>6
  <2> QED BY <2>5, <2>6
<1>4. CASE ClearPending(u)
  <2>1. /\ UNCHANGED <<light, up, relay>> /\ Calm'
        /\ stage[u] = "acked" /\ stage'[u] = "rest"
        /\ \A t \in Tables \ {u} : stage'[t] = stage[t]
    BY <1>0, <1>4 DEF ClearPending, server, Calm
  <2>2. ~queue'[u].pending /\ \A t \in Tables \ {u} : queue'[t] = queue[t]
    BY <1>0, <1>4 DEF ClearPending, Queued
  <2>3. UpdateInStep'
    BY <2>1, <2>2 DEF UpdateInStep
  <2>4. Told(u)'
    <3>1. Target(u)' = Target(u)
      BY <2>1, <2>2 DEF Target, UpdateInStep
    <3>2. Told(u)
      BY <2>1 DEF AckDue
    <3> QED BY <2>1, <3>1, <3>2 DEF Told, LastSays, Silent
  <2> QED BY <1>1, <2>1, <2>2, <2>3, <2>4
<1> QED BY <1>2, <1>3, <1>4 DEF Update

LEMMA StepUndisturbed == LightsTypeOK /\ Undisturbed /\ [Next]_vars => Undisturbed'
<1> SUFFICES ASSUME LightsTypeOK, Undisturbed, [Next]_vars, upsets' = 0
             PROVE  Calm' /\ UpdateInStep' /\ \A t \in Tables : AckDue(t)' \/ Told(t)'
  BY DEF Undisturbed
<1>1. ~Disturb /\ (Deliver => ~Updating)
  BY NotDisturbed
<1>2. Calm /\ UpdateInStep /\ \A t \in Tables : AckDue(t) \/ Told(t)
  BY NotDisturbed DEF Undisturbed
<1>3. ~EventConnected /\ ~Discard
  BY <1>2 DEF Calm, EventConnected, Discard
<1>4. CASE UNCHANGED vars
  <2>1. UNCHANGED <<light, up, device>> /\ Calm'
    BY <1>2, <1>4 DEF vars, server, Calm
  <2> QED BY <1>2, <2>1, TellingKept
<1> QED
  BY <1>1, <1>2, <1>3, <1>4, UndisturbedServer, UndisturbedHandle, UndisturbedDeliver,
     UndisturbedUpdate, Zenon DEF Next, Sends, Updates

------------------------------------------------------------------------------
(* After a sync request was read in a quiet system: the sync it leads to. *)

NothingElse ==
    /\ \A c \in Callers : sending[c] = NoCommand
    /\ cmds = <<>>
    /\ \A t \in Tables : ~queue[t].pending /\ stage[t] = "rest"
    /\ sync["onConnect"] = None
    /\ up \in Seq({SyncRequest, SyncAck})

\* The snapshot stays the same when lights are confirmed by a sync.
OneSnapshot ==
    /\ sync["onMessage"] \in {None, Due, Sync(Snapshot)}
    /\ down \in Seq({Sync(Snapshot)})

SyncIsComing ==
    \/ esp # "connected"
    \/ \E i \in 1 .. Len(up) : up[i] = SyncRequest
    \/ sync["onMessage"] # None
    \/ down # <<>>

SyncIsDone ==
    /\ relay = Snapshot
    /\ \/ \E i \in 1 .. Len(up) : up[i] = SyncAck
       \/ \A t \in Tables : ~IsPending(light[t])

Repairing == calm => NothingElse /\ OneSnapshot /\ (SyncIsComing \/ SyncIsDone)

LEMMA RequestIsNoAck == SyncRequest.kind = "request" /\ SyncAck.kind = "syncAck"
  BY DEF SyncRequest, SyncAck

\* The steps there are as long as nothing else is under way.
LEMMA StepsOfSync ==
    ASSUME LightsTypeOK, NothingElse, Next, UNCHANGED counts
    PROVE  \/ HandleMessage
           \/ TakeSnapshot("onMessage") \/ PublishFullStateSync("onMessage")
           \/ Deliver
           \/ EventConnected
           \/ Discard
<1>1. switches \in Nat /\ upsets \in Nat
  BY LightsAssumption DEF LightsTypeOK
<1>2. ~Disturb
  <2>1. \A kind : ~Upset(kind)
    BY <1>1 DEF Upset, counts
  <2> QED BY <2>1 DEF Disturb, Disconnect, Reboot, Duplicate, Reconnect, Restart
<1>3. \A c \in Callers : ~SetLight(c)
  BY <1>1 DEF SetLight, counts
<1>4. ~Sends /\ ~PublishRelayCommand
  BY DEF NothingElse, Sends, SendCommand, PublishRelayCommand
<1>5. ~Updates
  BY DEF NothingElse, Updates, Update, SwitchRelay, AcknowledgeCommand, ClearPending
<1>6. ASSUME Syncs PROVE TakeSnapshot("onMessage") \/ PublishFullStateSync("onMessage")
  <2>1. PICK s \in Syncers : TakeSnapshot(s) \/ PublishFullStateSync(s)
    BY <1>6 DEF Syncs
  <2>2. s # "onConnect"
    BY <2>1, NoneIsNotDue DEF NothingElse, TakeSnapshot, PublishFullStateSync
  <2>3. s = "onMessage"
    BY <2>2 DEF Syncers
  <2> QED BY <2>1, <2>3
<1> QED BY <1>2, <1>3, <1>4, <1>5, <1>6 DEF Next

\* What is put into a sequence is there afterwards.
LEMMA PutInto ==
    ASSUME NEW S, NEW a \in Seq(S), NEW c \in Seq(S), NEW m \in S,
           NEW r, r = a \o <<m>> \o c
    PROVE  r \in Seq(S) /\ \E i \in 1 .. Len(r) : r[i] = m
<1>1. <<m>> \in Seq(S) /\ Len(<<m>>) = 1 /\ <<m>>[1] = m
  OBVIOUS
<1> DEFINE b == <<m>>
           ab == a \o b
<1>2. b \in Seq(S) /\ Len(b) = 1 /\ b[1] = m
  BY <1>1
<1> HIDE DEF b
<1>3. Len(a) \in Nat /\ Len(c) \in Nat
  BY LenProperties
<1>4. ab \in Seq(S) /\ Len(ab) = Len(a) + 1
  <2>1. ab \in Seq(S) /\ Len(ab) = Len(a) + Len(b)
    BY <1>2, ConcatProperties, Zenon
  <2> QED BY <2>1, <1>2
<1>5. Len(a) + 1 \in 1 .. Len(a) + Len(b)
  BY <1>2, <1>3
<1>6. ab[Len(a) + 1] = IF Len(a) + 1 <= Len(a) THEN a[Len(a) + 1]
                                              ELSE b[Len(a) + 1 - Len(a)]
  <2>1. \A i \in 1 .. Len(a) + Len(b) : ab[i] = IF i <= Len(a) THEN a[i] ELSE b[i - Len(a)]
    BY <1>2, ConcatProperties, Zenon
  <2> QED BY <1>5, <2>1
<1>7. ab[Len(a) + 1] = m
  BY <1>2, <1>3, <1>6
<1> HIDE DEF ab
<1>8. ab \o c \in Seq(S) /\ Len(ab \o c) = Len(ab) + Len(c)
  BY <1>4, ConcatProperties
<1>9. Len(a) + 1 \in 1 .. Len(ab) + Len(c) /\ Len(a) + 1 <= Len(ab)
  BY <1>3, <1>4
<1>10. (ab \o c)[Len(a) + 1] = IF Len(a) + 1 <= Len(ab) THEN ab[Len(a) + 1]
                                                       ELSE c[Len(a) + 1 - Len(ab)]
  BY <1>4, <1>9, ConcatProperties
<1>11. (ab \o c)[Len(a) + 1] = m
  BY <1>7, <1>9, <1>10
<1>12. Len(a) + 1 \in 1 .. Len(ab \o c)
  BY <1>8, <1>9
<1> QED BY <1>8, <1>11, <1>12 DEF ab, b

\* The request that makes the system calm.
LEMMA RequestIsRead ==
    ASSUME LightsTypeOK, OnlyRequest, Next, UNCHANGED counts, up' = <<>>
    PROVE  NothingElse' /\ OneSnapshot' /\ SyncIsComing'
<1>1. NothingElse
  BY DEF OnlyRequest, NothingElse, Syncers
<1>2. HandleMessage
  <2>1. ~EventConnected
    <3>1. ASSUME NEW n \in 0 .. Len(up),
                 <<>> = SubSeq(up, 1, n) \o <<SyncRequest>> \o SubSeq(up, n + 1, Len(up))
          PROVE  FALSE
      <4>1. up \in Seq(UpMessage) /\ SyncRequest \in UpMessage /\ Len(up) \in Nat
        BY MessageTypes DEF LightsTypeOK
      <4>2. SubSeq(up, 1, n) \in Seq(UpMessage) /\ SubSeq(up, n + 1, Len(up)) \in Seq(UpMessage)
        BY <4>1, SubSeqType
      <4>3. PICK m : m = SyncRequest
        OBVIOUS
      <4>4. PICK r : r = <<>>
        OBVIOUS
      <4>5. \E i \in 1 .. Len(r) : r[i] = m
        <5> DEFINE a == SubSeq(up, 1, n)
                   c == SubSeq(up, n + 1, Len(up))
        <5>1. /\ a \in Seq(UpMessage) /\ c \in Seq(UpMessage) /\ m \in UpMessage
              /\ r = a \o <<m>> \o c
          BY <3>1, <4>1, <4>2, <4>3, <4>4
        <5> HIDE DEF a, c
        <5> QED BY <5>1, PutInto
      <4> QED BY <4>4, <4>5
    <3> QED BY <3>1 DEF EventConnected
  <2> QED
    BY <1>1, <2>1, StepsOfSync, NoneIsNotDue
       DEF OnlyRequest, TakeSnapshot, PublishFullStateSync, Deliver, Discard, Syncers
<1>3. Head(up) = SyncRequest
  BY DEF OnlyRequest
<1>4. /\ sync' = [sync EXCEPT !["onMessage"] = Due] /\ UNCHANGED light
      /\ UNCHANGED <<sending, cmds, dropped, online, down, esp, device, counts>>
  BY <1>2, <1>3, RequestIsNoAck DEF HandleMessage
<1>5. sync'["onMessage"] = Due /\ sync'["onConnect"] = sync["onConnect"]
  BY <1>4 DEF LightsTypeOK, Syncers
<1>6. NothingElse'
  BY <1>1, <1>4, <1>5 DEF NothingElse, device
<1>7. OneSnapshot'
  BY <1>4, <1>5 DEF OneSnapshot, OnlyRequest
<1>8. SyncIsComing'
  BY <1>5, NoneIsNotDue DEF SyncIsComing
<1> QED BY <1>6, <1>7, <1>8

LEMMA SnapshotKept ==
    ASSUME light \in [Tables -> Light], UNCHANGED light \/ ConfirmFullSync
    PROVE  Snapshot' = Snapshot
  BY DEF Snapshot, ConfirmFullSync, Light

LEMMA SyncHandled ==
    ASSUME LightsTypeOK, NothingElse, OneSnapshot, SyncIsComing \/ SyncIsDone, HandleMessage
    PROVE  NothingElse' /\ OneSnapshot' /\ (SyncIsComing' \/ SyncIsDone')
<1> DEFINE m == Head(up)
<1>1. /\ up \in Seq({SyncRequest, SyncAck}) /\ up # <<>> /\ up' = Tail(up)
      /\ m \in {SyncRequest, SyncAck} /\ up' \in Seq({SyncRequest, SyncAck})
      /\ Len(up) \in Nat \ {0} /\ Len(Tail(up)) = Len(up) - 1 /\ m = up[1]
      /\ \A i \in 1 .. Len(Tail(up)) : Tail(up)[i] = up[i + 1]
  BY HeadTailProperties DEF HandleMessage, NothingElse
<1>2. UNCHANGED <<sending, cmds, dropped, online, down, esp, device, counts>>
  BY DEF HandleMessage
<1>3. CASE m = SyncRequest
  <2>1. sync' = [sync EXCEPT !["onMessage"] = Due] /\ UNCHANGED light
    BY <1>3, RequestIsNoAck DEF HandleMessage
  <2>2. sync'["onMessage"] = Due /\ sync'["onConnect"] = sync["onConnect"]
    BY <2>1 DEF LightsTypeOK, Syncers
  <2>3. Snapshot' = Snapshot
    BY <2>1, SnapshotKept DEF LightsTypeOK, Light
  <2>4. NothingElse'
    BY <1>1, <1>2, <2>2 DEF NothingElse, device
  <2>5. OneSnapshot'
    BY <1>2, <2>2, <2>3 DEF OneSnapshot
  <2>6. SyncIsComing'
    BY <2>2, NoneIsNotDue DEF SyncIsComing
  <2> QED BY <2>4, <2>5, <2>6
<1>4. CASE m = SyncAck
  <2>1. UNCHANGED sync /\ ConfirmFullSync
    BY <1>4, RequestIsNoAck DEF HandleMessage
  <2>2. Snapshot' = Snapshot
    BY <2>1, SnapshotKept DEF LightsTypeOK, Light
  <2>3. NothingElse'
    BY <1>1, <1>2, <2>1 DEF NothingElse, device
  <2>4. OneSnapshot'
    BY <1>2, <2>1, <2>2 DEF OneSnapshot
  <2>5. CASE SyncIsDone
    <3>1. \A t \in Tables : ~IsPending(light'[t])
      BY <2>1 DEF ConfirmFullSync, IsPending, LightsTypeOK
    <3>2. SyncIsDone'
      BY <1>2, <2>2, <2>5, <3>1 DEF SyncIsDone, device
    <3> QED BY <2>3, <2>4, <3>2
  <2>6. CASE SyncIsComing
    <3>1. ASSUME NEW i \in 1 .. Len(up), up[i] = SyncRequest
          PROVE  \E j \in 1 .. Len(up') : up'[j] = SyncRequest
      <4>1. i # 1
        BY <1>1, <1>4, <3>1, RequestIsNoAck
      <4>2. i - 1 \in 1 .. Len(up') /\ up'[i - 1] = up[i]
        BY <1>1, <4>1
      <4> QED BY <3>1, <4>2
    <3>2. SyncIsComing'
      BY <1>2, <2>1, <2>6, <3>1 DEF SyncIsComing
    <3> QED BY <2>3, <2>4, <3>2
  <2> QED BY <2>5, <2>6
<1> QED BY <1>1, <1>3, <1>4

LEMMA SyncPublished ==
    ASSUME LightsTypeOK, NothingElse, OneSnapshot,
           TakeSnapshot("onMessage") \/ PublishFullStateSync("onMessage")
    PROVE  NothingElse' /\ OneSnapshot' /\ SyncIsComing'
<1>1. CASE TakeSnapshot("onMessage")
  <2>1. sync'["onMessage"] = Sync(Snapshot) /\ sync'["onConnect"] = sync["onConnect"]
    BY <1>1 DEF TakeSnapshot, LightsTypeOK, Syncers
  <2>2. Snapshot' = Snapshot
    BY <1>1 DEF TakeSnapshot, Snapshot
  <2>3. NothingElse'
    BY <1>1, <2>1 DEF TakeSnapshot, NothingElse, device
  <2>4. OneSnapshot'
    BY <1>1, <2>1, <2>2 DEF TakeSnapshot, OneSnapshot
  <2>5. SyncIsComing'
    BY <2>1, NoneIsNotDue DEF SyncIsComing
  <2> QED BY <2>3, <2>4, <2>5
<1>2. CASE PublishFullStateSync("onMessage")
  <2>1. sync["onMessage"] = Sync(Snapshot)
    BY <1>2 DEF PublishFullStateSync, OneSnapshot
  <2>2. sync'["onMessage"] = None /\ sync'["onConnect"] = sync["onConnect"]
    BY <1>2 DEF PublishFullStateSync, LightsTypeOK, Syncers
  <2>3. Snapshot' = Snapshot
    BY <1>2 DEF PublishFullStateSync, Snapshot
  <2>4. down' = Append(down, Sync(Snapshot)) /\ down \in Seq({Sync(Snapshot)})
    BY <1>2, <2>1 DEF PublishFullStateSync, OneSnapshot
  <2>5. down' \in Seq({Sync(Snapshot)}) /\ down' # <<>>
    BY <2>4, AppendProperties
  <2>6. NothingElse'
    BY <1>2, <2>2 DEF PublishFullStateSync, NothingElse, device
  <2>7. OneSnapshot'
    BY <2>2, <2>3, <2>5 DEF OneSnapshot
  <2> QED BY <2>5, <2>6, <2>7 DEF SyncIsComing
<1> QED BY <1>1, <1>2

LEMMA SyncArrives ==
    ASSUME LightsTypeOK, NothingElse, OneSnapshot, Deliver \/ Discard
    PROVE  NothingElse' /\ OneSnapshot' /\ (SyncIsComing' \/ SyncIsDone')
<1>1. /\ down \in Seq({Sync(Snapshot)}) /\ down # <<>> /\ down' = Tail(down)
      /\ Head(down) = Sync(Snapshot) /\ down' \in Seq({Sync(Snapshot)})
  BY HeadTailProperties DEF Deliver, Discard, OneSnapshot
<1>2. UNCHANGED <<server, online, esp>>
  BY DEF Deliver, Discard
<1>3. Snapshot' = Snapshot
  BY <1>2 DEF Snapshot, server
<1>4. OneSnapshot'
  BY <1>1, <1>2, <1>3 DEF OneSnapshot, server
<1>5. CASE Deliver
  <2>1. Head(down).kind = "sync" /\ Head(down).tables = Snapshot
    BY <1>1 DEF Sync
  <2>2. EventData(Head(down)) /\ UNCHANGED stage
    BY <1>5 DEF Deliver
  <2>3. relay' = Snapshot /\ up' = Append(up, SyncAck) /\ UNCHANGED queue
    BY <2>1, <2>2 DEF EventData
  <2>4. /\ up' \in Seq({SyncRequest, SyncAck})
        /\ Len(up') \in 1 .. Len(up') /\ up'[Len(up')] = SyncAck
    <3>1. up \in Seq({SyncRequest, SyncAck})
      BY DEF NothingElse
    <3> QED BY <2>3, <3>1, AppendProperties
  <2>5. NothingElse'
    BY <1>2, <2>2, <2>3, <2>4 DEF NothingElse, server
  <2>6. SyncIsDone'
    BY <1>3, <2>3, <2>4 DEF SyncIsDone
  <2> QED BY <1>4, <2>5, <2>6
<1>6. CASE Discard
  <2>1. NothingElse' /\ SyncIsComing'
    BY <1>2, <1>6 DEF Discard, NothingElse, SyncIsComing, server, device
  <2> QED BY <1>4, <2>1
<1> QED BY <1>5, <1>6

LEMMA SyncIsAskedFor ==
    ASSUME LightsTypeOK, NothingElse, OneSnapshot, EventConnected
    PROVE  NothingElse' /\ OneSnapshot' /\ SyncIsComing'
<1> DEFINE M == {SyncRequest, SyncAck}
<1>1. PICK n \in 0 .. Len(up) :
        up' = SubSeq(up, 1, n) \o <<SyncRequest>> \o SubSeq(up, n + 1, Len(up))
  BY DEF EventConnected
<1>2. up \in Seq(M) /\ Len(up) \in Nat /\ SyncRequest \in M
  BY DEF NothingElse
<1> HIDE DEF M
<1> DEFINE a == SubSeq(up, 1, n)
<1>3. a \in Seq(M) /\ SubSeq(up, n + 1, Len(up)) \in Seq(M)
  BY <1>2, SubSeqType
<1>4. up' \in Seq(M) /\ \E i \in 1 .. Len(up') : up'[i] = SyncRequest
  <2>1. PICK m : m = SyncRequest
    OBVIOUS
  <2>2. up' \in Seq(M) /\ \E i \in 1 .. Len(up') : up'[i] = m
    <3> DEFINE c == SubSeq(up, n + 1, Len(up))
    <3>1. a \in Seq(M) /\ c \in Seq(M) /\ m \in M /\ up' = a \o <<m>> \o c
      BY <1>1, <1>2, <1>3, <2>1
    <3> HIDE DEF a, c
    <3> QED BY <3>1, PutInto
  <2> QED BY <2>1, <2>2
<1>5. NothingElse'
  BY <1>4 DEF EventConnected, NothingElse, server, device, M
<1>6. OneSnapshot'
  BY DEF EventConnected, OneSnapshot, server, Snapshot
<1>7. SyncIsComing'
  BY <1>4 DEF SyncIsComing
<1> QED BY <1>5, <1>6, <1>7

LEMMA StepRepairing == LightsTypeOK /\ Repairing /\ [WatchNext]_watchVars => Repairing'
<1> SUFFICES ASSUME LightsTypeOK, Repairing, [WatchNext]_watchVars, calm'
             PROVE  NothingElse' /\ OneSnapshot' /\ (SyncIsComing' \/ SyncIsDone')
  BY DEF Repairing
<1>1. CASE UNCHANGED watchVars
  BY <1>1 DEF Repairing, NothingElse, OneSnapshot, SyncIsComing, SyncIsDone, Snapshot,
     watchVars, vars, server, device
<1>2. CASE WatchNext
  <2>1. Next /\ UNCHANGED counts /\ (calm \/ (OnlyRequest /\ up' = <<>>))
    BY <1>2 DEF WatchNext
  <2>2. CASE calm
    BY <2>1, <2>2, StepsOfSync, SyncHandled, SyncPublished, SyncArrives, SyncIsAskedFor
       DEF Repairing
  <2>3. CASE OnlyRequest /\ up' = <<>>
    BY <2>1, <2>3, RequestIsRead
  <2> QED BY <2>1, <2>2, <2>3
<1> QED BY <1>1, <1>2

------------------------------------------------------------------------------
LEMMA LightsInvariant == Spec => [](LightsTypeOK /\ Undisturbed)
  BY InitType, InitUndisturbed, StepType, StepUndisturbed, PTL DEF Spec

LEMMA WatchIsSpec == WatchSpec => Spec
<1>1. WatchInit => Init
  BY DEF WatchInit
<1>2. [WatchNext]_watchVars => [Next]_vars
  BY DEF WatchNext, watchVars
<1> QED BY <1>1, <1>2, PTL DEF WatchSpec, Spec

\* Every reachable state of the lights is well typed, channel and messages
\* included.
THEOREM LightsTypes == Spec => []LightsTypeOK
  BY LightsInvariant, PTL

\* For any tables, callers and switches: undisturbed, a light that the cache takes
\* for confirmed is as the cache says once nothing is under way.
THEOREM UndisturbedLights == Spec => []UndisturbedAgrees
<1>1. Undisturbed => UndisturbedAgrees
  <2> SUFFICES ASSUME Undisturbed, upsets = 0, AtRest, NEW t \in Tables
               PROVE  Agrees(t)
    BY DEF UndisturbedAgrees
  <2>1. up = <<>> /\ ~queue[t].pending
    BY DEF AtRest
  <2>2. Told(t)
    BY <2>1 DEF Undisturbed, AckDue
  <2>3. ~LastSays(up, t, Target(t))
    BY <2>1 DEF LastSays
  <2> QED BY <2>1, <2>2, <2>3 DEF Told, Target, Agrees
<1> QED BY <1>1, LightsInvariant, PTL

\* Whatever was lost, dropped, duplicated or restarted before: a sync request that
\* is answered in a quiet system repairs every light.
THEOREM SyncRepairsLights == WatchSpec => []SyncRepairs
<1>1. WatchInit => Repairing
  BY DEF WatchInit, Repairing
<1>2. LightsTypeOK /\ Repairing => SyncRepairs
  <2> SUFFICES ASSUME LightsTypeOK, Repairing, calm, AtRest, NEW t \in Tables
               PROVE  Agrees(t) /\ ~IsPending(light[t])
    BY DEF SyncRepairs
  <2>1. ~SyncIsComing
    BY DEF AtRest, SyncIsComing, Syncers
  <2>2. SyncIsDone
    BY <2>1 DEF Repairing
  <2>3. relay[t] = (light[t] \in {"ON", "PENDING-ON"}) /\ ~IsPending(light[t])
    BY <2>2 DEF SyncIsDone, Snapshot, AtRest
  <2>5. CASE light[t] = "ON"
    BY <2>3, <2>5 DEF Agrees, Final, IsPending
  <2>6. CASE light[t] = "OFF"
    BY <2>3, <2>6 DEF Agrees, Final, IsPending
  <2>4. light[t] \in {"ON", "OFF", "PENDING-ON", "PENDING-OFF"}
    BY DEF LightsTypeOK
  <2> QED BY <2>3, <2>4, <2>5, <2>6 DEF IsPending
<1>3. WatchSpec => []LightsTypeOK
  BY WatchIsSpec, LightsTypes, PTL
<1> QED BY <1>1, <1>2, <1>3, StepRepairing, PTL DEF WatchSpec
==============================================================================
