------------------------- MODULE SocketClientProofs --------------------------
(***************************************************************************)
(* Safety of the browser's WebSocket wrapper, for any number of sockets,    *)
(* tokens and failures.                                                     *)
(***************************************************************************)
EXTENDS SocketClient, TLAPS

\* The three safety properties are inductive together: the close event may take
\* the flag and the reference of a newer socket, but then it leaves a timeout.
SInv == SocketTypeOK /\ LiveMeansOpen /\ NeverStranded

\* What the steps of the wrapper leave alone.
Outside == <<firebase, user, waiting, upsets>>
OutsideType ==
    /\ auth' \in BOOLEAN /\ user' \in BOOLEAN
    /\ idToken' \in Nat /\ validFrom' \in Nat
    /\ setup' \in BOOLEAN /\ visible' \in BOOLEAN /\ changed' \in BOOLEAN
    /\ upsets' \in Nat

\* Sockets that may replace the present ones when a new one is made: the same,
\* or the same but for the wrapper's, which is closing.
LEMMA ClosedType ==
    ASSUME SocketTypeOK
    PROVE  /\ Closed \in [Slots -> [st : {"none", "connecting", "open", "closing"}, tok : Nat]]
           /\ \A z \in Slots :
                /\ sock[z] = NoSocket => Closed[z] = NoSocket
                /\ sock[z].st \in {"open", "closing"} => Closed[z].st \in {"open", "closing"}
<1>1. CASE socket = None
  BY <1>1 DEF SocketTypeOK, Closed
<1>2. CASE socket # None
  <2>1. socket \in Slots /\ sock[socket].st \in {"connecting", "open"}
    BY <1>2 DEF SocketTypeOK
  <2>2. Closed = [sock EXCEPT ![socket].st = "closing"]
    BY <1>2 DEF Closed
  <2> QED BY <2>1, <2>2 DEF SocketTypeOK, NoSocket
<1> QED BY <1>1, <1>2

\* A new socket is on its way to being live, and takes no open one away.
LEMMA ConnectStep ==
    ASSUME SInv, NEW sk, NEW t \in Nat, Connect(sk, t),
           sk \in {sock, Closed}, timer' \in BOOLEAN,
           UNCHANGED isConnected, OutsideType
    PROVE  SInv'
<1>1. PICK s \in Slots :
        /\ sock[s] = NoSocket
        /\ sock' = [sk EXCEPT ![s] = [st |-> "connecting", tok |-> t]]
        /\ socket' = s /\ token' = t /\ intentional' = FALSE
  BY DEF Connect
<1>2. SocketTypeOK
  BY DEF SInv
<1>3. /\ sk \in [Slots -> [st : {"none", "connecting", "open", "closing"}, tok : Nat]]
      /\ \A z \in Slots :
           sock[z].st \in {"open", "closing"} => sk[z].st \in {"open", "closing"}
  BY <1>2, ClosedType DEF SocketTypeOK
<1>4. SocketTypeOK'
  BY <1>1, <1>2, <1>3 DEF SocketTypeOK, OutsideType
<1>5. LiveMeansOpen'
  BY <1>1, <1>3 DEF SInv, LiveMeansOpen, NoSocket
<1>6. NeverStranded'
  <2>1. sock'[s].st = "connecting"
    BY <1>1, <1>3
  <2> QED BY <2>1 DEF NeverStranded
<1> QED BY <1>4, <1>5, <1>6 DEF SInv

LEMMA UnchangedStep ==
    ASSUME SInv, OutsideType, UNCHANGED <<wrapper, isConnected>>
    PROVE  SInv'
<1>1. SocketTypeOK'
  BY DEF SInv, SocketTypeOK, OutsideType, wrapper
<1>2. LiveMeansOpen'
  BY DEF SInv, LiveMeansOpen, wrapper
<1>3. NeverStranded'
  BY DEF SInv, NeverStranded, wrapper
<1> QED BY <1>1, <1>2, <1>3 DEF SInv

LEMMA ConnectSocketStep ==
    ASSUME SInv, NEW t \in Nat, ConnectSocket(t), UNCHANGED isConnected, OutsideType
    PROVE  SInv'
<1>1. CASE Connect(Closed, t) /\ timer' = FALSE
  BY <1>1, ConnectStep
<1>2. CASE Connect(sock, t) /\ UNCHANGED timer
  BY <1>2, ConnectStep DEF SInv, SocketTypeOK
<1>3. CASE UNCHANGED wrapper
  BY <1>3, UnchangedStep
<1> QED BY <1>1, <1>2, <1>3 DEF ConnectSocket

LEMMA CloseEventStep ==
    ASSUME SInv, NEW s \in Slots, CloseEvent(s), upsets' \in Nat
    PROVE  SInv'
  BY DEF SInv, SocketTypeOK, LiveMeansOpen, NeverStranded, CloseEvent, NoSocket, None,
         firebase, waiting

LEMMA DisconnectStep ==
    ASSUME SInv, DisconnectSocket, OutsideType
    PROVE  SInv'
<1>1. SocketTypeOK'
  BY ClosedType DEF SInv, SocketTypeOK, DisconnectSocket, OutsideType
<1>2. LiveMeansOpen' /\ NeverStranded'
  BY DEF SInv, LiveMeansOpen, NeverStranded, DisconnectSocket
<1> QED BY <1>1, <1>2 DEF SInv

LEMMA InitSInv == Init => SInv
<1> SUFFICES ASSUME Init PROVE SInv
  OBVIOUS
<1>1. SocketTypeOK
  <2>1. sock \in [Slots -> [st : {"none", "connecting", "open", "closing"}, tok : Nat]]
    BY SMT DEF Init, NoSocket, None
  <2>2. 0 \in Nat
    OBVIOUS
  <2> QED BY <2>1, <2>2, Zenon DEF Init, SocketTypeOK, None
<1>2. LiveMeansOpen
  BY DEF Init, LiveMeansOpen
<1>3. NeverStranded
  BY DEF Init, NeverStranded
<1> QED BY <1>1, <1>2, <1>3 DEF SInv

LEMMA StepSInv == SInv /\ [Next]_vars => SInv'
<1> SUFFICES ASSUME SInv, [Next]_vars PROVE SInv'
  OBVIOUS
<1> USE DEF firebase, waiting
<1>1. ASSUME NEW s \in Slots, OnOpen(s) PROVE SInv'
  BY <1>1 DEF SInv, SocketTypeOK, LiveMeansOpen, NeverStranded, OnOpen
<1>2. ASSUME NEW s \in Slots, OnClose(s) \/ Refused(s) \/ Fail(s) PROVE SInv'
  BY <1>2, CloseEventStep DEF SInv, SocketTypeOK, OnClose, Refused, Fail
<1>3. CASE Reconnect
  BY <1>3, ConnectStep DEF SInv, SocketTypeOK, OutsideType, Reconnect
<1>4. CASE UserChanged
  <2>1. OutsideType
    BY <1>4 DEF SInv, SocketTypeOK, OutsideType, UserChanged
  <2>2. CASE auth
    BY <1>4, <2>1, <2>2, UnchangedStep DEF UserChanged
  <2>3. CASE ~auth
    BY <1>4, <2>1, <2>3, DisconnectStep DEF UserChanged
  <2> QED BY <2>2, <2>3
<1>5. CASE SetUp
  <2>1. OutsideType /\ idToken \in Nat /\ UNCHANGED isConnected
    BY <1>5 DEF SInv, SocketTypeOK, OutsideType, SetUp
  <2>2. CASE ConnectSocket(idToken)
    BY <2>1, <2>2, ConnectSocketStep
  <2>3. CASE UNCHANGED wrapper
    BY <2>1, <2>3, UnchangedStep
  <2> QED BY <1>5, <2>2, <2>3 DEF SetUp
<1>6. CASE ReconnectVisible
  <2>1. OutsideType /\ UNCHANGED isConnected
    <3>1. idToken' \in Nat
      BY <1>6 DEF SInv, SocketTypeOK, ReconnectVisible, Issue
    <3>2. changed' \in BOOLEAN
      BY <1>6 DEF SInv, SocketTypeOK, ReconnectVisible, Issue
    <3> QED BY <1>6, <3>1, <3>2, Zenon DEF SInv, SocketTypeOK, OutsideType, ReconnectVisible
  <2>2. CASE ConnectSocket(idToken')
    BY <2>1, <2>2, ConnectSocketStep DEF OutsideType
  <2>3. CASE UNCHANGED wrapper
    BY <2>1, <2>3, UnchangedStep
  <2> QED BY <1>6, <2>2, <2>3 DEF ReconnectVisible
<1>7. CASE TokenChanged
  <2>1. OutsideType /\ idToken \in Nat /\ UNCHANGED isConnected
    BY <1>7 DEF SInv, SocketTypeOK, OutsideType, TokenChanged
  <2>2. CASE ConnectSocket(idToken)
    BY <2>1, <2>2, ConnectSocketStep
  <2>3. CASE UNCHANGED wrapper
    BY <2>1, <2>3, UnchangedStep
  <2> QED BY <1>7, <2>2, <2>3 DEF TokenChanged
<1>8. CASE SignIn \/ SignOut \/ Refresh \/ Expire \/ BecomeVisible \/ UNCHANGED vars
  <2>1. OutsideType
    <3>1. idToken' \in Nat
      BY <1>8 DEF SInv, SocketTypeOK, SignIn, SignOut, Refresh, Expire, BecomeVisible,
            Issue, vars
    <3> QED
      BY <1>8, <3>1, Zenon DEF SInv, SocketTypeOK, OutsideType, SignIn, SignOut, Refresh,
            Expire, BecomeVisible, Issue, vars
  <2>2. UNCHANGED <<wrapper, isConnected>>
    BY <1>8 DEF SignIn, SignOut, Refresh, Expire, BecomeVisible, vars
  <2> QED BY <2>1, <2>2, UnchangedStep
<1> QED
  BY <1>1, <1>2, <1>3, <1>4, <1>5, <1>6, <1>7, <1>8 DEF Next, Event, Task

LEMMA SocketInvariant == Spec => []SInv
  BY InitSInv, StepSInv, PTL DEF Spec

\* The wrapper's state is well typed, and its reference is never to a socket that
\* is gone.
THEOREM SocketTypes == Spec => []SocketTypeOK
<1>1. SInv => SocketTypeOK
  BY DEF SInv
<1> QED BY <1>1, SocketInvariant, PTL

\* "Live" is shown only while some socket's close event is still to come.
THEOREM LiveIsOpen == Spec => []LiveMeansOpen
<1>1. SInv => LiveMeansOpen
  BY DEF SInv
<1> QED BY <1>1, SocketInvariant, PTL

\* Whatever the order of events, the wrapper keeps something that reconnects it.
THEOREM NotStranded == Spec => []NeverStranded
<1>1. SInv => NeverStranded
  BY DEF SInv
<1> QED BY <1>1, SocketInvariant, PTL

------------------------------------------------------------------------------
(* Signed out, the wrapper stays quiet. *)

\* The effect that waits for a token has a user; who has, or had, one has been
\* issued a token; and a wrapper that was never given a token has made nothing.
QInv ==
    /\ setup => user
    /\ user \/ auth \/ changed => idToken # None
    /\ token = None => ~timer /\ \A s \in Slots : sock[s] = NoSocket

\* With a token at hand, connecting keeps the wrapper one that has a token.
LEMMA ConnectGivesToken ==
    ASSUME SInv, QInv, NEW t \in Nat, t # None, ConnectSocket(t)
    PROVE  token' = None => ~timer' /\ \A s \in Slots : sock'[s] = NoSocket
<1>1. CASE \E sk \in {sock, Closed} : Connect(sk, t)
  BY <1>1 DEF Connect
<1>2. CASE UNCHANGED wrapper
  BY <1>2 DEF QInv, wrapper
<1> QED BY <1>1, <1>2 DEF ConnectSocket

LEMMA InitQInv == Init => QInv
  BY DEF Init, QInv

LEMMA StepQInv == SInv /\ QInv /\ [Next]_vars => QInv'
<1> SUFFICES ASSUME SInv, QInv, [Next]_vars PROVE QInv'
  OBVIOUS
<1> USE DEF firebase, waiting, None
<1>1. ASSUME NEW s \in Slots, Event(s) \/ Fail(s) PROVE QInv'
  <2>1. sock[s] # NoSocket
    BY <1>1 DEF Event, OnOpen, OnClose, Refused, Fail, NoSocket
  <2>2. token # None /\ token' = token
    BY <1>1, <2>1 DEF QInv, Event, OnOpen, OnClose, Refused, Fail, CloseEvent
  <2>3. UNCHANGED <<setup, user, auth, changed, idToken>>
    BY <1>1 DEF Event, OnOpen, OnClose, Refused, Fail, CloseEvent
  <2> QED BY <2>2, <2>3 DEF QInv
<1>2. CASE Reconnect
  <2>1. token # None /\ token' = token
    BY <1>2 DEF QInv, Reconnect, Connect
  <2> QED BY <1>2, <2>1 DEF QInv, Reconnect
<1>3. CASE UserChanged
  <2>1. CASE auth
    BY <1>3, <2>1 DEF QInv, UserChanged, wrapper
  <2>2. CASE ~auth
    <3>1. token' = token /\ ~timer' /\ sock' = Closed
      BY <1>3, <2>2 DEF UserChanged, DisconnectSocket
    <3>2. token = None => Closed = sock
      BY DEF QInv, SInv, SocketTypeOK, Closed, NoSocket
    <3> QED BY <1>3, <2>2, <3>1, <3>2 DEF QInv, UserChanged
  <2> QED BY <2>1, <2>2
<1>4. CASE SetUp
  <2>1. idToken \in Nat /\ idToken # None
    BY <1>4 DEF QInv, SInv, SocketTypeOK, SetUp
  <2>2. token' = None => ~timer' /\ \A s \in Slots : sock'[s] = NoSocket
    BY <1>4, <2>1, ConnectGivesToken DEF QInv, SetUp, wrapper
  <2> QED BY <1>4, <2>2 DEF QInv, SetUp
<1>5. CASE ReconnectVisible
  <2>1. CASE Issue /\ ConnectSocket(idToken')
    <3>1. idToken' \in Nat /\ idToken' # None
      BY <2>1 DEF SInv, SocketTypeOK, Issue
    <3>2. token' = None => ~timer' /\ \A s \in Slots : sock'[s] = NoSocket
      BY <2>1, <3>1, ConnectGivesToken
    <3> QED BY <1>5, <3>1, <3>2 DEF QInv, ReconnectVisible
  <2>2. CASE UNCHANGED <<idToken, changed, wrapper>>
    BY <1>5, <2>2 DEF QInv, ReconnectVisible, wrapper
  <2> QED BY <1>5, <2>1, <2>2 DEF ReconnectVisible
<1>6. CASE TokenChanged
  <2>1. idToken \in Nat /\ idToken # None
    BY <1>6 DEF QInv, SInv, SocketTypeOK, TokenChanged
  <2>2. token' = None => ~timer' /\ \A s \in Slots : sock'[s] = NoSocket
    BY <1>6, <2>1, ConnectGivesToken DEF QInv, TokenChanged, wrapper
  <2> QED BY <1>6, <2>2 DEF QInv, TokenChanged
<1>7. CASE SignIn \/ Refresh
  BY <1>7 DEF QInv, SInv, SocketTypeOK, SignIn, Refresh, Issue, wrapper
<1>8. CASE SignOut \/ Expire \/ BecomeVisible \/ UNCHANGED vars
  BY <1>8 DEF QInv, SignOut, Expire, BecomeVisible, wrapper, vars
<1> QED
  BY <1>1, <1>2, <1>3, <1>4, <1>5, <1>6, <1>7, <1>8 DEF Next, Task

LEMMA StepQuiet ==
    SInv /\ QInv /\ [Next]_vars =>
        [~user' /\ (user \/ Quiet) /\ ~visible => Quiet']_vars
<1> SUFFICES ASSUME SInv, QInv, [Next]_vars,
                    ~user', user \/ Quiet, ~visible, ~UNCHANGED vars
             PROVE  Quiet'
  OBVIOUS
<1> USE DEF firebase, waiting, None
<1>1. CASE UserChanged
  BY <1>1 DEF UserChanged, DisconnectSocket, Quiet
<1>2. CASE user' = user
  <2>1. ~user /\ Quiet
    BY <1>2
  <2>2. ASSUME NEW s \in Slots, Event(s) \/ Fail(s) PROVE Quiet'
    BY <2>1, <2>2 DEF Quiet, Event, OnOpen, OnClose, Refused, Fail, CloseEvent
  <2>3. ~Reconnect
    BY <2>1 DEF QInv, Quiet, Reconnect
  <2>4. ~SetUp /\ ~ReconnectVisible
    BY <2>1 DEF QInv, SetUp, ReconnectVisible
  <2>5. CASE TokenChanged
    <3>1. ~Connected
      BY <2>1 DEF QInv, SInv, SocketTypeOK, Quiet, Connected, NoSocket
    <3> QED BY <2>1, <2>5, <3>1 DEF TokenChanged, Quiet, wrapper
  <2>6. CASE SignIn \/ SignOut \/ Refresh \/ Expire \/ BecomeVisible
    BY <2>1, <2>6 DEF Quiet, SignIn, SignOut, Refresh, Expire, BecomeVisible, wrapper
  <2> QED
    BY <1>1, <2>2, <2>3, <2>4, <2>5, <2>6 DEF Next, Task
<1>3. CASE user' # user
  BY <1>1, <1>3 DEF Next, Event, Task, OnOpen, OnClose, Refused, Fail, CloseEvent, Reconnect,
     SetUp, ReconnectVisible, TokenChanged, SignIn, SignOut, Refresh, Expire, BecomeVisible
<1> QED BY <1>2, <1>3

\* After a sign-out nothing but the visibility handler wakes the wrapper: no late
\* close event, timeout, token or effect.
THEOREM SignedOutQuiet == Spec => SignedOutStaysQuiet
<1>1. Init => QInv
  BY InitQInv
<1> QED
  BY <1>1, SocketInvariant, StepQInv, StepQuiet, PTL DEF Spec, SignedOutStaysQuiet
==============================================================================
