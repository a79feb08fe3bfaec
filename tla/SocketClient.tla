---------------------------- MODULE SocketClient -----------------------------
(***************************************************************************)
(* The browser's end of the live feed: the WebSocket wrapper with its       *)
(* reconnect timeout, and the effects of SocketManager, which connect it    *)
(* with a Firebase token when a user signs in, when the tab becomes visible *)
(* and when the token changes, and disconnect it when the user signs out.   *)
(*                                                                         *)
(* JavaScript runs one task at a time; an effect that awaits a token goes   *)
(* on in a later task, and so does the close event of a socket.             *)
(***************************************************************************)
EXTENDS Naturals

CONSTANTS
    Slots,       \* bound: numbers of sockets that exist at the same time
    MaxToken,    \* bound: tokens that Firebase issues
    MaxUpsets    \* bound: connections that fail though their token is valid

VARIABLES
    auth,         \* auth.currentUser is a user
    user,         \* so is the user of AuthContext, and the effects have run
    idToken,      \* the latest token that Firebase has issued, numbered
    validFrom,    \* older tokens than this one have expired
    setup,        \* setupSocket is waiting for the token (and still mounted)
    visible,      \* handleVisibilityChange is waiting for a new token
    changed,      \* the callback of onIdTokenChanged is waiting for the token
    sock,         \* sock[s]: state and token of the socket s
    socket,       \* this.socket
    token,        \* this.token
    timer,        \* this.reconnectTimeout is set
    intentional,  \* this.intentionalDisconnect
    isConnected,  \* what the store tells the pages
    upsets        \* number of failures so far

firebase == <<auth, idToken, validFrom>>
waiting == <<setup, visible, changed>>
wrapper == <<sock, socket, token, timer, intentional>>
vars == <<firebase, user, waiting, wrapper, isConnected, upsets>>

None == 0
NoSocket == [st |-> "none", tok |-> None]

ASSUME SocketAssumption == Slots \subseteq Nat \ {None}

SocketTypeOK ==
    /\ auth \in BOOLEAN /\ user \in BOOLEAN
    /\ idToken \in Nat /\ validFrom \in Nat
    /\ setup \in BOOLEAN /\ visible \in BOOLEAN /\ changed \in BOOLEAN
    /\ sock \in [Slots -> [st : {"none", "connecting", "open", "closing"}, tok : Nat]]
    /\ socket \in Slots \cup {None}
    /\ socket # None => sock[socket].st \in {"connecting", "open"}
    /\ token \in Nat
    /\ timer \in BOOLEAN /\ intentional \in BOOLEAN
    /\ isConnected \in BOOLEAN
    /\ upsets \in Nat

Init ==
    /\ auth = FALSE /\ user = FALSE
    /\ idToken = None /\ validFrom = None
    /\ setup = FALSE /\ visible = FALSE /\ changed = FALSE
    /\ sock = [s \in Slots |-> NoSocket]
    /\ socket = None
    /\ token = None
    /\ timer = FALSE /\ intentional = FALSE
    /\ isConnected = FALSE
    /\ upsets = 0

------------------------------------------------------------------------------
(* The wrapper. *)

Connected == socket # None /\ sock[socket].st = "open"

\* sock after the close() of the wrapper's socket, if it has one.
Closed ==
    IF socket = None THEN sock ELSE [sock EXCEPT ![socket].st = "closing"]

\* connect(t), when the sockets are those of sk.
Connect(sk, t) ==
    \E s \in Slots :
        /\ sock[s] = NoSocket
        /\ \A z \in Slots : sock[z] = NoSocket => s <= z
        /\ sock' = [sk EXCEPT ![s] = [st |-> "connecting", tok |-> t]]
        /\ socket' = s
        /\ token' = t
        /\ intentional' = FALSE

\* connectSocket(t): a new token replaces the socket.  The close event of the
\* old one is still to come.
ConnectSocket(t) ==
    \/ /\ token # t
       /\ Connect(Closed, t)
       /\ timer' = FALSE
    \/ /\ token = t /\ ~Connected
       /\ Connect(sock, t)
       /\ UNCHANGED timer
    \/ /\ token = t /\ Connected
       /\ UNCHANGED wrapper

\* disconnectSocket(), which finds no instance before the first connection.
DisconnectSocket ==
    /\ isConnected' = FALSE
    /\ sock' = Closed
    /\ socket' = None
    /\ timer' = FALSE
    /\ intentional' = (token # None \/ intentional)
    /\ UNCHANGED token

OnOpen(s) ==
    /\ sock[s].st = "connecting" /\ sock[s].tok >= validFrom
    /\ sock' = [sock EXCEPT ![s].st = "open"]
    /\ isConnected' = TRUE
    /\ UNCHANGED <<firebase, user, waiting, socket, token, timer, intentional, upsets>>

CloseEventOfOwn(s) ==   \* a bug: the event of a replaced socket is ignored
    /\ sock' = [sock EXCEPT ![s] = NoSocket]
    /\ IF socket = s
         THEN /\ socket' = None /\ isConnected' = FALSE
              /\ timer' = (timer \/ ~intentional)
         ELSE UNCHANGED <<socket, timer, isConnected>>
    /\ UNCHANGED <<firebase, user, waiting, token, intentional>>

CloseEventRetriesOwn(s) ==   \* a bug: a replaced socket schedules no reconnect
    /\ sock' = [sock EXCEPT ![s] = NoSocket]
    /\ socket' = None
    /\ timer' = (timer \/ (~intentional /\ socket = s))
    /\ isConnected' = FALSE
    /\ UNCHANGED <<firebase, user, waiting, token, intentional>>

\* The close event of any socket, also one that has been replaced: it takes the
\* reference to the wrapper's present socket.
CloseEvent(s) ==
    /\ sock' = [sock EXCEPT ![s] = NoSocket]
    /\ socket' = None
    /\ timer' = (timer \/ ~intentional)
    /\ isConnected' = FALSE
    /\ UNCHANGED <<firebase, user, waiting, token, intentional>>

\* A socket that the wrapper has closed.
OnClose(s) ==
    /\ sock[s].st = "closing"
    /\ CloseEvent(s)
    /\ UNCHANGED upsets

\* The server refuses a token that has expired.
Refused(s) ==
    /\ sock[s].st = "connecting" /\ sock[s].tok < validFrom
    /\ CloseEvent(s)
    /\ UNCHANGED upsets

\* The server or the network fails.
Fail(s) ==
    /\ sock[s].st \in {"connecting", "open"} /\ upsets < MaxUpsets
    /\ CloseEvent(s)
    /\ upsets' = upsets + 1

ReconnectLatest ==   \* a bug: the timeout does nothing if the token is not the latest
    /\ timer
    /\ timer' = FALSE
    /\ IF token = idToken THEN Connect(sock, token) ELSE UNCHANGED <<sock, socket, token, intentional>>
    /\ UNCHANGED <<firebase, user, waiting, isConnected, upsets>>

\* The reconnect timeout: with the token that the wrapper has.
Reconnect ==
    /\ timer
    /\ timer' = FALSE
    /\ Connect(sock, token)
    /\ UNCHANGED <<firebase, user, waiting, isConnected, upsets>>

------------------------------------------------------------------------------
(* Firebase, and the effects of SocketManager. *)

\* A token is issued; the callback of onIdTokenChanged is called.
Issue ==
    /\ idToken < MaxToken
    /\ idToken' = idToken + 1
    /\ changed' = TRUE

SignIn ==
    /\ ~auth /\ auth' = TRUE
    /\ Issue
    /\ UNCHANGED <<validFrom, user, setup, visible, wrapper, isConnected, upsets>>

SignOut ==
    /\ auth /\ auth' = FALSE
    /\ UNCHANGED <<idToken, validFrom, user, waiting, wrapper, isConnected, upsets>>

\* Firebase refreshes its token before it expires.
Refresh ==
    /\ auth
    /\ Issue
    /\ UNCHANGED <<auth, validFrom, user, setup, visible, wrapper, isConnected, upsets>>

Expire ==
    /\ validFrom < idToken
    /\ validFrom' = idToken
    /\ UNCHANGED <<auth, idToken, user, waiting, wrapper, isConnected, upsets>>

UserChangedMounted ==   \* a bug: the effect that waits does not learn that it is cleaned up
    /\ user # auth /\ user' = auth
    /\ setup' = (auth \/ setup)
    /\ IF auth THEN UNCHANGED <<wrapper, isConnected>> ELSE DisconnectSocket
    /\ UNCHANGED <<firebase, visible, changed, upsets>>

\* AuthContext's user has changed: the effect of [user, loading] is cleaned up
\* and runs again.
UserChanged ==
    /\ user # auth /\ user' = auth
    /\ setup' = auth
    /\ IF auth THEN UNCHANGED <<wrapper, isConnected>> ELSE DisconnectSocket
    /\ UNCHANGED <<firebase, visible, changed, upsets>>

\* setupSocket gets its token, or an error, after which it does not try again.
SetUp ==
    /\ setup /\ setup' = FALSE
    /\ ConnectSocket(idToken) \/ UNCHANGED wrapper
    /\ UNCHANGED <<firebase, user, visible, changed, isConnected, upsets>>

\* The tab becomes visible and finds its socket not connected.
BecomeVisible ==
    /\ user /\ auth /\ ~Connected /\ ~visible
    /\ visible' = TRUE
    /\ UNCHANGED <<firebase, user, setup, changed, wrapper, isConnected, upsets>>

\* getIdToken(true) has issued a new token, or has failed.  Nothing is looked
\* at again: the user may have signed out.
ReconnectVisible ==
    /\ visible /\ visible' = FALSE
    /\ \/ Issue /\ ConnectSocket(idToken')
       \/ UNCHANGED <<idToken, changed, wrapper>>
    /\ UNCHANGED <<auth, validFrom, user, setup, isConnected, upsets>>

\* Only a connected socket is given the new token.
TokenChanged ==
    /\ changed /\ changed' = FALSE
    /\ \/ Connected /\ token # idToken /\ ConnectSocket(idToken)
       \/ UNCHANGED wrapper
    /\ UNCHANGED <<firebase, user, setup, visible, isConnected, upsets>>

------------------------------------------------------------------------------
Event(s) == OnOpen(s) \/ OnClose(s) \/ Refused(s)
Task == UserChanged \/ SetUp \/ ReconnectVisible \/ TokenChanged

Next ==
    \/ \E s \in Slots : Event(s) \/ Fail(s)
    \/ Reconnect
    \/ Task
    \/ SignIn \/ SignOut \/ Refresh \/ Expire \/ BecomeVisible

\* Events and timeouts come, tokens are delivered or refused, and the server is
\* reached again.  Nobody has to sign in or to look at the tab.
Fairness ==
    /\ \A s \in Slots : WF_vars(Event(s))
    /\ WF_vars(Reconnect)
    /\ WF_vars(Task)

Spec == Init /\ [][Next]_vars /\ Fairness

------------------------------------------------------------------------------
(* Properties. *)

\* "Live" on a page is not a lie for longer than a close event takes: there is a
\* socket that has been opened and whose close event has not run.
LiveMeansOpen ==
    isConnected => \E s \in Slots : sock[s].st \in {"open", "closing"}

\* A wrapper that has been told to connect, and not to disconnect, is live or
\* has something on its way that will make it so: no order of late close events,
\* timeouts and replaced sockets leaves it with nothing.
NeverStranded ==
    token # None /\ ~intentional /\ ~isConnected =>
        timer \/ \E s \in Slots : sock[s].st \in {"connecting", "closing"}

\* It becomes live, as long as its token does not expire.
ComesBack ==
    token # None /\ ~intentional /\ token >= validFrom ~>
        isConnected \/ intentional \/ token < validFrom

\* The wrapper has no socket to come alive and no timeout to make one.
Quiet == token = None \/ (intentional /\ socket = None /\ ~timer)

\* A sign-out quiets the wrapper, and as long as nobody is signed in no late
\* event, timeout or token wakes it: not the effect that was waiting for a token
\* (its mounted flag is down), not the close event of the socket that was given
\* up, not a token that Firebase issued before.  One thing can, and is excepted:
\* the visibility handler, which does not look at the user again after its wait.
SignedOutStaysQuiet ==
    [][~user' /\ (user \/ Quiet) /\ ~visible => Quiet']_vars

==============================================================================
