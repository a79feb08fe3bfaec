------------------------------ MODULE AppProofs ------------------------------
(***************************************************************************)
(* The pages of the frontend. The session, for any number of accounts,      *)
(* roles and callbacks that wait; the lights, the users and the settings,   *)
(* for any tables, users, roles, rates, times and numbers of requests; the  *)
(* requests for the hardware's status, made in any milliseconds; the        *)
(* display, for any sessions of a table and any lengths of its stages; and  *)
(* the tab as a whole: what each page promises it promises in the tab.      *)
(***************************************************************************)
EXTENDS App, TLAPS

(***************************************************************************)
(* The user that the pages see.                                            *)
(***************************************************************************)

\* Unless one has been overtaken, the callbacks that wait when nothing is left
\* to be told are those of the present account.
OnlyTheLastWaits ==
    ~notice /\ ~overtaken => \A a \in Accounts : waits[a] > 0 => a = auth

SessionInv == SessionTypeOK /\ OnlyTheLastWaits /\ UserIsSignedIn

\* The part of the state that the two properties are about.
WhoType ==
    /\ auth \in Accounts \cup {Nobody} /\ notice \in BOOLEAN
    /\ waits \in [Accounts -> Nat]
    /\ user \in [uid : Accounts, role : ClaimRoles] \cup {NoUser}
    /\ overtaken \in BOOLEAN

WhereType ==
    /\ loading \in BOOLEAN
    /\ route \in Routes /\ email \in BOOLEAN
    /\ leaving \in {Stay, "/login", "/pending-approval"}
    /\ refused \in BOOLEAN /\ popup \in BOOLEAN /\ asked \in BOOLEAN

WhoInv == WhoType /\ OnlyTheLastWaits /\ UserIsSignedIn

LEMMA InvSplits == SessionInv <=> WhoInv /\ WhereType
  BY Zenon DEF SessionInv, SessionTypeOK, WhoInv, WhoType, WhereType

LEMMA ChangeWho ==
    ASSUME WhoInv, NEW a \in Accounts \cup {Nobody}, Change(a),
           UNCHANGED <<waits, user, overtaken>>
    PROVE  WhoInv'
<1>1. WhoType'
  BY Zenon DEF WhoInv, WhoType, Change
<1>2. OnlyTheLastWaits'
  BY DEF WhoInv, OnlyTheLastWaits, Change
<1>3. UserIsSignedIn'
  BY DEF WhoInv, UserIsSignedIn, Change
<1> QED BY <1>1, <1>2, <1>3 DEF WhoInv

LEMMA SameWho ==
    ASSUME WhoInv, UNCHANGED <<auth, notice, waits, user, overtaken>>
    PROVE  WhoInv'
  BY DEF WhoInv, WhoType, OnlyTheLastWaits, UserIsSignedIn

\* The callback makes the user that of no account, or is on its way to make it
\* that of the present one.
LEMMA DeliverWho == ASSUME WhoInv, Deliver PROVE WhoInv'
<1>1. WhoType'
  <2>1. waits' \in [Accounts -> Nat]
    BY SessionAssumption DEF WhoInv, WhoType, Deliver
  <2>2. user' \in {user, NoUser} /\ auth' = auth /\ notice' \in BOOLEAN
    BY DEF Deliver
  <2>3. overtaken' \in BOOLEAN
    BY Zenon DEF WhoInv, WhoType, Deliver
  <2> QED BY <2>1, <2>2, <2>3 DEF WhoInv, WhoType
<1>2. OnlyTheLastWaits'
  <2> SUFFICES ASSUME ~overtaken', NEW a \in Accounts, waits'[a] > 0
               PROVE  a = auth'
    BY DEF OnlyTheLastWaits
  <2>1. ~(waits[a] > 0)
    BY DEF Deliver
  <2> QED BY <2>1 DEF WhoInv, WhoType, Deliver
<1>3. UserIsSignedIn'
  <2>1. CASE auth = Nobody
    BY <2>1 DEF Deliver, UserIsSignedIn
  <2>2. CASE auth # Nobody
    <3>1. waits'[auth] > 0 /\ auth' = auth
      BY <2>2 DEF WhoInv, WhoType, Deliver
    <3> QED BY <2>2, <3>1 DEF UserIsSignedIn
  <2> QED BY <2>1, <2>2
<1> QED BY <1>1, <1>2, <1>3 DEF WhoInv

\* The claims that come are the present account's, or something is to come.
LEMMA ClaimsWho ==
    ASSUME WhoInv, NEW a \in Accounts, Claims(a)
    PROVE  WhoInv'
<1>1. /\ waits' = [waits EXCEPT ![a] = @ - 1] /\ waits[a] > 0
      /\ UNCHANGED <<auth, notice, overtaken>>
  BY DEF Claims, firebase
<1>2. WhoType'
  <2>1. waits' \in [Accounts -> Nat]
    BY <1>1 DEF WhoInv, WhoType
  <2>2. user' \in [uid : Accounts, role : ClaimRoles] \cup {NoUser}
    BY SessionAssumption DEF Claims
  <2> QED BY <1>1, <2>1, <2>2 DEF WhoInv, WhoType
<1>3. OnlyTheLastWaits'
  <2>1. \A b \in Accounts : waits'[b] > 0 => waits[b] > 0
    BY <1>1 DEF WhoInv, WhoType
  <2> QED BY <1>1, <2>1 DEF WhoInv, OnlyTheLastWaits
<1>4. UserIsSignedIn'
  <2>1. user' = NoUser \/ user'.uid = a
    BY DEF Claims
  <2>2. notice \/ overtaken \/ a = auth
    BY <1>1 DEF WhoInv, OnlyTheLastWaits
  <2> QED BY <1>1, <2>1, <2>2 DEF UserIsSignedIn
<1> QED BY <1>2, <1>3, <1>4 DEF WhoInv

LEMMA OpenWho == ASSUME WhoInv, Open PROVE WhoInv'
<1>1. WhoType'
  BY DEF WhoInv, WhoType, Open
<1>2. OnlyTheLastWaits' /\ UserIsSignedIn'
  BY DEF Open, OnlyTheLastWaits, UserIsSignedIn
<1> QED BY <1>1, <1>2 DEF WhoInv

LEMMA NextWho == WhoInv /\ [SessionNext]_sessionVars => WhoInv'
<1> SUFFICES ASSUME WhoInv, [SessionNext]_sessionVars PROVE WhoInv'
  OBVIOUS
<1> USE DEF context, firebase
<1>1. CASE Elsewhere
  BY <1>1, ChangeWho DEF Elsewhere
<1>2. CASE PopupAnswers
  BY <1>2, ChangeWho, SameWho DEF PopupAnswers
<1>3. CASE Logout \/ TurnAway
  BY <1>3, ChangeWho, SameWho DEF Logout, TurnAway, SignOutTo, SignOutFails
<1>4. CASE Answered
  BY <1>4, ChangeWho, SameWho DEF Answered
<1>5. CASE \/ ClickGoogle \/ Leave \/ Redirect \/ Follow \/ GoBack \/ Ask
           \/ UNCHANGED sessionVars
  BY <1>5, SameWho DEF ClickGoogle, Leave, Redirect, Follow, GoBack, Ask, sessionVars
<1> QED
  BY <1>1, <1>2, <1>3, <1>4, <1>5, DeliverWho, ClaimsWho, OpenWho DEF SessionNext

------------------------------------------------------------------------------
\* A redirect is to a page, whoever the user is.
LEMMA LandingIsRoute ==
    ASSUME WhoType, route \in Routes, Landing # Stay
    PROVE  Landing \in Routes
<1>1. ASSUME user.role # NoRole PROVE HomeOf(user.role) \in Routes
  <2>1. user.role \in {"admin", "staff", "tv", UnknownRole}
    BY <1>1 DEF WhoType, NoUser, ClaimRoles
  <2> QED BY <2>1 DEF HomeOf, Routes, Protected, Framed, UnknownRole
<1> QED
  BY <1>1 DEF Landing, Routes, Protected, Framed

LEMMA NextWhere == WhoType /\ WhereType /\ [SessionNext]_sessionVars => WhereType'
<1> SUFFICES ASSUME WhoType, WhereType, [SessionNext]_sessionVars PROVE WhereType'
  OBVIOUS
<1> USE DEF WhereType, context, firebase, router
<1>1. CASE Deliver
  BY <1>1, Zenon DEF Deliver
<1>2. ASSUME NEW a \in Accounts, Claims(a) PROVE WhereType'
  BY <1>2, Zenon DEF Claims
<1>3. CASE Elsewhere
  BY <1>3, Zenon DEF Elsewhere
<1>4. CASE ClickGoogle \/ PopupAnswers \/ Ask \/ Answered
  BY <1>4, Zenon DEF ClickGoogle, PopupAnswers, Ask, Answered
<1>5. CASE Logout \/ TurnAway
  BY <1>5, Zenon DEF Logout, TurnAway, SignOutTo, SignOutFails
<1>6. CASE Leave
  <2>1. route' \in Routes
    BY <1>6, Zenon DEF Leave, Routes
  <2> QED BY <1>6, <2>1, Zenon DEF Leave
<1>7. CASE Redirect
  <2>1. route' \in Routes
    BY <1>7, LandingIsRoute DEF Redirect, Redirecting
  <2> QED BY <1>7, <2>1, Zenon DEF Redirect
<1>8. CASE Follow
  <2>1. route' \in Routes
    BY <1>8 DEF Follow, LinksOf, Routes, Protected, Framed
  <2> QED BY <1>8, <2>1, Zenon DEF Follow
<1>9. CASE GoBack
  BY <1>9, Zenon DEF GoBack
<1>10. CASE Open
  BY <1>10, Zenon DEF Open
<1>11. CASE UNCHANGED sessionVars
  BY <1>11, Zenon DEF sessionVars
<1> QED
  BY <1>1, <1>2, <1>3, <1>4, <1>5, <1>6, <1>7, <1>8, <1>9, <1>10, <1>11
     DEF SessionNext

LEMMA SessionInitInv == SessionInit => SessionInv
<1> SUFFICES ASSUME SessionInit PROVE SessionInv
  OBVIOUS
<1>1. WhoType
  BY DEF SessionInit, WhoType
<1>2. WhereType
  BY DEF SessionInit, WhereType, Routes
<1>3. OnlyTheLastWaits /\ UserIsSignedIn
  BY DEF SessionInit, OnlyTheLastWaits, UserIsSignedIn
<1> QED BY <1>1, <1>2, <1>3, InvSplits DEF WhoInv

LEMMA SessionStepInv == SessionInv /\ [SessionNext]_sessionVars => SessionInv'
<1> SUFFICES ASSUME SessionInv, [SessionNext]_sessionVars PROVE SessionInv'
  OBVIOUS
<1>1. WhoInv /\ WhereType
  BY InvSplits
<1>2. WhoInv' /\ WhereType'
  BY <1>1, NextWho, NextWhere DEF WhoInv
<1> QED
  BY <1>2, Zenon DEF SessionInv, SessionTypeOK, WhoInv, WhoType, WhereType

LEMMA SessionInvariant == SessionSpec => []SessionInv
  BY SessionInitInv, SessionStepInv, PTL DEF SessionSpec

\* AuthContext and the router are always in one of their states; in particular
\* every redirect is to a page that exists.
THEOREM SessionTypes == SessionSpec => []SessionTypeOK
<1>1. SessionInv => SessionTypeOK
  BY DEF SessionInv
<1> QED BY <1>1, SessionInvariant, PTL

\* The user that the pages see is the account that is signed in, or that
\* account's callback is on its way, or one has been overtaken.
THEOREM SignedInUser == SessionSpec => []UserIsSignedIn
<1>1. SessionInv => UserIsSignedIn
  BY DEF SessionInv
<1> QED BY <1>1, SessionInvariant, PTL

(***************************************************************************)
(* The pages that send requests and keep what they show themselves.        *)
(***************************************************************************)

(* The lights. *)

\* As long as no button has crossed a request, an answer takes away the marks of
\* just the lights that its request has switched.
AnswersUnmarkTheirs ==
    ~crossed => \A c \in UnderWay : calls[c].on = calls[c].marked

LightsInv ==
    /\ IlluminationTypeOK
    /\ MarkHasCall /\ OneCallPerLight /\ AnswersUnmarkTheirs

\* What a request changes: one more is under way, and its tables are marked.
Started(c, switched, marked) ==
    /\ calls' \in [CallIds -> Call \cup {NoCall}]
    /\ pendingActions' \in [Tables -> Pending \cup {Unmarked}]
    /\ c \notin UnderWay /\ UnderWay' = UnderWay \cup {c}
    /\ calls'[c].on = switched /\ calls'[c].marked = marked
    /\ \A d \in UnderWay : calls'[d] = calls[d]
    /\ \A t \in Tables : t \in marked => pendingActions'[t] # Unmarked
    /\ \A t \in Tables : t \notin marked => pendingActions'[t] = pendingActions[t]

LEMMA StartAdds ==
    ASSUME IlluminationTypeOK,
           NEW c \in CallIds, NEW switched, NEW marked, NEW target,
           switched \subseteq Tables, marked \subseteq Tables, target \in {"ON", "OFF"},
           Start(c, switched, marked, target)
    PROVE  Started(c, switched, marked)
<1> DEFINE call == [on |-> switched, marked |-> marked, target |-> target]
<1>1. call \in Call /\ call # NoCall
  BY DEF Call, NoCall
<1>2. calls[c] = NoCall /\ calls' = [calls EXCEPT ![c] = call]
  BY DEF Start
<1> HIDE DEF call
<1>3. /\ calls' \in [CallIds -> Call \cup {NoCall}]
      /\ calls'[c] = call
      /\ \A d \in CallIds \ {c} : calls'[d] = calls[d]
  BY <1>1, <1>2 DEF IlluminationTypeOK
<1>4. c \notin UnderWay /\ UnderWay' = UnderWay \cup {c}
  BY <1>1, <1>2, <1>3 DEF UnderWay
<1>5. \A d \in UnderWay : calls'[d] = calls[d]
  BY <1>3, <1>4 DEF UnderWay
<1>6. Towards(target) \in Pending /\ Unmarked \notin Pending
  BY DEF Towards, Pending, Unmarked
<1>7. /\ pendingActions' \in [Tables -> Pending \cup {Unmarked}]
      /\ \A t \in Tables : t \in marked => pendingActions'[t] # Unmarked
      /\ \A t \in Tables : t \notin marked => pendingActions'[t] = pendingActions[t]
  BY <1>6 DEF Start, IlluminationTypeOK
<1>8. calls'[c].on = switched /\ calls'[c].marked = marked
  BY <1>3 DEF call
<1> QED BY <1>3, <1>4, <1>5, <1>7, <1>8 DEF Started

LEMMA ToggleLightInv ==
    ASSUME LightsInv, NEW t \in Tables, ToggleLight(t)
    PROVE  LightsInv'
<1> DEFINE target == IF lightStatus[t] = "ON" THEN "OFF" ELSE "ON"
<1>1. PICK c \in CallIds : Start(c, {t}, {t}, target)
  BY DEF ToggleLight
<1>2. UNCHANGED <<tables, lightStatus, crossed>>
  BY <1>1 DEF ToggleLight, Start
<1>3. target \in {"ON", "OFF"} /\ {t} \subseteq Tables
  OBVIOUS
<1> HIDE DEF target
<1>4. /\ calls' \in [CallIds -> Call \cup {NoCall}]
      /\ pendingActions' \in [Tables -> Pending \cup {Unmarked}]
      /\ c \notin UnderWay /\ UnderWay' = UnderWay \cup {c}
      /\ calls'[c].on = {t} /\ calls'[c].marked = {t}
      /\ \A d \in UnderWay : calls'[d] = calls[d]
      /\ pendingActions'[t] # Unmarked
      /\ \A s \in Tables : s # t => pendingActions'[s] = pendingActions[s]
  <2>1. IlluminationTypeOK
    BY DEF LightsInv
  <2>2. Started(c, {t}, {t})
    BY <1>1, <1>3, <2>1, StartAdds
  <2> QED BY <2>2 DEF Started
\* The card is not pending, so that its page has not marked it.
<1>5. pendingActions[t] = Unmarked
  BY DEF LightsInv, IlluminationTypeOK, ToggleLight, ShownLight
<1>6. ~crossed => \A d \in UnderWay : t \notin calls[d].on
  BY <1>5 DEF LightsInv, OneCallPerLight
<1>7. IlluminationTypeOK'
  BY <1>2, <1>4 DEF LightsInv, IlluminationTypeOK
<1>8. MarkHasCall'
  BY <1>4 DEF LightsInv, MarkHasCall
<1>9. OneCallPerLight'
  <2> SUFFICES ASSUME ~crossed PROVE OneCallPerLight'
    BY <1>2 DEF OneCallPerLight
  <2>1. ASSUME NEW s \in Tables
        PROVE  pendingActions'[s] # Unmarked <=> \E d \in UnderWay' : s \in calls'[d].on
    BY <1>4 DEF LightsInv, OneCallPerLight
  <2>2. ASSUME NEW s \in Tables, NEW d \in UnderWay', NEW e \in UnderWay',
               s \in calls'[d].on \cap calls'[e].on
        PROVE  d = e
    BY <1>4, <1>6, <2>2 DEF LightsInv, OneCallPerLight
  <2> QED BY <2>1, <2>2 DEF OneCallPerLight
<1>10. AnswersUnmarkTheirs'
  BY <1>2, <1>4 DEF LightsInv, AnswersUnmarkTheirs
<1> QED BY <1>7, <1>8, <1>9, <1>10 DEF LightsInv

LEMMA ToggleAllLightsInv ==
    ASSUME LightsInv, NEW target \in {"ON", "OFF"}, ToggleAllLights(target)
    PROVE  LightsInv'
<1>1. PICK c \in CallIds : Start(c, Tables, tables, target)
  BY DEF ToggleAllLights
<1>2. UNCHANGED <<tables, lightStatus>> /\ crossed' \in BOOLEAN
  BY <1>1, Zenon DEF LightsInv, IlluminationTypeOK, ToggleAllLights, Start
<1>3. tables \subseteq Tables /\ Tables \subseteq Tables
  BY DEF LightsInv, IlluminationTypeOK
<1>4. /\ calls' \in [CallIds -> Call \cup {NoCall}]
      /\ pendingActions' \in [Tables -> Pending \cup {Unmarked}]
      /\ c \notin UnderWay /\ UnderWay' = UnderWay \cup {c}
      /\ calls'[c].on = Tables /\ calls'[c].marked = tables
      /\ \A d \in UnderWay : calls'[d] = calls[d]
      /\ \A t \in Tables : t \in tables => pendingActions'[t] # Unmarked
      /\ \A t \in Tables : t \notin tables => pendingActions'[t] = pendingActions[t]
  <2>1. IlluminationTypeOK
    BY DEF LightsInv
  <2>2. Started(c, Tables, tables)
    BY <1>1, <1>3, <2>1, StartAdds
  <2> QED BY <2>2 DEF Started
<1>5. ~crossed' => UnderWay = {} /\ tables = Tables
  BY DEF LightsInv, IlluminationTypeOK, ToggleAllLights
<1>6. IlluminationTypeOK'
  BY <1>2, <1>4, Zenon DEF LightsInv, IlluminationTypeOK
<1>7. MarkHasCall'
  BY <1>4 DEF LightsInv, MarkHasCall
<1>8. OneCallPerLight' /\ AnswersUnmarkTheirs'
  BY <1>4, <1>5 DEF OneCallPerLight, AnswersUnmarkTheirs
<1> QED BY <1>6, <1>7, <1>8 DEF LightsInv

LEMMA AnswerInv == ASSUME LightsInv, NEW c \in CallIds, Answer(c) PROVE LightsInv'
<1>1. /\ calls' \in [CallIds -> Call \cup {NoCall}]
      /\ UnderWay' = UnderWay \ {c} /\ c \in UnderWay
      /\ \A d \in UnderWay' : calls'[d] = calls[d]
  BY DEF LightsInv, IlluminationTypeOK, Answer, UnderWay
<1>2. /\ pendingActions' \in [Tables -> Pending \cup {Unmarked}]
      /\ \A t \in calls[c].marked \cap Tables : pendingActions'[t] = Unmarked
      /\ \A t \in Tables : t \notin calls[c].marked => pendingActions'[t] = pendingActions[t]
  BY DEF LightsInv, IlluminationTypeOK, Answer
<1>3. IlluminationTypeOK'
  <2>1. UNCHANGED <<tables, lightStatus>> /\ crossed' \in BOOLEAN
    BY Zenon DEF LightsInv, IlluminationTypeOK, Answer
  <2> QED BY <1>1, <1>2, <2>1, Zenon DEF LightsInv, IlluminationTypeOK
<1>4. MarkHasCall'
  BY <1>1, <1>2 DEF LightsInv, MarkHasCall
<1>5. CASE UnderWay = {c}
  <2>1. UnderWay' = {}
    BY <1>1, <1>5
  <2>2. \A t \in Tables : pendingActions'[t] = Unmarked
    BY <1>4, <2>1 DEF MarkHasCall
  <2>3. OneCallPerLight' /\ AnswersUnmarkTheirs'
    BY <2>1, <2>2 DEF OneCallPerLight, AnswersUnmarkTheirs
  <2> QED BY <1>3, <1>4, <2>3 DEF LightsInv
<1>6. CASE UnderWay # {c}
  <2> SUFFICES ASSUME ~crossed' PROVE OneCallPerLight' /\ AnswersUnmarkTheirs'
    BY <1>3, <1>4 DEF LightsInv, OneCallPerLight, AnswersUnmarkTheirs
  <2>1. ~crossed
    BY <1>6 DEF Answer
  <2>2. calls[c].on = calls[c].marked
    BY <1>1, <2>1 DEF LightsInv, AnswersUnmarkTheirs
  <2>3. AnswersUnmarkTheirs'
    BY <1>1, <2>1 DEF LightsInv, AnswersUnmarkTheirs
  <2>4. ASSUME NEW t \in Tables
        PROVE  pendingActions'[t] # Unmarked <=> \E d \in UnderWay' : t \in calls'[d].on
    BY <1>1, <1>2, <2>1, <2>2 DEF LightsInv, OneCallPerLight
  <2>5. ASSUME NEW t \in Tables, NEW d \in UnderWay', NEW e \in UnderWay',
               t \in calls'[d].on \cap calls'[e].on
        PROVE  d = e
    BY <1>1, <2>1, <2>5 DEF LightsInv, OneCallPerLight
  <2> QED BY <2>3, <2>4, <2>5 DEF OneCallPerLight
<1> QED BY <1>5, <1>6

LEMMA LightsInitInv == IlluminationInit => LightsInv
<1> SUFFICES ASSUME IlluminationInit PROVE LightsInv
  OBVIOUS
<1>1. UnderWay = {} /\ IlluminationTypeOK
  BY DEF IlluminationInit, UnderWay, IlluminationTypeOK
<1> QED
  BY <1>1 DEF IlluminationInit, LightsInv, MarkHasCall, OneCallPerLight, AnswersUnmarkTheirs

LEMMA LightsStepInv == LightsInv /\ [IlluminationNext]_lightVars => LightsInv'
<1> SUFFICES ASSUME LightsInv, [IlluminationNext]_lightVars PROVE LightsInv'
  OBVIOUS
<1>1. CASE Receive
  BY <1>1 DEF Receive, LightsInv, IlluminationTypeOK, MarkHasCall, OneCallPerLight,
              AnswersUnmarkTheirs, UnderWay
<1>2. CASE UNCHANGED lightVars
  BY <1>2 DEF lightVars, LightsInv, IlluminationTypeOK, MarkHasCall, OneCallPerLight,
              AnswersUnmarkTheirs, UnderWay
<1> QED
  BY <1>1, <1>2, ToggleLightInv, ToggleAllLightsInv, AnswerInv DEF IlluminationNext

\* A spinner never outlives its request, and unless the buttons for all tables
\* cross a request a light has at most one request under way, and the spinner
\* just as long.
THEOREM SpinnersAreCalls == IlluminationSpec => [](IlluminationTypeOK /\ SpinnerIsOneCall)
<1>1. LightsInv => IlluminationTypeOK /\ SpinnerIsOneCall
  BY DEF LightsInv, SpinnerIsOneCall
<1> QED BY <1>1, LightsInitInv, LightsStepInv, PTL DEF IlluminationSpec

------------------------------------------------------------------------------
(* The users. *)

Request == [u : Uids, to : Roles \cup {Gone}, seen : Row, applied : BOOLEAN]

\* What the page knows of a user whom nobody else has changed: the lists that
\* its handlers keep have the row that the page shows; two requests are never
\* about such users; what has been applied is there.
RequestsAgree ==
    /\ \A o \in Active : \A w \in Uids \ doubtful : ops[o].seen[w] = users[w]
    /\ \A o, p \in Active : o # p => ops[o].u \in doubtful
    /\ \A o \in Active :
         ops[o].applied /\ ops[o].u \notin doubtful => roles[ops[o].u] = ops[o].to

UserInv ==
    /\ UserTypeOK
    /\ userView # "shown" => Active = {}
    /\ userView = "listed" => \A u \in Uids \ doubtful : users[u] = roles[u]
    /\ RequestsAgree /\ ListIsTrue

LEMMA ActiveIsRequest ==
    ASSUME UserTypeOK
    PROVE  /\ NoOp \notin Request /\ ~NoOp.applied
           /\ \A o \in Active : o \in OpIds /\ ops[o] \in Request
           /\ \A o \in OpIds \ Active : ops[o] = NoOp
  BY UserAssumption, Zenon DEF UserTypeOK, Active, NoOp, Request

LEMMA FetchUsersInv == ASSUME UserInv, ListUsers \/ FetchUsers PROVE UserInv'
<1>1. /\ Active' = Active /\ Active = {}
      /\ UNCHANGED <<roles, updatingUser, ops, doubtful>>
      /\ userView' \in {"listed", "shown", "error"} /\ users' \in {roles, users, NoRows}
  BY DEF UserInv, ListUsers, FetchUsers, Active
<1>2. UserTypeOK'
  <2>1. NoRows \in Row
    BY DEF NoRows, Row
  <2> QED BY <1>1, <2>1, Zenon DEF UserInv, UserTypeOK
<1>3. userView' \in {"listed", "shown"} => \A u \in Uids \ doubtful : users'[u] = roles[u]
  BY DEF UserInv, ListUsers, FetchUsers
<1> QED BY <1>1, <1>2, <1>3 DEF UserInv, RequestsAgree, ListIsTrue

LEMMA OthersChangeInv ==
    ASSUME UserInv, NEW u \in Uids, NEW r \in Roles \cup {Gone}, OthersChange(u, r)
    PROVE  UserInv'
<1>1. /\ Active' = Active /\ UNCHANGED <<users, userView, updatingUser, ops>>
      /\ roles' = [roles EXCEPT ![u] = r]
      /\ doubtful \subseteq doubtful' /\ doubtful' \subseteq Uids
      /\ userView \in {"listed", "shown"} => u \in doubtful'
      /\ userView # "shown" => Active = {}
  BY DEF UserInv, UserTypeOK, OthersChange, Active
<1>2. roles' \in Row /\ \A w \in Uids \ {u} : roles'[w] = roles[w]
  BY <1>1 DEF UserInv, UserTypeOK, Row
<1>3. UserTypeOK'
  BY <1>1, <1>2, Zenon DEF UserInv, UserTypeOK
<1>4. \A o \in Active : ops[o].u \in Uids
  BY ActiveIsRequest DEF UserInv, Request
<1>5. RequestsAgree' /\ ListIsTrue'
  <2>1. CASE userView = "shown"
    BY <1>1, <1>2, <1>4, <2>1 DEF UserInv, RequestsAgree, ListIsTrue
  <2>2. CASE userView # "shown"
    BY <1>1, <2>2 DEF RequestsAgree, ListIsTrue
  <2> QED BY <2>1, <2>2
<1>6. userView' = "listed" => \A w \in Uids \ doubtful' : users'[w] = roles'[w]
  BY <1>1, <1>2 DEF UserInv
<1> QED BY <1>1, <1>3, <1>5, <1>6 DEF UserInv

LEMMA ChangeUserInv ==
    ASSUME UserInv, NEW u \in Uids, NEW r \in Roles \cup {Gone}, ChangeUser(u, r)
    PROVE  UserInv'
<1> DEFINE n == [u |-> u, to |-> r, seen |-> users, applied |-> FALSE]
<1>1. PICK o \in OpIds : ops[o] = NoOp /\ ops' = [ops EXCEPT ![o] = n]
  BY DEF ChangeUser
<1>2. n \in Request /\ n.u = u /\ n.seen = users /\ ~n.applied
  BY DEF UserInv, UserTypeOK, Request
<1> HIDE DEF n
<1>3. /\ ops' \in [OpIds -> Request \cup {NoOp}]
      /\ ops'[o] = n /\ \A p \in OpIds \ {o} : ops'[p] = ops[p]
  BY <1>1, <1>2 DEF UserInv, UserTypeOK, Request
<1>4. NoOp \notin Request
  BY ActiveIsRequest DEF UserInv
<1>5. o \notin Active /\ Active' = Active \cup {o} /\ \A p \in Active : ops'[p] = ops[p]
  BY <1>1, <1>2, <1>3, <1>4 DEF Active
<1>6. /\ userView = "shown" /\ UNCHANGED <<roles, users, userView>>
      /\ updatingUser' = u
      /\ doubtful' = IF Active = {} THEN doubtful ELSE doubtful \cup {u} \cup {ops[p].u : p \in Active}
  BY DEF ChangeUser
<1>7. \A p \in Active : ops[p].u \in Uids
  BY ActiveIsRequest DEF UserInv, Request
<1>8. doubtful \subseteq doubtful' /\ doubtful' \subseteq Uids
  BY <1>6, <1>7 DEF UserInv, UserTypeOK
<1>9. UserTypeOK'
  BY <1>3, <1>6, <1>8, Zenon DEF UserInv, UserTypeOK, Request
<1>10. RequestsAgree'
  <2>1. \A p \in Active' : \A w \in Uids \ doubtful' : ops'[p].seen[w] = users'[w]
    BY <1>2, <1>3, <1>5, <1>6, <1>8 DEF UserInv, RequestsAgree
  <2>2. ASSUME NEW p \in Active', NEW q \in Active', p # q PROVE ops'[p].u \in doubtful'
    <3>1. Active # {}
      BY <1>5, <2>2
    <3> QED BY <1>2, <1>3, <1>5, <1>6, <3>1
  <2>3. \A p \in Active' : ops'[p].applied /\ ops'[p].u \notin doubtful' =>
            roles'[ops'[p].u] = ops'[p].to
    BY <1>2, <1>3, <1>5, <1>6, <1>8 DEF UserInv, RequestsAgree
  <2> QED BY <2>1, <2>2, <2>3 DEF RequestsAgree
<1>11. ListIsTrue'
  BY <1>5, <1>6, <1>8 DEF UserInv, ListIsTrue
<1> QED BY <1>6, <1>9, <1>10, <1>11 DEF UserInv

LEMMA ApplyInv == ASSUME UserInv, NEW o \in OpIds, Apply(o) PROVE UserInv'
<1> DEFINE n == [ops[o] EXCEPT !.applied = TRUE]
<1>1. /\ o \in Active /\ ops[o] \in Request /\ NoOp \notin Request
      /\ \A p \in Active : ops[p] \in Request
  BY ActiveIsRequest DEF UserInv, Apply, Active
<1>2. /\ n \in Request /\ n.applied /\ n.u = ops[o].u /\ n.to = ops[o].to
      /\ n.seen = ops[o].seen /\ ops' = [ops EXCEPT ![o] = n]
  BY <1>1 DEF Apply, Request
<1> HIDE DEF n
<1>3. /\ ops' \in [OpIds -> Request \cup {NoOp}]
      /\ ops'[o] = n /\ \A p \in OpIds \ {o} : ops'[p] = ops[p]
  BY <1>2 DEF UserInv, UserTypeOK, Request
<1>4. Active' = Active
  BY <1>1, <1>2, <1>3 DEF Active
<1>5. /\ UNCHANGED <<users, userView, updatingUser, doubtful>>
      /\ roles' = [roles EXCEPT ![ops[o].u] = ops[o].to]
  BY DEF Apply
<1>6. ops[o].u \in Uids /\ ops[o].to \in Roles \cup {Gone}
  BY <1>1 DEF Request
<1>7. /\ roles' \in Row /\ roles'[ops[o].u] = ops[o].to
      /\ \A w \in Uids \ {ops[o].u} : roles'[w] = roles[w]
  BY <1>5, <1>6 DEF UserInv, UserTypeOK, Row
<1>8. UserTypeOK'
  BY <1>3, <1>5, <1>7, Zenon DEF UserInv, UserTypeOK, Request
<1>9. \A p \in Active : ops'[p].u = ops[p].u /\ ops'[p].to = ops[p].to /\ ops'[p].seen = ops[p].seen
  BY <1>2, <1>3 DEF Active
<1>10. RequestsAgree'
  <2>1. /\ \A p \in Active' : \A w \in Uids \ doubtful' : ops'[p].seen[w] = users'[w]
        /\ \A p, q \in Active' : p # q => ops'[p].u \in doubtful'
    BY <1>4, <1>5, <1>9 DEF UserInv, RequestsAgree
  <2>2. ASSUME NEW p \in Active, ops'[p].applied, ops[p].u \notin doubtful
        PROVE  roles'[ops[p].u] = ops[p].to
    BY <1>1, <1>7, <2>2 DEF UserInv, RequestsAgree
  <2> QED BY <1>4, <1>5, <1>9, <2>1, <2>2 DEF RequestsAgree
<1>11. ListIsTrue'
  <2> SUFFICES ASSUME userView = "shown", NEW w \in Uids \ doubtful
               PROVE  users[w] = roles'[w] \/ \E p \in Active : ops'[p].u = w /\ ops'[p].applied
    BY <1>4, <1>5 DEF ListIsTrue
  <2>1. CASE w = ops[o].u
    BY <1>1, <1>2, <1>3, <1>9, <2>1
  <2>2. CASE w # ops[o].u
    BY <1>2, <1>3, <1>7, <1>9, <2>2 DEF UserInv, ListIsTrue, Active
  <2> QED BY <2>1, <2>2
<1>12. userView = "shown"
  BY <1>1 DEF UserInv
<1> QED BY <1>4, <1>5, <1>8, <1>10, <1>11, <1>12 DEF UserInv

\* An answer, of any kind: one request less.
LEMMA OneLess ==
    ASSUME UserInv, NEW o \in Active, ops' = [ops EXCEPT ![o] = NoOp]
    PROVE  /\ ops' \in [OpIds -> Request \cup {NoOp}]
           /\ Active' = Active \ {o}
           /\ \A p \in Active' : ops'[p] = ops[p]
  BY ActiveIsRequest DEF UserInv, UserTypeOK, Request, Active

LEMMA SucceedInv == ASSUME UserInv, NEW o \in OpIds, Succeed(o) PROVE UserInv'
<1>1. o \in Active /\ ops[o] \in Request
  BY ActiveIsRequest DEF UserInv, Succeed, Active
<1>2. /\ ops' \in [OpIds -> Request \cup {NoOp}]
      /\ Active' = Active \ {o}
      /\ \A p \in Active' : ops'[p] = ops[p]
  BY <1>1, OneLess DEF Succeed
<1>3. /\ UNCHANGED <<roles, userView, doubtful>> /\ updatingUser' = NoUid /\ ops[o].applied
      /\ users' = [ops[o].seen EXCEPT ![ops[o].u] = ops[o].to]
  BY DEF Succeed
<1>4. ops[o].seen \in Row /\ ops[o].u \in Uids /\ ops[o].to \in Roles \cup {Gone}
  BY <1>1 DEF Request
<1>5. /\ users' \in Row /\ users'[ops[o].u] = ops[o].to
      /\ \A w \in Uids \ {ops[o].u} : users'[w] = ops[o].seen[w]
  BY <1>3, <1>4 DEF Row
<1>6. UserTypeOK'
  BY <1>2, <1>3, <1>5, Zenon DEF UserInv, UserTypeOK, Request
\* The row that changes is doubtful if another request is under way.
<1>7. \A w \in Uids \ doubtful : w # ops[o].u \/ Active' # {} => users'[w] = users[w]
  BY <1>1, <1>2, <1>5 DEF UserInv, RequestsAgree
<1>8. RequestsAgree'
  BY <1>2, <1>3, <1>7 DEF UserInv, RequestsAgree
<1>9. ListIsTrue'
  <2> SUFFICES ASSUME userView = "shown", NEW w \in Uids \ doubtful
               PROVE  users'[w] = roles[w] \/ \E p \in Active' : ops[p].u = w /\ ops[p].applied
    BY <1>2, <1>3 DEF ListIsTrue
  <2>1. CASE w = ops[o].u
    BY <1>1, <1>3, <1>5, <2>1 DEF UserInv, RequestsAgree
  <2>2. CASE w # ops[o].u
    BY <1>2, <1>7, <2>2 DEF UserInv, ListIsTrue
  <2> QED BY <2>1, <2>2
<1>10. userView' = "shown"
  BY <1>1, <1>3 DEF UserInv
<1> QED BY <1>6, <1>8, <1>9, <1>10 DEF UserInv

LEMMA FailInv == ASSUME UserInv, NEW o \in OpIds, Fail(o) PROVE UserInv'
<1>1. o \in Active /\ ops[o] \in Request
  BY ActiveIsRequest DEF UserInv, Fail, Active
<1>2. /\ ops' \in [OpIds -> Request \cup {NoOp}]
      /\ Active' = Active \ {o}
      /\ \A p \in Active' : ops'[p] = ops[p]
  BY <1>1, OneLess DEF Fail
<1>3. /\ UNCHANGED <<roles, users, userView>> /\ updatingUser' = NoUid
      /\ doubtful' = IF ops[o].applied THEN doubtful \cup {ops[o].u} ELSE doubtful
  BY DEF Fail
<1>4. doubtful \subseteq doubtful' /\ doubtful' \subseteq Uids
  BY <1>1, <1>3 DEF UserInv, UserTypeOK, Request
<1>5. UserTypeOK'
  BY <1>2, <1>3, <1>4, Zenon DEF UserInv, UserTypeOK, Request
<1>6. RequestsAgree'
  BY <1>2, <1>3, <1>4 DEF UserInv, RequestsAgree
<1>7. ListIsTrue'
  <2> SUFFICES ASSUME userView = "shown", NEW w \in Uids \ doubtful'
               PROVE  users[w] = roles[w] \/ \E p \in Active' : ops[p].u = w /\ ops[p].applied
    BY <1>2, <1>3 DEF ListIsTrue
  <2> QED BY <1>1, <1>2, <1>3, <1>4 DEF UserInv, ListIsTrue
<1>8. userView' = "shown"
  BY <1>1, <1>3 DEF UserInv
<1> QED BY <1>5, <1>6, <1>7, <1>8 DEF UserInv

LEMMA UserInitInv == UserInit => UserInv
<1> SUFFICES ASSUME UserInit PROVE UserInv
  OBVIOUS
<1>1. Active = {}
  BY DEF UserInit, Active
<1>2. NoRows \in Row /\ roles \in Row
  BY UserAssumption DEF UserInit, NoRows, Row
<1>3. UserTypeOK
  BY <1>2 DEF UserInit, UserTypeOK
<1> QED BY <1>1, <1>3 DEF UserInit, UserInv, RequestsAgree, ListIsTrue

LEMMA UserStepInv == UserInv /\ [UserNext]_userVars => UserInv'
<1> SUFFICES ASSUME UserInv, [UserNext]_userVars PROVE UserInv'
  OBVIOUS
<1>1. CASE UNCHANGED userVars
  BY <1>1 DEF userVars, UserInv, UserTypeOK, RequestsAgree, ListIsTrue, Active
<1> QED
  BY <1>1, FetchUsersInv, OthersChangeInv, ChangeUserInv, ApplyInv, SucceedInv, FailInv
     DEF UserNext

\* The list of users is what Firebase has, but for the user of a request that has
\* been applied and users who have become doubtful.
THEOREM UserListIsTrue == UserSpec => [](UserTypeOK /\ ListIsTrue)
<1>1. UserInv => UserTypeOK /\ ListIsTrue
  BY DEF UserInv
<1> QED BY <1>1, UserInitInv, UserStepInv, PTL DEF UserSpec

------------------------------------------------------------------------------
(* The settings. *)

\* While a save is under way nothing is said of it, and unless something drifts
\* it is the form on the page that is saved.
SaveIsTheForm ==
    /\ formView = "loading" => ~isSaving /\ saveStatus = "none"
    /\ isSaving => saveStatus = "none"
    /\ isSaving /\ ~drifted =>
         /\ config = saving.form
         /\ saving.st = "applied" => saved = saving.form

SettingsInv == SettingsTypeOK /\ SaveIsTheForm /\ SavedIsTheForm

Save == [st : {"sent", "applied"}, form : Config]

LEMMA SavingIsSave ==
    ASSUME SettingsTypeOK
    PROVE  /\ isSaving => saving \in Save
           /\ NotSaving \notin Save
           /\ saving.st \in {"sent", "applied"} => isSaving
  BY DEF SettingsTypeOK, isSaving, NotSaving, Save

LEMMA HandleChangeInv == ASSUME SettingsInv, HandleChange PROVE SettingsInv'
<1>1. config' \in Form
  BY DEF SettingsInv, SettingsTypeOK, HandleChange, Form
<1>2. /\ UNCHANGED <<saved, formView, saving, timeouts>> /\ formView = "shown"
      /\ saveStatus' = "none" /\ drifted' = (drifted \/ isSaving)
  BY DEF HandleChange
<1>3. SettingsTypeOK'
  BY <1>1, <1>2, Zenon DEF SettingsInv, SettingsTypeOK
<1> QED
  BY <1>2, <1>3 DEF SettingsInv, SaveIsTheForm, SavedIsTheForm, isSaving

LEMMA HandleSaveInv == ASSUME SettingsInv, HandleSave PROVE SettingsInv'
<1>1. /\ saving' \in Save /\ saving'.st = "sent" /\ saving'.form = config
      /\ saveStatus' = "none" /\ drifted' = FALSE /\ formView = "shown"
      /\ UNCHANGED <<saved, config, formView, timeouts>>
  BY DEF HandleSave, Save
<1>2. SettingsTypeOK'
  BY <1>1, Zenon DEF SettingsInv, SettingsTypeOK, Save
<1> QED BY <1>1, <1>2 DEF SettingsInv, SaveIsTheForm, SavedIsTheForm

LEMMA ApplySaveInv == ASSUME SettingsInv, ApplySave PROVE SettingsInv'
<1>1. saving \in Save /\ isSaving
  BY SavingIsSave DEF SettingsInv, ApplySave
<1>2. /\ saving' \in Save /\ saving'.st = "applied" /\ saving'.form = saving.form
      /\ saved' = saving.form /\ saved' \in Config
      /\ UNCHANGED <<config, formView, saveStatus, timeouts, drifted>>
  BY <1>1 DEF ApplySave, Save
<1>3. SettingsTypeOK'
  BY <1>2, Zenon DEF SettingsInv, SettingsTypeOK, Save
<1> QED BY <1>1, <1>2, <1>3 DEF SettingsInv, SaveIsTheForm, SavedIsTheForm

LEMMA SaveSucceedsInv == ASSUME SettingsInv, SaveSucceeds PROVE SettingsInv'
<1>1. isSaving /\ saving.st = "applied"
  BY SavingIsSave DEF SettingsInv, SaveSucceeds
<1>2. /\ saveStatus' = "success" /\ saving' = NotSaving /\ ~isSaving'
      /\ timeouts' = timeouts + 1
      /\ UNCHANGED <<saved, config, formView, drifted>>
  BY DEF SaveSucceeds, isSaving, NotSaving
<1>3. timeouts' \in Nat
  BY <1>2 DEF SettingsInv, SettingsTypeOK
<1>4. SettingsTypeOK'
  BY <1>2, <1>3, Zenon DEF SettingsInv, SettingsTypeOK
<1>5. formView # "loading"
  BY <1>1 DEF SettingsInv, SaveIsTheForm
<1> QED BY <1>1, <1>2, <1>4, <1>5 DEF SettingsInv, SaveIsTheForm, SavedIsTheForm

\* The steps after which no success is shown and no save is under way that was
\* not before.
LEMMA OtherSettingsInv ==
    ASSUME SettingsInv, FetchConfig \/ SaveFails \/ ClearStatus
    PROVE  SettingsInv'
<1>1. CASE FetchConfig
  <2>1. config' \in Form
    BY <1>1 DEF SettingsInv, SettingsTypeOK, FetchConfig, Loaded, Form, Config
  <2>2. SettingsTypeOK'
    BY <1>1, <2>1, Zenon DEF SettingsInv, SettingsTypeOK, FetchConfig
  <2> QED BY <1>1, <2>2 DEF SettingsInv, FetchConfig, SaveIsTheForm, SavedIsTheForm, isSaving
<1>2. CASE SaveFails
  <2>1. SettingsTypeOK'
    BY <1>2, Zenon DEF SettingsInv, SettingsTypeOK, SaveFails
  <2> QED BY <1>2, <2>1 DEF SettingsInv, SaveFails, SaveIsTheForm, SavedIsTheForm, isSaving
<1>3. CASE ClearStatus
  <2>1. timeouts' \in Nat
    BY <1>3 DEF SettingsInv, SettingsTypeOK, ClearStatus
  <2>2. SettingsTypeOK'
    BY <1>3, <2>1, Zenon DEF SettingsInv, SettingsTypeOK, ClearStatus
  <2> QED BY <1>3, <2>2 DEF SettingsInv, ClearStatus, SaveIsTheForm, SavedIsTheForm, isSaving
<1> QED BY <1>1, <1>2, <1>3

LEMMA OthersSaveInv == ASSUME SettingsInv, NEW c \in Config, OthersSave(c) PROVE SettingsInv'
<1>1. SettingsTypeOK'
  BY Zenon DEF SettingsInv, SettingsTypeOK, OthersSave
<1> QED BY <1>1 DEF SettingsInv, OthersSave, SaveIsTheForm, SavedIsTheForm, isSaving

LEMMA SettingsInitInv == SettingsInit => SettingsInv
<1> SUFFICES ASSUME SettingsInit PROVE SettingsInv
  OBVIOUS
<1>1. SettingsTypeOK
  BY SettingsAssumption DEF SettingsInit, SettingsTypeOK, Config, Form
<1> QED BY <1>1 DEF SettingsInit, SettingsInv, SaveIsTheForm, SavedIsTheForm, isSaving

LEMMA SettingsStepInv == SettingsInv /\ [SettingsNext]_settingsVars => SettingsInv'
<1> SUFFICES ASSUME SettingsInv, [SettingsNext]_settingsVars PROVE SettingsInv'
  OBVIOUS
<1>1. CASE UNCHANGED settingsVars
  BY <1>1 DEF settingsVars, SettingsInv, SettingsTypeOK, SaveIsTheForm, SavedIsTheForm, isSaving
<1> QED
  BY <1>1, HandleChangeInv, HandleSaveInv, ApplySaveInv, SaveSucceedsInv, OtherSettingsInv,
     OthersSaveInv DEF SettingsNext

\* "Settings Saved!" is true of the form on the page, however late the timeouts
\* of earlier saves are, unless the form was changed during the save or another
\* admin has saved since.
THEOREM SettingsSavedIsTrue == SettingsSpec => [](SettingsTypeOK /\ SavedIsTheForm)
<1>1. SettingsInv => SettingsTypeOK /\ SavedIsTheForm
  BY DEF SettingsInv
<1> QED BY <1>1, SettingsInitInv, SettingsStepInv, PTL DEF SettingsSpec

(***************************************************************************)
(* The requests for the hardware's status.                                 *)
(***************************************************************************)

\* A channel is in the map, or the handler has it, or it holds the response, or
\* none of these; a request that has not been made has no channel.
ChannelIsInOnePlace ==
    /\ \A i \in Ids : healthPending[i] # NoRequest =>
         ~answer[healthPending[i]] /\ handing # healthPending[i]
    /\ \A r \in Requests : request[r].st = "idle" => ~answer[r] /\ handing # r

HasId == \A r \in Requests : InFlight(r) => request[r].id \in Ids

RequestRecord ==
    [st : {"idle", "publishing", "waiting", "done"}, id : 0..MaxNow,
     outcome : {"none", "data", "error"}]

\* The part of the state that the property is about, and the rest.
ServerType ==
    /\ clock \in Ids
    /\ request \in [Requests -> RequestRecord]
    /\ healthPending \in [Ids -> Requests \cup {NoRequest}]
    /\ answer \in [Requests -> BOOLEAN]
    /\ handing \in Requests \cup {NoRequest}

OtherType ==
    /\ toEsp \subseteq Ids /\ responses \subseteq Ids
    /\ asking \in PageRequests \cup {NoRequest}
    /\ healthError \in BOOLEAN /\ healthData \in BOOLEAN

Served == EntryIsWaiter /\ HandlerIsFree /\ WaiterIsHeard /\ ChannelIsInOnePlace /\ HasId

LEMMA TypeSplits == HealthTypeOK <=> ServerType /\ OtherType
  BY Zenon DEF HealthTypeOK, ServerType, OtherType, RequestRecord

\* What becomes of a request that moves on.
LEMMA MovesOn ==
    ASSUME ServerType, NEW r \in Requests, NEW n \in RequestRecord,
           request' = [request EXCEPT ![r] = n]
    PROVE  /\ request' \in [Requests -> RequestRecord]
           /\ request'[r] = n
           /\ \A q \in Requests \ {r} : request'[q] = request[q]
  BY DEF ServerType

LEMMA RegisterServed ==
    ASSUME ServerType, Served, NEW r \in Requests, Register(r)
    PROVE  ServerType' /\ Served'
<1> DEFINE n == [st |-> "publishing", id |-> clock, outcome |-> "none"]
<1>1. n \in RequestRecord /\ n.st = "publishing" /\ n.id = clock
  BY HealthAssumption DEF ServerType, RequestRecord, Ids
<1>2. request' = [request EXCEPT ![r] = n]
  BY DEF Register
<1> HIDE DEF n
<1>3. /\ request' \in [Requests -> RequestRecord]
      /\ request'[r] = n
      /\ \A q \in Requests \ {r} : request'[q] = request[q]
  BY <1>1, <1>2, MovesOn
<1>4. /\ request[r].st = "idle" /\ UNCHANGED <<clock, answer, handing>> /\ clock \in Ids
      /\ healthPending' \in [Ids -> Requests \cup {NoRequest}]
      /\ healthPending'[clock] = r
      /\ \A i \in Ids \ {clock} : healthPending'[i] = healthPending[i]
  BY DEF Register, ServerType
<1>5. ServerType'
  BY <1>3, <1>4, Zenon DEF ServerType
<1>6. ~answer[r] /\ handing # r
  BY <1>4 DEF Served, ChannelIsInOnePlace
<1>7. \A i \in Ids : healthPending[i] # r
  BY <1>4, HealthAssumption DEF Served, EntryIsWaiter, InFlight
<1>8. EntryIsWaiter' /\ HandlerIsFree' /\ HasId'
  BY <1>1, <1>3, <1>4, <1>7, HealthAssumption
     DEF ServerType, Served, EntryIsWaiter, HandlerIsFree, HasId, InFlight
<1>9. ChannelIsInOnePlace'
  BY <1>1, <1>3, <1>4, <1>6 DEF ServerType, Served, ChannelIsInOnePlace
<1>10. ASSUME NEW q \in Requests, InFlight(q)'
       PROVE  \/ healthPending'[request'[q].id] = q
              \/ handing' = q \/ answer'[q]
              \/ \E p \in Requests \ {q} : request'[p].st # "idle" /\ request'[p].id = request'[q].id
  <2>1. CASE q = r
    BY <1>1, <1>3, <1>4, <2>1
  <2>2. CASE q # r
    <3>1. InFlight(q) /\ request'[q] = request[q] /\ request[q].id \in Ids
      BY <1>3, <1>10, <2>2 DEF InFlight, Served, HasId
    <3>2. CASE request[q].id = clock
      BY <1>1, <1>3, <2>2, <3>1, <3>2
    <3>3. CASE request[q].id # clock
      BY <1>1, <1>3, <1>4, <3>1, <3>3 DEF Served, WaiterIsHeard
    <3> QED BY <3>2, <3>3
  <2> QED BY <2>1, <2>2
<1>11. WaiterIsHeard'
  BY <1>10 DEF WaiterIsHeard
<1> QED BY <1>5, <1>8, <1>9, <1>11 DEF Served

LEMMA RefuseServed ==
    ASSUME ServerType, Served, NEW r \in Requests, Refuse(r),
           UNCHANGED <<clock, healthPending, answer, handing>>
    PROVE  ServerType' /\ Served'
<1> DEFINE n == [request[r] EXCEPT !.st = "done", !.outcome = "error"]
<1>1. n \in RequestRecord /\ n.st = "done" /\ n.id = request[r].id
  BY DEF ServerType, RequestRecord
<1>2. request' = [request EXCEPT ![r] = n]
  BY DEF Refuse
<1> HIDE DEF n
<1>3. /\ request' \in [Requests -> RequestRecord]
      /\ request'[r] = n
      /\ \A q \in Requests \ {r} : request'[q] = request[q]
  BY <1>1, <1>2, MovesOn
<1>4. request[r].st = "idle"
  BY DEF Refuse
<1>5. ServerType'
  BY <1>3, Zenon DEF ServerType
<1>6. \A i \in Ids : healthPending[i] # r
  BY <1>4, HealthAssumption DEF Served, EntryIsWaiter, InFlight
<1>7. EntryIsWaiter' /\ HandlerIsFree' /\ HasId' /\ ChannelIsInOnePlace'
  BY <1>1, <1>3, <1>6
     DEF ServerType, Served, EntryIsWaiter, HandlerIsFree, HasId, InFlight, ChannelIsInOnePlace
<1>8. ASSUME NEW q \in Requests, InFlight(q)'
      PROVE  \/ healthPending'[request'[q].id] = q
             \/ handing' = q \/ answer'[q]
             \/ \E p \in Requests \ {q} : request'[p].st # "idle" /\ request'[p].id = request'[q].id
  <2>1. q # r /\ InFlight(q)
    BY <1>1, <1>3, <1>8 DEF InFlight
  <2> QED BY <1>1, <1>3, <1>4, <2>1 DEF Served, WaiterIsHeard
<1>9. WaiterIsHeard'
  BY <1>8 DEF WaiterIsHeard
<1> QED BY <1>5, <1>7, <1>9 DEF Served

LEMMA PublishServed ==
    ASSUME ServerType, Served, NEW r \in Requests, Publish(r)
    PROVE  ServerType' /\ Served'
<1> DEFINE n == [request[r] EXCEPT !.st = "waiting"]
<1>1. n \in RequestRecord /\ n.st = "waiting" /\ n.id = request[r].id
  BY DEF ServerType, RequestRecord
<1>2. request' = [request EXCEPT ![r] = n]
  BY DEF Publish
<1> HIDE DEF n
<1>3. /\ request' \in [Requests -> RequestRecord]
      /\ request'[r] = n
      /\ \A q \in Requests \ {r} : request'[q] = request[q]
  BY <1>1, <1>2, MovesOn
<1>4. InFlight(r) /\ UNCHANGED <<clock, healthPending, answer, handing>>
  BY DEF Publish, InFlight
<1>5. ServerType'
  BY <1>3, <1>4, Zenon DEF ServerType
\* As far as anybody else is concerned the request is as before.
<1>6. \A q \in Requests : /\ InFlight(q)' <=> InFlight(q)
                          /\ request'[q].id = request[q].id
                          /\ request'[q].st = "idle" <=> request[q].st = "idle"
  BY <1>1, <1>3, <1>4 DEF InFlight
<1>7. EntryIsWaiter' /\ HandlerIsFree' /\ HasId' /\ ChannelIsInOnePlace'
  BY <1>4, <1>6 DEF ServerType, Served, EntryIsWaiter, HandlerIsFree, HasId, ChannelIsInOnePlace
<1>8. WaiterIsHeard'
  BY <1>4, <1>6 DEF Served, WaiterIsHeard
<1> QED BY <1>5, <1>7, <1>8 DEF Served

LEMMA TakeAnswerServed ==
    ASSUME ServerType, Served, NEW r \in Requests, TakeAnswer(r)
    PROVE  ServerType' /\ Served'
<1> DEFINE n == [request[r] EXCEPT !.st = "done", !.outcome = "data"]
<1>1. n \in RequestRecord /\ n.st = "done" /\ n.id = request[r].id
  BY DEF ServerType, RequestRecord
<1>2. request' = [request EXCEPT ![r] = n]
  BY DEF TakeAnswer
<1> HIDE DEF n
<1>3. /\ request' \in [Requests -> RequestRecord]
      /\ request'[r] = n
      /\ \A q \in Requests \ {r} : request'[q] = request[q]
  BY <1>1, <1>2, MovesOn
<1>4. /\ answer[r] /\ answer' = [answer EXCEPT ![r] = FALSE]
      /\ UNCHANGED <<clock, healthPending, handing>>
  BY DEF TakeAnswer
<1>5. answer' \in [Requests -> BOOLEAN] /\ ~answer'[r]
  BY <1>4 DEF ServerType
<1>6. \A q \in Requests \ {r} : answer'[q] = answer[q]
  BY <1>4, Zenon DEF ServerType
<1>7. ServerType'
  BY <1>3, <1>4, <1>5, Zenon DEF ServerType
<1>8. \A i \in Ids : healthPending[i] # r
  BY <1>4, HealthAssumption DEF Served, ChannelIsInOnePlace
<1>9. EntryIsWaiter' /\ HasId'
  BY <1>1, <1>3, <1>4, <1>8 DEF ServerType, Served, EntryIsWaiter, HasId, InFlight
<1>10. HandlerIsFree' /\ ChannelIsInOnePlace'
  BY <1>1, <1>3, <1>4, <1>5, <1>6, <1>8 DEF ServerType, Served, HandlerIsFree, ChannelIsInOnePlace
<1>11. ASSUME NEW q \in Requests, InFlight(q)'
       PROVE  \/ healthPending'[request'[q].id] = q
              \/ handing' = q \/ answer'[q]
              \/ \E p \in Requests \ {q} : request'[p].st # "idle" /\ request'[p].id = request'[q].id
  <2>1. q # r /\ InFlight(q)
    BY <1>1, <1>3, <1>11 DEF InFlight
  <2> QED BY <1>1, <1>3, <1>4, <1>6, <2>1 DEF Served, WaiterIsHeard
<1>12. WaiterIsHeard'
  BY <1>11 DEF WaiterIsHeard
<1> QED BY <1>7, <1>9, <1>10, <1>12 DEF Served

\* The entry that a timeout deletes is its own, or that of a request made in the
\* same millisecond.
LEMMA TimeOutServed ==
    ASSUME ServerType, Served, NEW r \in Requests, TimeOut(r)
    PROVE  ServerType' /\ Served'
<1> DEFINE n == [request[r] EXCEPT !.st = "done", !.outcome = "error"]
<1>1. n \in RequestRecord /\ n.st = "done" /\ n.id = request[r].id
  BY DEF ServerType, RequestRecord
<1>2. request' = [request EXCEPT ![r] = n]
  BY DEF TimeOut
<1> HIDE DEF n
<1>3. /\ request' \in [Requests -> RequestRecord]
      /\ request'[r] = n
      /\ \A q \in Requests \ {r} : request'[q] = request[q]
  BY <1>1, <1>2, MovesOn
<1>4. InFlight(r) /\ request[r].id \in Ids /\ UNCHANGED <<clock, answer, handing>>
  BY DEF TimeOut, InFlight, Served, HasId
<1>5. /\ healthPending' \in [Ids -> Requests \cup {NoRequest}]
      /\ healthPending'[request[r].id] = NoRequest
      /\ \A i \in Ids : i # request[r].id => healthPending'[i] = healthPending[i]
  BY <1>4 DEF TimeOut, ServerType
<1>6. ServerType'
  BY <1>3, <1>4, <1>5, Zenon DEF ServerType
<1>7. \A i \in Ids : healthPending'[i] # NoRequest =>
         /\ healthPending'[i] = healthPending[i] /\ healthPending[i] # r
  BY <1>5, HealthAssumption DEF Served, EntryIsWaiter
<1>8. EntryIsWaiter' /\ HasId'
  BY <1>1, <1>3, <1>6, <1>7 DEF ServerType, Served, EntryIsWaiter, HasId, InFlight
<1>9. HandlerIsFree' /\ ChannelIsInOnePlace'
  BY <1>1, <1>3, <1>4, <1>7 DEF ServerType, Served, HandlerIsFree, ChannelIsInOnePlace
<1>10. ASSUME NEW q \in Requests, InFlight(q)'
       PROVE  \/ healthPending'[request'[q].id] = q
              \/ handing' = q \/ answer'[q]
              \/ \E p \in Requests \ {q} : request'[p].st # "idle" /\ request'[p].id = request'[q].id
  <2>1. q # r /\ InFlight(q) /\ request'[q] = request[q] /\ request[q].id \in Ids
    BY <1>1, <1>3, <1>10 DEF InFlight, Served, HasId
  <2>2. CASE request[q].id = request[r].id
    BY <1>1, <1>3, <2>1, <2>2
  <2>3. CASE request[q].id # request[r].id
    <3>1. CASE \E p \in Requests \ {q} : request[p].st # "idle" /\ request[p].id = request[q].id
      BY <1>1, <1>3, <1>4, <2>1, <3>1 DEF InFlight
    <3>2. CASE ~\E p \in Requests \ {q} : request[p].st # "idle" /\ request[p].id = request[q].id
      BY <1>4, <1>5, <2>1, <2>3, <3>2 DEF Served, WaiterIsHeard
    <3> QED BY <3>1, <3>2
  <2> QED BY <2>2, <2>3
<1>11. WaiterIsHeard'
  BY <1>10 DEF WaiterIsHeard
<1> QED BY <1>6, <1>8, <1>9, <1>11 DEF Served

LEMMA HandleResponseServed ==
    ASSUME ServerType, Served, NEW i \in Ids, HandleResponse(i)
    PROVE  ServerType' /\ Served'
<1>1. /\ handing = NoRequest /\ handing' = healthPending[i]
      /\ UNCHANGED <<clock, request, answer>>
      /\ healthPending' \in [Ids -> Requests \cup {NoRequest}]
      /\ healthPending'[i] = NoRequest
      /\ \A j \in Ids : j # i => healthPending'[j] = healthPending[j]
  BY DEF HandleResponse, ServerType
<1>2. ServerType'
  BY <1>1 DEF ServerType
<1>3. \A j \in Ids : healthPending'[j] # NoRequest =>
         /\ healthPending'[j] = healthPending[j]
         /\ healthPending[j] # handing'
  BY <1>1 DEF Served, EntryIsWaiter
<1>4. EntryIsWaiter' /\ HasId'
  BY <1>1, <1>3 DEF ServerType, Served, EntryIsWaiter, HasId, InFlight
<1>5. HandlerIsFree' /\ ChannelIsInOnePlace'
  <2>1. handing' # NoRequest => ~answer[handing'] /\ InFlight(handing')
    BY <1>1 DEF Served, EntryIsWaiter, ChannelIsInOnePlace
  <2>2. \A r \in Requests : request[r].st = "idle" => handing' # r
    BY <2>1, HealthAssumption DEF InFlight
  <2> QED BY <1>1, <1>3, <2>1, <2>2 DEF Served, HandlerIsFree, ChannelIsInOnePlace
<1>6. ASSUME NEW q \in Requests, InFlight(q)
      PROVE  \/ healthPending'[request[q].id] = q
             \/ handing' = q \/ answer[q]
             \/ \E p \in Requests \ {q} : request[p].st # "idle" /\ request[p].id = request[q].id
  <2>1. request[q].id \in Ids /\ handing # q
    BY <1>1, <1>6, HealthAssumption DEF Served, HasId
  <2> QED BY <1>1, <1>6, <2>1 DEF Served, WaiterIsHeard
<1>7. WaiterIsHeard'
  BY <1>1, <1>6 DEF WaiterIsHeard, InFlight
<1> QED BY <1>2, <1>4, <1>5, <1>7 DEF Served

LEMMA HandOverServed == ASSUME ServerType, Served, HandOver PROVE ServerType' /\ Served'
<1>1. /\ handing \in Requests /\ handing' = NoRequest
      /\ answer' = [answer EXCEPT ![handing] = TRUE]
      /\ UNCHANGED <<clock, request, healthPending>>
  BY DEF HandOver, ServerType
<1>2. /\ answer' \in [Requests -> BOOLEAN]
      /\ answer'[handing]
      /\ \A q \in Requests \ {handing} : answer'[q] = answer[q]
  BY <1>1, Zenon DEF ServerType
<1>3. ServerType'
  BY <1>1, <1>2, Zenon DEF ServerType
<1>4. EntryIsWaiter' /\ HandlerIsFree' /\ HasId'
  BY <1>1 DEF Served, EntryIsWaiter, HandlerIsFree, HasId, InFlight
<1>5. ChannelIsInOnePlace'
  BY <1>1, <1>2, HealthAssumption DEF ServerType, Served, ChannelIsInOnePlace
<1>6. WaiterIsHeard'
  BY <1>1, <1>2 DEF Served, WaiterIsHeard, InFlight
<1> QED BY <1>3, <1>4, <1>5, <1>6 DEF Served

\* Neither the network nor the page touches a request.
LEMMA SameServed ==
    ASSUME ServerType, Served, clock' \in Ids,
           UNCHANGED <<request, healthPending, answer, handing>>
    PROVE  ServerType' /\ Served'
  BY DEF ServerType, Served, EntryIsWaiter, HandlerIsFree, WaiterIsHeard, ChannelIsInOnePlace,
         HasId, InFlight

------------------------------------------------------------------------------
LEMMA NextServed == ServerType /\ Served /\ [HealthNext]_healthVars => ServerType' /\ Served'
<1> SUFFICES ASSUME ServerType, Served, [HealthNext]_healthVars PROVE ServerType' /\ Served'
  OBVIOUS
<1> USE DEF network, healthPage
<1>1. ASSUME NEW r \in PageRequests, FetchHealth(r) PROVE ServerType' /\ Served'
  <2>1. CASE Register(r)
    BY <2>1, RegisterServed DEF Requests
  <2>2. CASE Refuse(r)
    BY <2>2, RefuseServed DEF Refuse, Requests
  <2> QED BY <1>1, <2>1, <2>2 DEF FetchHealth
<1>2. ASSUME NEW r \in OtherRequests, Register(r) \/ Refuse(r) PROVE ServerType' /\ Served'
  BY <1>2, RegisterServed, RefuseServed DEF Refuse, Requests
<1>3. CASE NextMillisecond
  BY <1>3, SameServed, HealthAssumption DEF NextMillisecond, ServerType, Ids
<1>4. CASE ShowHealth
  BY <1>4, SameServed DEF ShowHealth, ServerType
<1>5. ASSUME NEW i \in Ids, EspAnswers(i) PROVE ServerType' /\ Served'
  BY <1>5, SameServed DEF EspAnswers, ServerType
<1>6. CASE UNCHANGED healthVars
  BY <1>6, SameServed DEF healthVars, ServerType
<1> QED
  BY <1>1, <1>2, <1>3, <1>4, <1>5, <1>6, PublishServed, TakeAnswerServed, TimeOutServed,
     HandleResponseServed, HandOverServed DEF HealthNext

LEMMA NextOther ==
    ServerType /\ Served /\ OtherType /\ [HealthNext]_healthVars => OtherType'
<1> SUFFICES ASSUME ServerType, Served, OtherType, [HealthNext]_healthVars PROVE OtherType'
  OBVIOUS
<1> USE DEF OtherType, network, healthPage
<1>1. ASSUME NEW r \in PageRequests, FetchHealth(r) PROVE OtherType'
  BY <1>1, Zenon DEF FetchHealth, Register, Refuse
<1>2. CASE ShowHealth
  BY <1>2, Zenon DEF ShowHealth
<1>3. ASSUME NEW r \in OtherRequests, Register(r) \/ Refuse(r), UNCHANGED healthPage
      PROVE  OtherType'
  BY <1>3, Zenon DEF Register, Refuse
<1>4. ASSUME NEW r \in Requests, Publish(r) PROVE OtherType'
  <2>1. request[r].id \in Ids
    BY <1>4 DEF Publish, Served, HasId, InFlight
  <2>2. toEsp' \subseteq Ids
    BY <1>4, <2>1 DEF Publish
  <2> QED BY <1>4, <2>2, Zenon DEF Publish
<1>5. ASSUME NEW r \in Requests, TakeAnswer(r) \/ TimeOut(r) PROVE OtherType'
  BY <1>5, Zenon DEF TakeAnswer, TimeOut
<1>6. ASSUME NEW i \in Ids, EspAnswers(i) \/ HandleResponse(i) PROVE OtherType'
  <2>1. toEsp' \subseteq Ids /\ responses' \subseteq Ids
    BY <1>6 DEF EspAnswers, HandleResponse
  <2> QED BY <1>6, <2>1, Zenon DEF EspAnswers, HandleResponse
<1>7. CASE HandOver \/ NextMillisecond
  BY <1>7, Zenon DEF HandOver, NextMillisecond
<1>8. CASE UNCHANGED healthVars
  BY <1>8, Zenon DEF healthVars
<1> QED
  BY <1>1, <1>2, <1>3, <1>4, <1>5, <1>6, <1>7, <1>8 DEF HealthNext

LEMMA InitServed == HealthInit => ServerType /\ OtherType /\ Served
<1> SUFFICES ASSUME HealthInit PROVE ServerType /\ OtherType /\ Served
  OBVIOUS
<1>1. Idle \in RequestRecord /\ 1 \in Ids
  BY HealthAssumption DEF Idle, RequestRecord, Ids
<1>2. ServerType /\ OtherType
  BY <1>1, Zenon DEF HealthInit, ServerType, OtherType
<1>3. \A r \in Requests : ~InFlight(r) /\ ~answer[r] /\ handing # r
  BY HealthAssumption DEF HealthInit, InFlight, Idle
<1> QED
  BY <1>2, <1>3 DEF HealthInit, Served, EntryIsWaiter, HandlerIsFree, WaiterIsHeard,
                    ChannelIsInOnePlace, HasId

LEMMA ServedInvariant == HealthSpec => [](ServerType /\ OtherType /\ Served)
  BY InitServed, NextServed, NextOther, PTL DEF HealthSpec

\* The requests, the map and the page are always in one of their states, and
\* every id that is published or answered is that of a millisecond.
THEOREM HealthTypes == HealthSpec => []HealthTypeOK
  BY ServedInvariant, TypeSplits, PTL

\* The map keeps nothing that has timed out or been answered, the handler of the
\* MQTT messages never blocks, and a request that waits can still be answered
\* unless another one shares its millisecond.
THEOREM RequestsAreServed == HealthSpec => []HealthIsServed
<1>1. Served => HealthIsServed
  BY DEF Served, HealthIsServed
<1> QED BY <1>1, ServedInvariant, PTL

(***************************************************************************)
(* The display and the tab.                                                *)
(***************************************************************************)

(* Whole seconds. *)

LEMMA Multiples ==
    ASSUME NEW q \in Int, NEW k \in Int, NEW p \in Nat, q <= k
    PROVE  q * p <= k * p
  OBVIOUS

\* A time is at most k whole seconds as long as it is less than k + 1 seconds.
LEMMA WholeSeconds ==
    ASSUME NEW x \in Int, NEW k \in Int, NEW p \in Nat \ {0}
    PROVE  /\ x \div p \in Int
           /\ x \div p <= k <=> x < (k + 1) * p
<1> DEFINE q == x \div p
<1>1. q \in Int /\ q * p <= x /\ x < (q + 1) * p
  OBVIOUS
<1> HIDE DEF q
<1>2. ASSUME q <= k PROVE x < (k + 1) * p
  <2>1. (q + 1) * p <= (k + 1) * p
    BY <1>1, <1>2, Multiples
  <2> QED BY <1>1, <2>1
<1>3. ASSUME q > k PROVE x >= (k + 1) * p
  <2>1. (k + 1) * p <= q * p
    BY <1>1, <1>3, Multiples
  <2> QED BY <1>1, <2>1
<1> QED BY <1>1, <1>2, <1>3 DEF q

------------------------------------------------------------------------------
(* The display. *)

\* Everything that the card shows has been announced; a table without a session
\* so far has announced nothing; and in its first session no stage is early.
Announced ==
    started /\ session # NoSession => first # NoSession /\ Due(session, frame) \subseteq alerted

AnnouncedOfFirst ==
    /\ first = NoSession => alerted = {}
    /\ started /\ session # NoSession /\ ~repeated => session = first
    /\ first # NoSession /\ ~repeated =>
         /\ "ended" \in alerted => Remaining(first, frame) < PerSecond
         /\ "final" \in alerted => Remaining(first, frame) < (Final + 1) * PerSecond
         /\ "soon" \in alerted => Remaining(first, frame) < (Soon + 1) * PerSecond

TvInv == TvTypeOK /\ Announced /\ AnnouncedOfFirst

LEMMA DueMeans ==
    ASSUME NEW s, NEW now
    PROVE  /\ "soon" \in Due(s, now) <=>
                 TotalSeconds(s, now) <= Soon /\ TotalSeconds(s, now) > Final
           /\ "final" \in Due(s, now) <=>
                 TotalSeconds(s, now) <= Final /\ TotalSeconds(s, now) > 0
           /\ "ended" \in Due(s, now) <=> TotalSeconds(s, now) <= 0
           /\ Due(s, now) \subseteq Stages
  BY Zenon DEF Due, Stages

LEMMA SecondsOfSession ==
    ASSUME NEW s \in Sessions, NEW now \in Nat
    PROVE  /\ Remaining(s, now) \in Int /\ TotalSeconds(s, now) \in Int
           /\ \A k \in Int : TotalSeconds(s, now) <= k <=> Remaining(s, now) < (k + 1) * PerSecond
<1>1. Remaining(s, now) \in Int
  BY TvAssumption DEF Remaining
<1>2. PerSecond \in Nat \ {0}
  BY TvAssumption
<1> QED BY <1>1, <1>2, WholeSeconds DEF TotalSeconds

\* A stage is due a second before its badge, at the earliest.
LEMMA DueIsNotEarly ==
    ASSUME NEW s \in Sessions, NEW now \in Nat
    PROVE  /\ "ended" \in Due(s, now) => Remaining(s, now) < PerSecond
           /\ "final" \in Due(s, now) => Remaining(s, now) < (Final + 1) * PerSecond
           /\ "soon" \in Due(s, now) => Remaining(s, now) < (Soon + 1) * PerSecond
<1>1. Soon \in Int /\ Final \in Int /\ PerSecond \in Int /\ 0 \in Int
  BY TvAssumption
<1>2. TotalSeconds(s, now) <= 0 <=> Remaining(s, now) < (0 + 1) * PerSecond
  BY <1>1, SecondsOfSession
<1>3. /\ TotalSeconds(s, now) <= Final <=> Remaining(s, now) < (Final + 1) * PerSecond
      /\ TotalSeconds(s, now) <= Soon <=> Remaining(s, now) < (Soon + 1) * PerSecond
  BY <1>1, SecondsOfSession
<1>4. (0 + 1) * PerSecond = PerSecond
  BY <1>1
<1> QED BY <1>2, <1>3, <1>4, DueMeans

\* What has been announced of the first session stays not early as time passes.
LEMMA RenderInv ==
    ASSUME TvInv, NEW s \in Sessions \cup {NoSession}, NEW now \in Nat, frame <= now,
           Render(s, now), session' = s
    PROVE  alerted' \subseteq Stages /\ Announced' /\ AnnouncedOfFirst'
<1> USE DEF TvInv, TvTypeOK
<1>1. frame' = now /\ frame \in Nat
  BY DEF Render
<1>2. CASE s = NoSession
  <2>1. UNCHANGED <<alerted, first, repeated>> /\ session' = NoSession
    BY <1>2 DEF Render
  <2>2. ASSUME first # NoSession PROVE Remaining(first, now) <= Remaining(first, frame)
    BY <1>1, <2>2, TvAssumption DEF Remaining
  <2>3. first # NoSession => Remaining(first, now) \in Int /\ Remaining(first, frame) \in Int
    BY <1>1, SecondsOfSession
  <2>4. PerSecond \in Int /\ (Final + 1) * PerSecond \in Int /\ (Soon + 1) * PerSecond \in Int
    BY TvAssumption
  <2>5. Announced'
    BY <2>1 DEF Announced
  <2>6. AnnouncedOfFirst'
    <3>1. first # NoSession /\ ~repeated =>
            /\ "ended" \in alerted => Remaining(first, now) < PerSecond
            /\ "final" \in alerted => Remaining(first, now) < (Final + 1) * PerSecond
            /\ "soon" \in alerted => Remaining(first, now) < (Soon + 1) * PerSecond
      BY <2>2, <2>3, <2>4 DEF AnnouncedOfFirst
    <3> QED BY <1>1, <2>1, <3>1 DEF AnnouncedOfFirst, Remaining
  <2> QED BY <2>1, <2>5, <2>6
<1>3. CASE s # NoSession
  <2>1. /\ alerted' = alerted \cup Due(s, now)
        /\ first' = IF first = NoSession THEN s ELSE first
        /\ repeated' = (repeated \/ s # first')
        /\ s \in Sessions
    BY <1>3 DEF Render
  <2>2. alerted' \subseteq Stages
    BY <2>1, DueMeans
  <2>3. Announced'
    BY <1>1, <1>3, <2>1, TvAssumption DEF Announced, Due, TotalSeconds, Remaining
  <2>4. ASSUME ~repeated'
        PROVE  /\ s = first'
               /\ "ended" \in alerted' => Remaining(s, now) < PerSecond
               /\ "final" \in alerted' => Remaining(s, now) < (Final + 1) * PerSecond
               /\ "soon" \in alerted' => Remaining(s, now) < (Soon + 1) * PerSecond
    <3>1. s = first' /\ ~repeated
      BY <2>1, <2>4
    <3>2. CASE first = NoSession
      <4>1. alerted' = Due(s, now)
        BY <2>1, <3>2 DEF AnnouncedOfFirst
      <4> QED BY <2>1, <3>1, <4>1, DueIsNotEarly
    <3>3. CASE first # NoSession
      <4>1. first = s
        BY <2>1, <3>1, <3>3
      <4>2. /\ "ended" \in alerted => Remaining(s, frame) < PerSecond
            /\ "final" \in alerted => Remaining(s, frame) < (Final + 1) * PerSecond
            /\ "soon" \in alerted => Remaining(s, frame) < (Soon + 1) * PerSecond
        BY <3>1, <3>3, <4>1 DEF AnnouncedOfFirst
      <4>3. Remaining(s, now) <= Remaining(s, frame)
        BY <1>1, <2>1, TvAssumption DEF Remaining
      <4>4. Remaining(s, now) \in Int /\ Remaining(s, frame) \in Int
        BY <1>1, <2>1, SecondsOfSession
      <4>5. PerSecond \in Int /\ (Final + 1) * PerSecond \in Int /\ (Soon + 1) * PerSecond \in Int
        BY TvAssumption
      <4>6. /\ "ended" \in alerted => Remaining(s, now) < PerSecond
            /\ "final" \in alerted => Remaining(s, now) < (Final + 1) * PerSecond
            /\ "soon" \in alerted => Remaining(s, now) < (Soon + 1) * PerSecond
        BY <4>2, <4>3, <4>4, <4>5
      <4> QED BY <2>1, <3>1, <4>6, DueIsNotEarly
    <3> QED BY <3>2, <3>3
  <2>5. first' # NoSession
    BY <1>3, <2>1
  <2>6. AnnouncedOfFirst'
    BY <1>1, <2>4, <2>5 DEF AnnouncedOfFirst, Remaining
  <2> QED BY <2>2, <2>3, <2>6
<1> QED BY <1>2, <1>3

LEMMA RenderTypes ==
    ASSUME TvInv, NEW s \in Sessions \cup {NoSession}, NEW now, Render(s, now)
    PROVE  frame' = now /\ first' \in Sessions \cup {NoSession} /\ repeated' \in BOOLEAN
  BY Zenon DEF TvInv, TvTypeOK, Render

LEMMA TvStepInv == TvInv /\ [TvNext]_tvVars => TvInv'
<1> SUFFICES ASSUME TvInv, [TvNext]_tvVars PROVE TvInv'
  OBVIOUS
<1>1. /\ wall \in Nat /\ frame \in Nat /\ frame <= wall /\ MaxWall \in Nat /\ wall <= MaxWall
      /\ session \in Sessions \cup {NoSession}
  BY TvAssumption DEF TvInv, TvTypeOK
<1>2. CASE TvStart \/ NextFrame
  <2>1. Render(session, wall) /\ UNCHANGED <<wall, session>> /\ started' \in BOOLEAN
    BY <1>2, Zenon DEF TvStart, NextFrame, TvInv, TvTypeOK
  <2>2. alerted' \subseteq Stages /\ Announced' /\ AnnouncedOfFirst'
    BY <1>1, <2>1, RenderInv
  <2>3. frame' = wall /\ first' \in Sessions \cup {NoSession} /\ repeated' \in BOOLEAN
    BY <1>1, <2>1, RenderTypes
  <2>4. wall' \in 0..MaxWall /\ frame' \in 0..wall'
    BY <1>1, <2>1, <2>3
  <2> QED BY <1>1, <2>1, <2>2, <2>3, <2>4, Zenon DEF TvInv, TvTypeOK
<1>3. CASE TvReceive
  <2>1. session' \in Sessions \cup {NoSession} /\ UNCHANGED <<wall, started>>
    BY <1>3 DEF TvReceive
  <2>2. CASE started
    <3>1. Render(session', frame)
      BY <1>3, <2>2 DEF TvReceive
    <3>2. alerted' \subseteq Stages /\ Announced' /\ AnnouncedOfFirst'
      BY <1>1, <2>1, <3>1, RenderInv
    <3>3. frame' = frame /\ first' \in Sessions \cup {NoSession} /\ repeated' \in BOOLEAN
      BY <2>1, <3>1, RenderTypes
    <3> QED BY <2>1, <3>2, <3>3, Zenon DEF TvInv, TvTypeOK
  <2>3. CASE ~started
    <3>1. UNCHANGED <<wall, started, frame, alerted, first, repeated>>
      BY <1>3, <2>3 DEF TvReceive
    <3>2. Announced' /\ AnnouncedOfFirst'
      BY <2>3, <3>1 DEF TvInv, Announced, AnnouncedOfFirst, Remaining
    <3> QED BY <2>1, <3>1, <3>2, Zenon DEF TvInv, TvTypeOK
  <2> QED BY <2>2, <2>3
<1>4. CASE TimePasses
  <2>1. wall' \in 0..MaxWall /\ frame' \in 0..wall'
    BY <1>1, <1>4 DEF TimePasses
  <2>2. UNCHANGED <<frame, session, started, alerted, first, repeated>>
    BY <1>4 DEF TimePasses
  <2>3. Announced' /\ AnnouncedOfFirst'
    BY <2>2 DEF TvInv, Announced, AnnouncedOfFirst, Due, TotalSeconds, Remaining
  <2> QED BY <2>1, <2>2, <2>3, Zenon DEF TvInv, TvTypeOK
<1>5. CASE UNCHANGED tvVars
  BY <1>5 DEF tvVars, TvInv, TvTypeOK, Announced, AnnouncedOfFirst, Due, TotalSeconds, Remaining
<1> QED BY <1>2, <1>3, <1>4, <1>5 DEF TvNext

LEMMA TvInitInv == TvInit => TvInv
<1> SUFFICES ASSUME TvInit PROVE TvInv
  OBVIOUS
<1>1. wall \in 0..MaxWall /\ frame \in 0..wall
  BY TvAssumption DEF TvInit
<1>2. Announced /\ AnnouncedOfFirst
  BY DEF TvInit, Announced, AnnouncedOfFirst
<1> QED BY <1>1, <1>2, Zenon DEF TvInit, TvInv, TvTypeOK

\* What has been announced suffices for the badge.
LEMMA InvAnnouncesBadge == TvInv => BadgeIsAnnounced
<1> SUFFICES ASSUME TvInv, started, session # NoSession PROVE BadgeIsAnnounced
  BY Zenon DEF BadgeIsAnnounced
<1> DEFINE r == Remaining(session, frame)
           n == TotalSeconds(session, frame)
<1>1. session \in Sessions /\ frame \in Nat /\ Due(session, frame) \subseteq alerted
  BY DEF TvInv, TvTypeOK, Announced
<1>2. /\ Soon \in Nat /\ Final \in Nat /\ 0 < Final /\ Final < Soon /\ PerSecond \in Nat \ {0}
      /\ Final - 1 \in Int /\ Final \in Int /\ Soon \in Int /\ 0 \in Int
  BY TvAssumption
<1>3. r \in Int /\ n \in Int
  BY <1>1, SecondsOfSession
<1>4. /\ n <= 0 <=> r < (0 + 1) * PerSecond
      /\ n <= Final - 1 <=> r < (Final - 1 + 1) * PerSecond
      /\ n <= Final <=> r < (Final + 1) * PerSecond
      /\ n <= Soon <=> r < (Soon + 1) * PerSecond
  BY <1>1, <1>2, SecondsOfSession
<1>5. /\ (0 + 1) * PerSecond = PerSecond /\ (Final - 1 + 1) * PerSecond = Final * PerSecond
      /\ (Final + 1) * PerSecond = Final * PerSecond + PerSecond
      /\ (Soon + 1) * PerSecond = Soon * PerSecond + PerSecond
      /\ Final * PerSecond \in Int /\ Soon * PerSecond \in Int /\ PerSecond > 0
  BY <1>2
<1>6. /\ n <= Soon /\ n > Final => "soon" \in alerted
      /\ n <= Final /\ n > 0 => "final" \in alerted
      /\ n <= 0 => "ended" \in alerted
  BY <1>1, DueMeans
<1> HIDE DEF r, n
<1>7. r <= 0 => "ended" \in alerted
  BY <1>2, <1>3, <1>4, <1>5, <1>6
<1>8. r <= Final * PerSecond => alerted \cap {"final", "ended"} # {}
  BY <1>2, <1>3, <1>4, <1>5, <1>6
<1>9. r > Final * PerSecond /\ r <= Soon * PerSecond => alerted \cap {"soon", "final"} # {}
  BY <1>2, <1>3, <1>4, <1>5, <1>6
<1>10. /\ Badge(session, frame) = "ended" => r <= 0
       /\ Badge(session, frame) = "final" => r <= Final * PerSecond
       /\ Badge(session, frame) = "soon" => r > Final * PerSecond /\ r <= Soon * PerSecond
  BY Zenon DEF Badge, r
<1> QED BY <1>7, <1>8, <1>9, <1>10, Zenon DEF BadgeIsAnnounced

LEMMA InvFollowsBadges == TvInv => SoundsFollowBadges
<1> SUFFICES ASSUME TvInv PROVE NoSoundIsEarly
  BY InvAnnouncesBadge DEF SoundsFollowBadges
<1> QED BY DEF TvInv, AnnouncedOfFirst, Announced, NoSoundIsEarly

\* The badge of a table is shown only when its sound or that of a later stage has
\* been played on that table, by this session or by an earlier one: only in the
\* table's first session does that mean that no badge is shown in silence.  In
\* that session, too, no sound is more than a second early, whatever the thresholds
\* and however long the display has been in the background.
THEOREM SoundsAreInTime == TvSpec => [](TvTypeOK /\ SoundsFollowBadges)
<1>1. TvInv => TvTypeOK /\ SoundsFollowBadges
  BY InvFollowsBadges DEF TvInv
<1> QED BY <1>1, TvInitInv, TvStepInv, PTL DEF TvSpec

------------------------------------------------------------------------------
(* The tab. *)

\* A step of the tab is a step of the session or of one page, or a stutter, for
\* each of them.
LEMMA TabSteps ==
    ASSUME [AppNext]_appVars
    PROVE  /\ [SessionNext]_sessionVars
           /\ [IlluminationNext]_lightVars /\ [UserNext]_userVars
           /\ [SettingsNext]_settingsVars /\ [HealthNext]_healthVars /\ [TvNext]_tvVars
<1>1. CASE SessionStep
  BY <1>1, Zenon DEF SessionStep, pageVars
<1>2. CASE Mount
  BY <1>2, Zenon DEF Mount, pageVars
<1>3. CASE PageStep
  BY <1>3, Zenon DEF PageStep
<1>4. CASE UNCHANGED appVars
  BY <1>4, Zenon DEF appVars, pageVars
<1> QED BY <1>1, <1>2, <1>3, <1>4, Zenon DEF AppNext

TabInv ==
    /\ SessionInv /\ LightsInv /\ UserInv /\ SettingsInv
    /\ ServerType /\ OtherType /\ Served /\ TvInv

LEMMA TabInitInv == AppInit => TabInv
  BY SessionInitInv, LightsInitInv, UserInitInv, SettingsInitInv, InitServed, TvInitInv, Zenon
     DEF AppInit, PagesInit, TabInv

LEMMA TabStepInv == TabInv /\ [AppNext]_appVars => TabInv'
<1> SUFFICES ASSUME TabInv, [AppNext]_appVars PROVE TabInv'
  OBVIOUS
<1> QED
  BY TabSteps, SessionStepInv, LightsStepInv, UserStepInv, SettingsStepInv, NextServed, NextOther,
     TvStepInv, Zenon DEF TabInv

\* In the tab, too, the user is the one who is signed in, and each page keeps
\* what it promises: the lights' spinners, the lists of users, the saved
\* settings, the hardware's status and the sounds.
THEOREM TabKeepsPromises ==
    AppSpec => [](/\ UserIsSignedIn /\ SpinnerIsOneCall /\ ListIsTrue /\ SavedIsTheForm
                  /\ HealthIsServed /\ SoundsFollowBadges)
<1>1. TabInv => /\ UserIsSignedIn /\ SpinnerIsOneCall /\ ListIsTrue /\ SavedIsTheForm
                /\ HealthIsServed /\ SoundsFollowBadges
  BY InvFollowsBadges, Zenon
     DEF TabInv, SessionInv, LightsInv, SpinnerIsOneCall, UserInv, SettingsInv, Served,
         HealthIsServed
<1> QED BY <1>1, TabInitInv, TabStepInv, PTL DEF AppSpec

==============================================================================
