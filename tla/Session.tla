------------------------------- MODULE Session -------------------------------
(***************************************************************************)
(* Who is using a tab, and what it shows: AuthContext, which follows        *)
(* Firebase, the routes of App with ProtectedRoute around them, the login   *)
(* page, the page for accounts without a role, and the sign-out that the    *)
(* REST client makes of an answer 401.                                      *)
(*                                                                         *)
(* Firebase tells AuthContext of another account in a callback that waits   *)
(* for the claims of its token; nobody waits for the callback, so a later   *)
(* change may be dealt with first.  A sign-out is followed by a navigation  *)
(* (logout().then), in no fixed order with the callback; when it fails there *)
(* is none.                                                                *)
(***************************************************************************)
EXTENDS Naturals

CONSTANTS
    Accounts,
    RolesOf,    \* the roles an account may have in its claims when it signs in
    Nobody,
    MaxWaits    \* bound: callbacks that wait for the claims of one account

VARIABLES
    auth,       \* auth.currentUser
    notice,     \* it has changed and the callback has not run yet
    waits,      \* waits[a]: callbacks that are waiting for the claims of a
    user,       \* the user of AuthContext
    loading,    \* as long as it is set the provider shows nothing
    overtaken,  \* history: since the tab was loaded, a callback has run while
                \* an earlier one was waiting
    route,      \* the path the router is at
    email,      \* that location carries the email of a pending account
    leaving,    \* the navigation that follows a sign-out under way
    refused,    \* the effect that signs out an account without a role has run for
                \* this user on this page, and the sign-out has failed
    popup,      \* Google's popup is open
    asked       \* a page has sent a request that is not answered yet

firebase == <<auth, notice>>
context == <<waits, user, loading, overtaken>>
router == <<route, email, leaving>>
sessionVars == <<firebase, context, router, refused, popup, asked>>

NoRole == "none"
UnknownRole == "unknown"   \* in the claims, and none of the three
ClaimRoles == {"admin", "staff", "tv", UnknownRole, NoRole}
NoUser == [uid |-> Nobody, role |-> NoRole]
Stay == "stay"

ASSUME SessionAssumption ==
    /\ Nobody \notin Accounts
    /\ RolesOf \in [Accounts -> SUBSET ClaimRoles]

------------------------------------------------------------------------------
(* What is shown. *)

\* The pages inside MainLayout, with its links and its logout button.
Framed == {"/bookings", "/dashboard", "/illumination", "/admin", "/hardware"}
Protected == Framed \cup {"/tv-display"}
Routes == Protected \cup {"/", "/login", "/pending-approval"}

AllowedRoles(p) ==
    CASE p = "/admin" -> {"admin"}
      [] p = "/tv-display" -> {"tv", "staff", "admin"}
      [] OTHER -> {"staff", "admin"}

HomeOf(role) ==
    CASE role = "tv" -> "/tv-display"
      [] role = "staff" -> "/bookings"
      [] role = "admin" -> "/dashboard"
      [] role = UnknownRole -> "/"

LandingOnBookings ==   \* a bug: a role that is not allowed on a page is sent to the bookings
    CASE route = "/pending-approval" /\ ~email -> "/"
      [] route \in Protected /\ user = NoUser -> "/login"
      [] route = "/login" /\ user.role \notin {NoRole, UnknownRole} -> HomeOf(user.role)
      [] route \in Protected /\ user.role \notin AllowedRoles(route) \cup {NoRole} -> "/bookings"
      [] route = "/dashboard" /\ user.role # NoRole -> "/bookings"
      [] OTHER -> Stay

\* Where the page that is shown sends the user, if it does.
Landing ==
    CASE route = "/pending-approval" /\ ~email -> "/"
      [] route \in Protected /\ user = NoUser -> "/login"
      [] route = "/login" /\ user.role \notin {NoRole, UnknownRole} -> HomeOf(user.role)
      [] route \in Protected /\ user.role \notin AllowedRoles(route) \cup {NoRole} -> HomeOf(user.role)
      [] route = "/dashboard" /\ user.role # NoRole -> "/bookings"
      [] OTHER -> Stay

Redirecting == ~loading /\ Landing # Stay

\* The login page and ProtectedRoute sign out a user without a role; to the login
\* page an unknown role is none.
Unwelcome ==
    /\ ~loading /\ user # NoUser
    /\ \/ user.role = NoRole /\ route \in Protected \cup {"/login"}
       \/ user.role = UnknownRole /\ route = "/login"

\* Their effect is still to run: it runs once for a user and a page.
ToBeTurnedAway == Unwelcome /\ leaving = Stay /\ ~refused

\* Effects run before the user can click on what has been rendered.
Settled == ~loading /\ ~Redirecting /\ ~ToBeTurnedAway

------------------------------------------------------------------------------
SessionTypeOK ==
    /\ auth \in Accounts \cup {Nobody} /\ notice \in BOOLEAN
    /\ waits \in [Accounts -> Nat]
    /\ user \in [uid : Accounts, role : ClaimRoles] \cup {NoUser}
    /\ loading \in BOOLEAN /\ overtaken \in BOOLEAN
    /\ route \in Routes /\ email \in BOOLEAN
    /\ leaving \in {Stay, "/login", "/pending-approval"}
    /\ refused \in BOOLEAN /\ popup \in BOOLEAN /\ asked \in BOOLEAN

SessionInit ==
    /\ auth \in Accounts \cup {Nobody}
    /\ notice = TRUE
    /\ waits = [a \in Accounts |-> 0]
    /\ user = NoUser
    /\ loading = TRUE
    /\ overtaken = FALSE
    /\ route = "/" /\ email = FALSE /\ leaving = Stay
    /\ refused = FALSE /\ popup = FALSE /\ asked = FALSE

------------------------------------------------------------------------------
(* Firebase and AuthContext. *)

\* Firebase calls back only when the account is another one than before.
Change(a) ==
    /\ ~notice
    /\ auth' = a
    /\ notice' = (a # auth)

DeliverKeeping ==   \* a bug: a sign-out leaves the user as it is
    /\ notice /\ notice' = FALSE
    /\ overtaken' = (overtaken \/ \E a \in Accounts : waits[a] > 0)
    /\ IF auth = Nobody
         THEN loading' = FALSE /\ UNCHANGED <<waits, user, refused>>
         ELSE /\ waits[auth] < MaxWaits
              /\ waits' = [waits EXCEPT ![auth] = @ + 1]
              /\ UNCHANGED <<user, loading, refused>>
    /\ UNCHANGED <<auth, router, popup, asked>>

\* The callback of onAuthStateChanged, until it waits for the claims.
Deliver ==
    /\ notice /\ notice' = FALSE
    /\ overtaken' = (overtaken \/ \E a \in Accounts : waits[a] > 0)
    /\ IF auth = Nobody
         THEN user' = NoUser /\ loading' = FALSE /\ refused' = FALSE /\ UNCHANGED waits
         ELSE /\ waits[auth] < MaxWaits
              /\ waits' = [waits EXCEPT ![auth] = @ + 1]
              /\ UNCHANGED <<user, loading, refused>>
    /\ UNCHANGED <<auth, router, popup, asked>>

\* The claims of a's token have come, or have not.
Claims(a) ==
    /\ waits[a] > 0
    /\ waits' = [waits EXCEPT ![a] = @ - 1]
    /\ user' \in {[uid |-> a, role |-> r] : r \in RolesOf[a]} \cup {NoUser}
    /\ loading' = FALSE /\ refused' = FALSE
    /\ UNCHANGED <<firebase, overtaken, router, popup, asked>>

\* Another tab of the same browser signs in or out.
Elsewhere ==
    /\ \E a \in (Accounts \cup {Nobody}) \ {auth} : Change(a)
    /\ UNCHANGED <<context, router, refused, popup, asked>>

------------------------------------------------------------------------------
(* The pages. *)

ClickGoogle ==
    /\ Settled /\ route = "/login" /\ ~popup
    /\ popup' = TRUE
    /\ UNCHANGED <<firebase, context, router, refused, asked>>

PopupAnswers ==
    /\ popup /\ popup' = FALSE
    /\ (\E a \in Accounts : Change(a)) \/ UNCHANGED firebase
    /\ UNCHANGED <<context, router, refused, asked>>

\* logout().then: navigate.
SignOutTo(p) ==
    /\ leaving = Stay
    /\ Change(Nobody)
    /\ leaving' = p
    /\ UNCHANGED <<context, route, email, refused, popup, asked>>

\* signOut rejects and logout rethrows it.  Nothing of the account has changed,
\* the .then of the effect does not run, and nobody catches.
SignOutFails ==
    /\ refused' = TRUE
    /\ UNCHANGED <<firebase, context, router, popup, asked>>

\* handleLogout catches a sign-out that fails: nothing changes.
Logout ==
    /\ Settled /\ route \in Framed /\ user.role # NoRole
    /\ SignOutTo("/login")

TurnAwayInPlace ==   \* a bug: the account is signed out and not told why
    /\ ToBeTurnedAway
    /\ SignOutTo("/login") \/ SignOutFails

TurnAway ==
    /\ ToBeTurnedAway
    /\ SignOutTo("/pending-approval") \/ SignOutFails

Leave ==
    /\ leaving # Stay
    /\ route' = leaving
    /\ email' = (leaving = "/pending-approval")
    /\ leaving' = Stay /\ refused' = FALSE
    /\ UNCHANGED <<firebase, context, popup, asked>>

Redirect ==
    /\ Redirecting
    /\ route' = Landing /\ email' = FALSE /\ refused' = FALSE
    /\ UNCHANGED <<firebase, context, leaving, popup, asked>>

LinksOf(p) ==
    CASE p = "/" -> {"/login"}
      [] p \in {"/login", "/pending-approval"} -> {"/"}
      [] p \in Framed /\ user.role # NoRole ->
           {"/bookings", "/illumination", "/tv-display", "/hardware"}
             \cup {q \in {"/admin"} : user.role = "admin"}
      [] OTHER -> {}

Follow ==
    /\ Settled
    /\ route' \in LinksOf(route) /\ email' = FALSE /\ refused' = FALSE
    /\ UNCHANGED <<firebase, context, leaving, popup, asked>>

\* The browser's history: an entry of the pending page has its email.
GoBack ==
    /\ Settled
    /\ route' \in Routes \ {route} /\ email' = (route' = "/pending-approval")
    /\ refused' = FALSE
    /\ UNCHANGED <<firebase, context, leaving, popup, asked>>

\* The tab is reloaded, or a path is typed: everything but Firebase's account is
\* gone.  History entries keep their state through a reload.
Open ==
    /\ route' \in Routes
    /\ email' = (email /\ route' = route)
    /\ notice' = TRUE
    /\ waits' = [a \in Accounts |-> 0]
    /\ user' = NoUser /\ loading' = TRUE /\ overtaken' = FALSE
    /\ leaving' = Stay /\ refused' = FALSE /\ popup' = FALSE /\ asked' = FALSE
    /\ UNCHANGED auth

\* A page that is shown asks the backend.
Ask ==
    /\ Settled /\ route \in Protected /\ user.role \in AllowedRoles(route)
    /\ ~asked /\ asked' = TRUE
    /\ UNCHANGED <<firebase, context, router, refused, popup>>

\* An answer 401 signs out whoever is signed in by then.
Answered ==
    /\ asked /\ asked' = FALSE
    /\ Change(Nobody) \/ UNCHANGED firebase
    /\ UNCHANGED <<context, router, refused, popup>>

------------------------------------------------------------------------------
SessionNext ==
    \/ Deliver
    \/ \E a \in Accounts : Claims(a)
    \/ Elsewhere \/ ClickGoogle \/ PopupAnswers
    \/ Logout \/ TurnAway \/ Leave \/ Redirect
    \/ Follow \/ GoBack \/ Open
    \/ Ask \/ Answered

\* Callbacks run and effects and navigations happen; claims come or fail.
\* Nobody has to sign in, to click or to answer.
SessionFairness ==
    /\ WF_sessionVars(Deliver)
    /\ \A a \in Accounts : WF_sessionVars(Claims(a))
    /\ WF_sessionVars(TurnAway) /\ WF_sessionVars(Leave) /\ WF_sessionVars(Redirect)

SessionSpec == SessionInit /\ [][SessionNext]_sessionVars /\ SessionFairness

------------------------------------------------------------------------------
(* Properties. *)

\* The user that the pages see is the account that is signed in, unless what
\* Firebase has to tell of it is on its way: a callback that has not run or that
\* waits for the claims.  Once a callback has overtaken another one
\* (AuthContext sets its user after the await) nothing is promised.
UserIsSignedIn ==
    user # NoUser =>
        \/ user.uid = auth
        \/ notice \/ overtaken
        \/ auth # Nobody /\ waits[auth] > 0

\* The redirects of ProtectedRoute, the login page, the pending page and the
\* dashboard never chase each other for ever, whoever signs in and out.
RedirectsSettle == []<>~Redirecting

\* An account without a role does not get stuck on the empty page that
\* ProtectedRoute shows meanwhile: it is told that its approval is pending, or
\* it has gone, or its role has come.  The exception is a sign-out that fails:
\* neither ProtectedRoute nor the login page catches that or tries again, and the
\* account stays where it is until its user or the route changes.
TurnedAway ==
    Unwelcome ~> \/ route = "/pending-approval" /\ email
                 \/ user = NoUser
                 \/ user.role # NoRole /\ ~Unwelcome
                 \/ refused

==============================================================================
