------------------------------ MODULE UserAdmin ------------------------------
(***************************************************************************)
(* The tab for user management: the list of users is fetched once, and      *)
(* every change of a role or deletion is a request after which the page     *)
(* changes its own list.  The handler keeps the list it was rendered with   *)
(* and writes it back, changed, when the answer comes; only the controls of *)
(* the user that was touched last are disabled meanwhile.                   *)
(***************************************************************************)
EXTENDS Naturals

CONSTANTS
    Uids,
    Roles,      \* the roles of the select, "unassigned" among them
    FirstRole,  \* the role of every user at first
    Me,         \* the admin who uses the page
    Gone,       \* in place of a role: there is no such user
    NoUid,      \* no user
    OpIds       \* bound: requests that are not answered at the same time

VARIABLES
    roles,        \* roles[u]: what Firebase has
    users,        \* users[u]: the row of u on the page, Gone if there is none
    userView,     \* "loading", "error", "shown", or "listed": the answer is on its
                  \* way, and users is what it says
    updatingUser, \* the user whose controls are disabled
    ops,          \* ops[o]: a request that is not answered
    doubtful      \* history: users that somebody else has changed since the list
                  \* was read, whose request failed after it was applied, or
                  \* whose request was under way together with another one

userVars == <<roles, users, userView, updatingUser, ops, doubtful>>

NoRows == [u \in Uids |-> Gone]
Row == [Uids -> Roles \cup {Gone}]
NoOp == [u |-> NoUid, to |-> Gone, seen |-> NoRows, applied |-> FALSE]

ASSUME UserAssumption ==
    /\ NoUid \notin Uids /\ Gone \notin Roles
    /\ Me \in Uids /\ FirstRole \in Roles

Active == {o \in OpIds : ops[o] # NoOp}

UserTypeOK ==
    /\ roles \in Row /\ users \in Row
    /\ userView \in {"loading", "listed", "error", "shown"}
    /\ updatingUser \in Uids \cup {NoUid}
    /\ ops \in [OpIds -> [u : Uids, to : Roles \cup {Gone}, seen : Row, applied : BOOLEAN] \cup {NoOp}]
    /\ doubtful \subseteq Uids

UserInit ==
    /\ roles = [u \in Uids |-> FirstRole]
    /\ users = NoRows
    /\ userView = "loading"
    /\ updatingUser = NoUid
    /\ ops = [o \in OpIds |-> NoOp]
    /\ doubtful = {}

------------------------------------------------------------------------------
\* The backend reads the list.
ListUsers ==
    /\ userView = "loading" /\ userView' = "listed"
    /\ users' = roles
    /\ UNCHANGED <<roles, updatingUser, ops, doubtful>>

\* fetchUsers after its await.
FetchUsers ==
    /\ \/ userView = "listed" /\ userView' = "shown" /\ UNCHANGED users
       \/ userView \in {"loading", "listed"} /\ userView' = "error" /\ users' = NoRows
    /\ UNCHANGED <<roles, updatingUser, ops, doubtful>>

\* Another admin, or a request of an earlier visit that is late.
OthersChange(u, r) ==
    /\ roles[u] \notin {r, Gone}
    /\ roles' = [roles EXCEPT ![u] = r]
    /\ doubtful' = IF userView = "loading" THEN doubtful ELSE doubtful \cup {u}
    /\ UNCHANGED <<users, userView, updatingUser, ops>>

\* A role is chosen, or a deletion is confirmed; the handler keeps the list.
ChangeUser(u, r) ==
    /\ userView = "shown"
    /\ users[u] \notin {r, Gone} /\ updatingUser # u
    /\ updatingUser' = u
    /\ \E o \in OpIds :
         /\ ops[o] = NoOp
         /\ ops' = [ops EXCEPT ![o] = [u |-> u, to |-> r, seen |-> users, applied |-> FALSE]]
    /\ doubtful' = IF Active = {} THEN doubtful ELSE doubtful \cup {u} \cup {ops[o].u : o \in Active}
    /\ UNCHANGED <<roles, users, userView>>

\* The backend: nobody deletes the own account, and nothing is done to a user
\* that is gone.
MayApply(o) ==
    /\ roles[ops[o].u] # Gone
    /\ ~(ops[o].u = Me /\ ops[o].to = Gone)

Apply(o) ==
    /\ ops[o] # NoOp /\ ~ops[o].applied /\ MayApply(o)
    /\ roles' = [roles EXCEPT ![ops[o].u] = ops[o].to]
    /\ ops' = [ops EXCEPT ![o].applied = TRUE]
    /\ UNCHANGED <<users, userView, updatingUser, doubtful>>

Succeed(o) ==
    /\ ops[o].applied
    /\ users' = [ops[o].seen EXCEPT ![ops[o].u] = ops[o].to]
    /\ updatingUser' = NoUid
    /\ ops' = [ops EXCEPT ![o] = NoOp]
    /\ UNCHANGED <<roles, userView, doubtful>>

FailChanging(o) ==   \* a bug: the list is changed whether the request fails or not
    /\ ops[o] # NoOp
    /\ users' = [ops[o].seen EXCEPT ![ops[o].u] = ops[o].to]
    /\ updatingUser' = NoUid
    /\ doubtful' = IF ops[o].applied THEN doubtful \cup {ops[o].u} ELSE doubtful
    /\ ops' = [ops EXCEPT ![o] = NoOp]
    /\ UNCHANGED <<roles, userView>>

\* An error, or no answer: the page cannot know whether it has been applied.
Fail(o) ==
    /\ ops[o] # NoOp
    /\ updatingUser' = NoUid
    /\ doubtful' = IF ops[o].applied THEN doubtful \cup {ops[o].u} ELSE doubtful
    /\ ops' = [ops EXCEPT ![o] = NoOp]
    /\ UNCHANGED <<roles, users, userView>>

UserNext ==
    \/ ListUsers \/ FetchUsers
    \/ \E u \in Uids, r \in Roles \cup {Gone} : OthersChange(u, r) \/ ChangeUser(u, r)
    \/ \E o \in OpIds : Apply(o) \/ Succeed(o) \/ Fail(o)

UserSpec == UserInit /\ [][UserNext]_userVars

------------------------------------------------------------------------------
(* Properties. *)

\* "Update local state to reflect change instantly": as long as requests do not
\* overlap, each row is what Firebase has, or will be when the request under way
\* is answered.  The one row that may differ is that of a doubtful user: the
\* answer of the later of two requests writes back the list as it was before the
\* earlier one was answered.
ListIsTrue ==
    userView = "shown" =>
        \A u \in Uids \ doubtful :
            users[u] = roles[u] \/ \E o \in Active : ops[o].u = u /\ ops[o].applied

==============================================================================
