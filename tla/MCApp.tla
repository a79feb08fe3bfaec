-------------------------------- MODULE MCApp --------------------------------
(* App with two accounts, and a small instance of each page. *)
EXTENDS App

CONSTANTS x, y

MCAccounts == {x, y}
\* x may have been given its role or not; y's may be one that the pages do not know.
MCRolesOf ==
    [a \in MCAccounts |-> IF a = x THEN {"admin", NoRole} ELSE {"staff", "tv", UnknownRole}]

\* A session, the same one cut short, and the next one; 10 and 3 minutes are
\* 4 and 2 seconds here.
MCSessions ==
    {[start |-> 1, end |-> 11], [start |-> 1, end |-> 14], [start |-> 12, end |-> 15]}
==============================================================================
