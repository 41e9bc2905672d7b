------------------------------ MODULE Accounts ------------------------------
(***************************************************************************)
(* Accounts and preferences: registration and login (app/api/v1/auth.py,   *)
(* app/services/auth) and the notification preferences of a user           *)
(* (app/api/v1/subscriptions.py).  One worker process serves the requests, *)
(* and these handlers have no await between their first statement and      *)
(* their commit, so each of them is one step.                              *)
(***************************************************************************)
EXTENDS Naturals, Sequences, FiniteSetsExt

CONSTANTS Users,    \* people, each with an email address of their own
          Types,    \* notification types
          MaxItems, \* the longest list of an update; the schema allows 10
          Nothing   \* no row

VARIABLES account,  \* [Users -> a status]: the row of users
          token,    \* users who hold an access token
          row,      \* [Users -> [Types -> the choice in alert_subscriptions]]
          wish      \* history: what a user last asked for and was answered

accountVars == <<account, token, row, wish>>

Wishes == {"on", "off"}
Items == [type : Types, choice : Wishes]
Lists == UNION {[1 .. n -> Items] : n \in 1 .. MaxItems}

AccountsInit ==
    /\ account = [u \in Users |-> "absent"]
    /\ token = {}
    /\ row = [u \in Users |-> [t \in Types |-> Nothing]]
    /\ wish = row

\* get_current_user: the token names a user who exists and is not disabled.
Active(u) == u \in token /\ account[u] = "active"

\* register_user refuses an address that is taken, whatever became of the
\* account; the answer carries a token.
Register(u) ==
    /\ account[u] = "absent"
    /\ account' = [account EXCEPT ![u] = "active"]
    /\ token' = token \cup {u}
    /\ UNCHANGED <<row, wish>>

\* A token expires, and a login gives a new one to a user who is not disabled.
Login(u) ==
    /\ account[u] = "active"
    /\ token' = token \cup {u}
    /\ UNCHANGED <<account, row, wish>>

TokenExpires(u) ==
    /\ token' = token \ {u}
    /\ UNCHANGED <<account, row, wish>>

\* An administrator disables or enables the account in the database.
Disable(u) ==
    /\ account[u] # "absent"
    /\ account' = [account EXCEPT ![u] = IF @ = "active" THEN "disabled" ELSE "active"]
    /\ UNCHANGED <<token, row, wish>>

-----------------------------------------------------------------------------
\* The select of an item sees the committed rows only: the session does not
\* flush before a query.
Found(u, t) == row[u][t] # Nothing

\* A type without a row that the list names twice is added twice.
AddedTwice(u, list) ==
    \E i, j \in DOMAIN list :
        i < j /\ list[i].type = list[j].type /\ ~ Found(u, list[i].type)

\* A row after the loop over the items: each item of its type replaces the choice.
AfterItems(choice, list, t) ==
    LET after[n \in 0 .. Len(list)] ==
            IF n = 0 THEN choice
            ELSE IF list[n].type = t THEN list[n].choice ELSE after[n - 1]
    IN  after[Len(list)]

\* Mutation: a row that is found is left as it is.
UpsertedNew(u, list) ==
    [t \in Types |-> IF Found(u, t) THEN row[u][t] ELSE AfterItems(Nothing, list, t)]

\* What was found is changed, and what was not found is added.
Upserted(u, list) == [t \in Types |-> AfterItems(row[u][t], list, t)]

\* One commit for the list.  When a row is added twice the unique index on
\* (user, type) refuses all of it: the request is answered 500 and changes
\* nothing, so only the other lists are steps.
UpdateSubscriptions(u, list) ==
    /\ Active(u)
    /\ ~ AddedTwice(u, list)
    /\ row' = [row EXCEPT ![u] = Upserted(u, list)]
    /\ wish' = [wish EXCEPT ![u] = [t \in Types |->
           IF \E i \in DOMAIN list : list[i].type = t
           THEN list[Max({i \in DOMAIN list : list[i].type = t})].choice
           ELSE @[t]]]
    /\ UNCHANGED <<account, token>>

-----------------------------------------------------------------------------
(* Properties.                                                             *)

\* The preferences in the database are what the user last asked for and was
\* answered 200, through any sequence of lists that change, add and repeat
\* types and of lists that were refused (subscriptions.py:130-170).
PreferencesAreAnswered == row = wish
=============================================================================
