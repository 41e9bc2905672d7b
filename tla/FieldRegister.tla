---------------------------- MODULE FieldRegister ----------------------------
(***************************************************************************)
(* What the field observations promise: a register in which each user has  *)
(* at most one report under a key, which keeps its place, its user, its    *)
(* key and its group for ever, is told to be there only when it is, and    *)
(* changes its status only when an official decides.  GroundReports        *)
(* implements it, whatever Redis loses and wherever the process dies.      *)
(***************************************************************************)
EXTENDS Naturals, Sequences

CONSTANTS Users, Keys, NoKey, Verdicts

VARIABLES
    register,   \* [user, key, group, status] in the order of arrival
    told        \* {<<user, key, report>>}: what requests with a key were answered

Init == register = <<>> /\ told = {}

Has(u, k) == \E i \in DOMAIN register : register[i].user = u /\ register[i].key = k

\* A report begins a group, or joins the group of earlier ones as a duplicate.
\* The user may not hear of it.
Enter(u, k) ==
    /\ k # NoKey => ~ Has(u, k)
    /\ LET id == Len(register) + 1
       IN  /\ \E group \in {id} \cup {register[i].group : i \in DOMAIN register} :
                register' = Append(register,
                    [user |-> u, key |-> k, group |-> group,
                     status |-> IF group = id THEN "SUBMITTED" ELSE "DUPLICATE"])
           /\ \/ told' = told
              \/ k # NoKey /\ told' = told \cup {<<u, k, id>>}

Tell(i) ==
    /\ register[i].key # NoKey
    /\ told' = told \cup {<<register[i].user, register[i].key, i>>}
    /\ UNCHANGED register

Decide(i, s) == register' = [register EXCEPT ![i].status = s] /\ UNCHANGED told

Next ==
    \/ \E u \in Users, k \in Keys \cup {NoKey} : Enter(u, k)
    \/ \E i \in DOMAIN register : Tell(i) \/ \E s \in Verdicts : Decide(i, s)

Spec == Init /\ [][Next]_<<register, told>>
=============================================================================
