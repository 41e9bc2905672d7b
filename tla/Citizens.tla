------------------------------ MODULE Citizens ------------------------------
(***************************************************************************)
(* Accounts and Identity composed: users register, log in, set their       *)
(* preferences, verify their identity at two providers and upload          *)
(* evidence, in every order that get_current_user admits.  The counters    *)
(* that only grow are bounded: the audit rows (MaxTrail), the changes of   *)
(* records (MaxCommits), the transactions (MaxIssued) and the files        *)
(* (MaxFiles).                                                             *)
(***************************************************************************)
EXTENDS Identity

CONSTANTS MaxTrail, MaxCommits, MaxIssued, MaxFiles

ASSUME CitizensAssumption == {MaxTrail, MaxCommits, MaxIssued, MaxFiles} \subseteq Nat

vars == <<account, token, row, wish, record, trail, issued, commits, uploads, files, evidence>>

Init == AccountsInit /\ IdentityInit

-----------------------------------------------------------------------------
(* Requests of accounts; the identity tables stay as they are.             *)

Account(u) ==
    /\ \/ Register(u) \/ Login(u) \/ TokenExpires(u) \/ Disable(u)
       \/ \E list \in Lists : UpdateSubscriptions(u, list)
    /\ UNCHANGED identityVars

\* Requests of identity and evidence, by users that get_current_user admits.
\* The client of a user knows the transactions that were issued to it.
Known(u, p) ==
    {Nothing} \cup {n \in DOMAIN issued : issued[n].user = u /\ issued[n].provider = p}

Verify(u) ==
    \E p \in Providers :
        \/ \E consent \in BOOLEAN : StartRefused(u, p, consent) \/ StartVerification(u, p, consent)
        \/ \E tx \in Known(u, p), outcome \in Outcomes(p) : ProcessCallback(u, p, tx, outcome)

Request(u) ==
    /\ Active(u)
    /\ Verify(u) \/ BeginUpload(u)
    /\ UNCHANGED accountVars

\* Uploads that were admitted, and time, go on without the user.
Continue(u) ==
    /\ \/ StoreEvidence(u) \/ StoreCutOff(u) \/ RefuseUpload(u)
       \/ \E p \in Providers : Expire(u, p)
    /\ UNCHANGED accountVars

Bounded ==
    /\ Len(trail') <= MaxTrail /\ commits' <= MaxCommits
    /\ Len(issued') <= MaxIssued
    /\ Cardinality(files') + FoldFunction(+, 0, uploads') <= MaxFiles

Next == \E u \in Users : (Account(u) \/ Request(u) \/ Continue(u)) /\ Bounded

Spec == Init /\ [][Next]_vars

=============================================================================
