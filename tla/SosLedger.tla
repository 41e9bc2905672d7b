------------------------------ MODULE SosLedger ------------------------------
(***************************************************************************)
(* What the SOS service promises, without any of its machinery: a register *)
(* of emergency reports in which a reporter's idempotency key names at     *)
(* most one report, and in which a report only ever moves forward through  *)
(* its lifecycle.  SosNetwork, with one worker process, implements it.     *)
(***************************************************************************)
EXTENDS FiniteSets

CONSTANTS
  Reports,      \* identifiers of SOS reports
  Claims,       \* <<reporter, idempotency key>> pairs
  NoClaim       \* the claim of a report filed without a key

VARIABLES
  status,       \* [Reports -> lifecycle status, or "absent" before filing]
  claim         \* [Reports -> the claim the report was filed under]

ledger == <<status, claim>>

Status == {"ACTIVE", "ACKNOWLEDGED", "RESOLVED", "CANCELLED"}

\* The lifecycle table: which statuses may follow a status.
SOS_VALID_TRANSITIONS ==
  [ACTIVE       |-> {"ACKNOWLEDGED", "RESOLVED", "CANCELLED"},
   ACKNOWLEDGED |-> {"RESOLVED", "CANCELLED"},
   RESOLVED     |-> {},
   CANCELLED    |-> {}]

LedgerTypeOK ==
  /\ status \in [Reports -> Status \cup {"absent"}]
  /\ claim \in [Reports -> Claims \cup {NoClaim}]

Init ==
  /\ status = [r \in Reports |-> "absent"]
  /\ claim = [r \in Reports |-> NoClaim]

\* A report is filed under a claim nobody has used, or under none.
File(r, k) ==
  /\ status[r] = "absent"
  /\ k # NoClaim => \A q \in Reports : status[q] # "absent" => claim[q] # k
  /\ status' = [status EXCEPT ![r] = "ACTIVE"]
  /\ claim' = [claim EXCEPT ![r] = k]

\* A filed report moves along the lifecycle table.
Advance(r, to) ==
  /\ status[r] \in Status
  /\ to \in SOS_VALID_TRANSITIONS[status[r]]
  /\ status' = [status EXCEPT ![r] = to]
  /\ UNCHANGED claim

Next ==
  \E r \in Reports :
    \/ \E k \in Claims \cup {NoClaim} : File(r, k)
    \/ \E to \in Status : Advance(r, to)

Spec == Init /\ [][Next]_ledger

=============================================================================
