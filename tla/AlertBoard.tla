----------------------------- MODULE AlertBoard ------------------------------
(***************************************************************************)
(* What the alert service promises: a board on which each emergency, named *)
(* by its fingerprint, has at most one ACTIVE alert, and on which an alert *)
(* only moves forward through its lifecycle.  AlertLifecycle, with one     *)
(* worker process, implements it.                                          *)
(***************************************************************************)
CONSTANTS
  Alerts,         \* identifiers of alerts
  Fingerprints    \* what makes two alerts the same emergency

VARIABLES
  status,         \* [Alerts -> lifecycle status, or "absent" before it is raised]
  emergency       \* [Alerts -> fingerprint, or "none" before it is raised]

board == <<status, emergency>>

AlertStatus == {"ACTIVE", "ACKNOWLEDGED", "RESOLVED", "DISMISSED"}

VALID_TRANSITIONS ==
  [ACTIVE       |-> {"ACKNOWLEDGED", "RESOLVED", "DISMISSED"},
   ACKNOWLEDGED |-> {"RESOLVED", "DISMISSED"},
   RESOLVED     |-> {},
   DISMISSED    |-> {}]

Init ==
  /\ status = [a \in Alerts |-> "absent"]
  /\ emergency = [a \in Alerts |-> "none"]

\* An alert is raised when the emergency has no ACTIVE one.
Raise(a, f) ==
  /\ status[a] = "absent"
  /\ \A b \in Alerts : emergency[b] = f => status[b] # "ACTIVE"
  /\ status' = [status EXCEPT ![a] = "ACTIVE"]
  /\ emergency' = [emergency EXCEPT ![a] = f]

Move(a, to) ==
  /\ status[a] \in AlertStatus
  /\ to \in VALID_TRANSITIONS[status[a]]
  /\ status' = [status EXCEPT ![a] = to]
  /\ UNCHANGED emergency

Next ==
  \E a \in Alerts :
    \/ \E f \in Fingerprints : Raise(a, f)
    \/ \E to \in AlertStatus : Move(a, to)

Spec == Init /\ [][Next]_board

=============================================================================
