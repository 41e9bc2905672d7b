--------------------------- MODULE RealtimeClient ---------------------------
(***************************************************************************)
(* The realtime client of the page, frontend/src/services/realtime.ts: one *)
(* record for the singleton, one operator per method or handler.  A socket *)
(* whose handlers were taken off by _cleanup can tell the page nothing     *)
(* more, so it is "none", like one that has closed.                        *)
(***************************************************************************)
EXTENDS Integers

CONSTANT
  MaxAttempts     \* MAX_RECONNECT_ATTEMPTS, 20 in the code

ASSUME AttemptsAssumption == MaxAttempts \in Nat

Clients ==
  [socket : {"none", "connecting", "open"},
   status : {"CONNECTED", "RECONNECTING", "DISCONNECTED"},
   heartbeat : BOOLEAN,
   timer : BOOLEAN,
   attempts : 0..MaxAttempts,
   intentionalClose : BOOLEAN]

\* The singleton as the module creates it.
Fresh ==
  [socket |-> "none", status |-> "DISCONNECTED", heartbeat |-> FALSE,
   timer |-> FALSE, attempts |-> 0, intentionalClose |-> FALSE]

\* _cleanup with the timers left running: the form a hasty disconnect takes.
CleanupSocket(c) == [c EXCEPT !.heartbeat = FALSE, !.socket = "none"]

Cleanup(c) ==
  [c EXCEPT !.heartbeat = FALSE, !.timer = FALSE, !.socket = "none"]

\* _establishConnection, with the token connect was given.
Establish(c) == [Cleanup(c) EXCEPT !.socket = "connecting"]

Connect(c) == Establish([c EXCEPT !.intentionalClose = FALSE, !.attempts = 0])

Disconnect(c) ==
  [Cleanup(c) EXCEPT !.intentionalClose = TRUE, !.status = "DISCONNECTED"]

OnOpen(c) ==
  [c EXCEPT !.socket = "open", !.attempts = 0, !.status = "CONNECTED",
            !.heartbeat = TRUE]

\* The last attempt is spent: the client stays away until connect is called.
GivenUp(c) ==
  /\ c.socket = "none"
  /\ ~c.timer
  /\ c.attempts = MaxAttempts
  /\ c.status = "DISCONNECTED"

ScheduleReconnect(c) ==
  IF c.attempts >= MaxAttempts
  THEN [c EXCEPT !.status = "DISCONNECTED"]
  ELSE [c EXCEPT !.status = "RECONNECTING", !.attempts = @ + 1, !.timer = TRUE]

\* onclose that takes any close of a working connection for a wanted one.
OnCloseOfFailure(c) ==
  LET closed == [c EXCEPT !.heartbeat = FALSE, !.socket = "none"]
  IN IF c.status # "CONNECTED" THEN ScheduleReconnect(closed)
     ELSE [closed EXCEPT !.status = "DISCONNECTED"]

OnClose(c) ==
  LET closed == [c EXCEPT !.heartbeat = FALSE, !.socket = "none"]
  IN IF c.intentionalClose THEN [closed EXCEPT !.status = "DISCONNECTED"]
     ELSE ScheduleReconnect(closed)

=============================================================================
