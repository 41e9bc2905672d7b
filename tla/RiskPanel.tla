----------------------------- MODULE RiskPanel -----------------------------
(***************************************************************************)
(* The live risk of the selected place, as MapContext.tsx keeps it: the    *)
(* place (evalCoords), what is shown for it (liveRisk), the effect React   *)
(* has yet to run after the place changed (due), and the requests on their *)
(* way with the controller each belongs to.  Weather and road risk of the  *)
(* place are asked for and stored by the same effect in the same way.      *)
(***************************************************************************)
EXTENDS Integers, FiniteSets

CONSTANTS
  Places,         \* coordinates the user or an alert can point at
  Nowhere,        \* evalCoords is null
  MaxCalls        \* requests on their way at once

Views ==
  [state : {"idle", "loading", "success", "error"}, of : Places \cup {Nowhere}]

Calls == [of : Places, aborted : BOOLEAN]

Panels ==
  [at : Places \cup {Nowhere}, due : BOOLEAN, liveRisk : Views,
   calls : SUBSET Calls]

View(state, p) == [state |-> state, of |-> p]
Loading == View("loading", Nowhere)

Blank == [at |-> Nowhere, due |-> FALSE, liveRisk |-> View("idle", Nowhere),
          calls |-> {}]

\* Coordinates are a new object each time they are set, so the effect runs
\* even when they point at the same place.
Moved(panel, p) == [panel EXCEPT !.at = p, !.due = TRUE]

\* selectLocation.
SelectLocation(panel, p) ==
  [Moved(panel, p) EXCEPT
     !.liveRisk = IF p = Nowhere THEN View("idle", Nowhere) ELSE Loading]

\* selectHazard of a zone the page knows.
SelectHazard(panel, p) == [Moved(panel, p) EXCEPT !.liveRisk = Loading]

\* selectHazard of an id it does not know: loading, with nothing asked for.
SelectUnknownHazard(panel) == [panel EXCEPT !.liveRisk = Loading]

\* selectHazard(null) leaves what is shown.
CloseHazard(panel) == Moved(panel, Nowhere)

\* The abort that forgets: the requests of the previous place stay in force.
AbortNothing(calls) == calls

Abort(calls) == {[c EXCEPT !.aborted = TRUE] : c \in calls}

\* The effect runs: the clean-up of the last run aborts, then the new place
\* is asked for.
CanRunEffect(panel) == panel.due /\ Cardinality(panel.calls) < MaxCalls

RunEffect(panel) ==
  LET stopped == [panel EXCEPT !.due = FALSE, !.calls = Abort(@)]
  IN IF panel.at = Nowhere THEN stopped
     ELSE [stopped EXCEPT
             !.liveRisk = Loading,
             !.calls = @ \cup {[of |-> panel.at, aborted |-> FALSE]}]

\* An answer, or an error, for a request that may have been aborted.
Answered(panel, call, state) ==
  LET rest == [panel EXCEPT !.calls = @ \ {call}]
  IN IF call.aborted THEN rest
     ELSE [rest EXCEPT !.liveRisk =
             IF state = "success" THEN View("success", call.of)
             ELSE View("error", Nowhere)]

=============================================================================
