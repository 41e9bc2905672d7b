----------------------------- MODULE WebClient -----------------------------
(***************************************************************************)
(* The page of the web client between the server and the user: the alerts  *)
(* the server commits and broadcasts, the connection they travel on, the   *)
(* realtime client with its reconnects and its reconciliation over REST,   *)
(* and the panel that alerts and the user both move.                       *)
(*                                                                         *)
(* Alerts carry the numbers in which they were created.  Those of an SOS   *)
(* are announced on the socket; those of /alerts/generate never are.       *)
(***************************************************************************)
EXTENDS RealtimeClient, RiskPanel, Sequences, FiniteSetsExt

CONSTANTS
  Alerts,         \* 1..n
  Announced,      \* those raised for an SOS
  Critical,       \* those of severity CRITICAL
  Place,          \* where an alert is
  PageSize,       \* the limit of the reconciliation, 20 in the code
  MaxActs,        \* what the user does: selections, switches of the sound
  InFlight        \* reconciliations on their way at once

ASSUME AlertsAssumption ==
  /\ Alerts \subseteq Nat
  /\ Announced \subseteq Alerts /\ Critical \subseteq Alerts
  /\ Place \in [Alerts -> Places] /\ Nowhere \notin Places
  /\ PageSize \in Nat \ {0} /\ InFlight \in Nat \ {0}

VARIABLES
  board,          \* alert -> "none", "ACTIVE" or "CLOSED", as committed
  publishing,     \* committed for an SOS and not yet broadcast
  up,             \* the network and the server answer
  linked,         \* the server has the page's socket in its registry
  wire,           \* what it has sent on that socket
  client,         \* the realtime client
  fetches,        \* reconciliations on their way
  told,           \* alerts the listeners of the page were told of
  panel,
  acts,
  unsent,         \* history: alerts no socket of this page's worker was sent
  listed          \* history: the board as the reconciliation of this
                  \* connection found it, or Unlisted

server == <<board, publishing, unsent>>
page == <<fetches, told, panel, listed>>
vars == <<board, publishing, up, linked, wire, client, fetches, told, panel,
          acts, unsent, listed>>

Unlisted == [known |-> FALSE, active |-> {}, page |-> {}, all |-> {}]

Raised == {a \in Alerts : board[a] # "none"}
Active == {a \in Alerts : board[a] = "ACTIVE"}

\* list_alerts: ACTIVE, newest first, up to the limit.
ListAlerts == {a \in Active : Cardinality({b \in Active : b >= a}) <= PageSize}

Init ==
  /\ board = [a \in Alerts |-> "none"] /\ publishing = {} /\ unsent = {}
  /\ up = TRUE /\ linked = FALSE /\ wire = <<>>
  /\ client = Connect(Fresh) /\ fetches = {} /\ told = {} /\ panel = Blank
  /\ acts = 0 /\ listed = Unlisted

-----------------------------------------------------------------------------
(* The server *)

\* An alert is committed; the event of an SOS goes out in a later step.
AlertRaised ==
  \E a \in Alerts :
    /\ board[a] = "none" /\ \A b \in Alerts : b < a => board[b] # "none"
    /\ board' = [board EXCEPT ![a] = "ACTIVE"]
    /\ IF a \in Announced
       THEN publishing' = publishing \cup {a} /\ UNCHANGED unsent
       ELSE unsent' = unsent \cup {a} /\ UNCHANGED publishing
    /\ UNCHANGED <<up, linked, wire, client, page, acts>>

\* broadcast_json reaches the registered socket, or is cut short before it.
Published(a) ==
  /\ a \in publishing
  /\ publishing' = publishing \ {a}
  /\ \/ /\ wire' = IF linked THEN Append(wire, a) ELSE wire
        /\ UNCHANGED unsent
     \/ unsent' = unsent \cup {a} /\ UNCHANGED wire
  /\ UNCHANGED <<board, up, linked, client, page, acts>>

\* Acknowledged, resolved or dismissed: off the list of the active ones.
AlertClosed(a) ==
  /\ board[a] = "ACTIVE"
  /\ board' = [board EXCEPT ![a] = "CLOSED"]
  /\ UNCHANGED <<publishing, unsent, up, linked, wire, client, page, acts>>

-----------------------------------------------------------------------------
(* The connection *)

\* accept and registration come before the page hears that it is connected.
Accepted ==
  /\ up /\ client.socket = "connecting" /\ ~linked
  /\ linked' = TRUE
  /\ UNCHANGED <<server, up, wire, client, page, acts>>

NetworkChanges ==
  /\ up' = ~up
  /\ UNCHANGED <<server, linked, wire, client, page, acts>>

\* What is on the wire is lost with the connection.  A handshake fails at
\* once; an open socket looks open until somebody writes to it.
ConnectionLost ==
  /\ ~up /\ linked
  /\ linked' = FALSE /\ wire' = <<>>
  /\ client' = IF client.socket = "connecting" THEN OnClose(client) ELSE client
  /\ UNCHANGED <<server, up, page, acts>>

Refused ==
  /\ ~up /\ client.socket = "connecting" /\ ~linked
  /\ client' = OnClose(client)
  /\ UNCHANGED <<server, up, linked, wire, page, acts>>

-----------------------------------------------------------------------------
(* The realtime client *)

Reconciliation == [mine : BOOLEAN, answered : BOOLEAN, page : SUBSET Alerts,
                   active : SUBSET Alerts, all : SUBSET Alerts]

Asked == [mine |-> TRUE, answered |-> FALSE, page |-> {}, active |-> {},
          all |-> {}]

\* A fetch belongs to the connection that was open when it was sent.
Orphans == {[f EXCEPT !.mine = FALSE] : f \in fetches}

\* Asking as soon as the socket is made, before the server has registered it.
ReconcileEarly ==
  /\ client.timer
  /\ Cardinality(fetches) < InFlight
  /\ client' = Establish(client)
  /\ fetches' = Orphans \cup {Asked}
  /\ listed' = Unlisted
  /\ linked' = FALSE /\ wire' = <<>>
  /\ UNCHANGED <<server, up, told, panel, acts>>

TimerFires ==
  /\ client.timer
  /\ client' = Establish(client)
  /\ fetches' = Orphans
  /\ listed' = Unlisted
  /\ linked' = FALSE /\ wire' = <<>>
  /\ UNCHANGED <<server, up, told, panel, acts>>

\* onopen: connected, the heartbeat runs, and the active alerts are asked for.
Opened ==
  /\ linked /\ client.socket = "connecting"
  /\ Cardinality(fetches) < InFlight
  /\ client' = OnOpen(client)
  /\ fetches' = fetches \cup {Asked}
  /\ UNCHANGED <<server, up, linked, wire, told, panel, listed, acts>>

\* A ping fails and the browser closes the socket.
Noticed ==
  /\ client.socket = "open" /\ ~linked /\ client.heartbeat
  /\ client' = OnClose(client)
  /\ fetches' = Orphans /\ listed' = Unlisted
  /\ UNCHANGED <<server, up, linked, wire, told, panel, acts>>

\* The effect of MapContext runs again, as when the sound is switched: its
\* clean-up disconnects, its body connects.
Restarted ==
  /\ acts < MaxActs /\ acts' = acts + 1
  /\ client' = Connect(Disconnect(client))
  /\ linked' = FALSE /\ wire' = <<>>
  /\ fetches' = Orphans /\ listed' = Unlisted
  /\ UNCHANGED <<server, up, told, panel>>

\* The listeners are told of alerts, in order; the last one whose event moves
\* the map decides where it points.
Hear(events, movers) ==
  /\ told' = told \cup events
  /\ panel' = IF movers = {} THEN panel ELSE Moved(panel, Place[Min(movers)])

\* onmessage: the event of an SOS moves the map whatever its severity.
Received ==
  /\ wire # <<>> /\ client.socket = "open"
  /\ wire' = Tail(wire)
  /\ Hear({Head(wire)}, {Head(wire)})
  /\ UNCHANGED <<server, up, linked, client, fetches, listed, acts>>

FetchAnswered(f) ==
  /\ up /\ f \in fetches /\ ~f.answered
  /\ fetches' = (fetches \ {f}) \cup
       {[f EXCEPT !.answered = TRUE, !.page = ListAlerts, !.active = Active,
                  !.all = Raised]}
  /\ UNCHANGED <<server, up, linked, wire, client, told, panel, listed,
                 acts>>

\* Best effort: a failed reconciliation is not repeated on this connection.
FetchFailed(f) ==
  /\ f \in fetches
  /\ fetches' = fetches \ {f}
  /\ UNCHANGED <<server, up, linked, wire, client, told, panel, listed,
                 acts>>

\* Synthetic events, newest first: of those, CRITICAL ones move the map.
FetchHandled(f) ==
  /\ f \in fetches /\ f.answered
  /\ fetches' = fetches \ {f}
  /\ Hear(f.page, f.page \cap Critical)
  /\ listed' = IF f.mine
               THEN [known |-> TRUE, active |-> f.active, page |-> f.page,
                     all |-> f.all]
               ELSE listed
  /\ UNCHANGED <<server, up, linked, wire, client, acts>>

-----------------------------------------------------------------------------
(* The panel *)

PanelMoves(p) ==
  /\ panel' = p
  /\ UNCHANGED <<server, up, linked, wire, client, fetches, told, listed>>

Picked ==
  /\ acts < MaxActs /\ acts' = acts + 1
  /\ \/ \E p \in Places \cup {Nowhere} : PanelMoves(SelectLocation(panel, p))
     \/ \E p \in Places : PanelMoves(SelectHazard(panel, p))
     \/ PanelMoves(SelectUnknownHazard(panel))
     \/ PanelMoves(CloseHazard(panel))

EffectRuns ==
  /\ CanRunEffect(panel) /\ PanelMoves(RunEffect(panel)) /\ UNCHANGED acts

RiskAnswered ==
  \E call \in panel.calls :
    /\ up /\ PanelMoves(Answered(panel, call, "success")) /\ UNCHANGED acts

RiskFailed ==
  \E call \in panel.calls :
    PanelMoves(Answered(panel, call, "error")) /\ UNCHANGED acts

-----------------------------------------------------------------------------
ServerNext == AlertRaised \/ \E a \in Alerts : Published(a) \/ AlertClosed(a)
LineNext == Accepted \/ NetworkChanges \/ ConnectionLost \/ Refused
Ends == \E f \in fetches : FetchFailed(f) \/ FetchHandled(f)
ClientNext ==
  \/ TimerFires \/ Opened \/ Noticed \/ Restarted \/ Received
  \/ \E f \in fetches : FetchAnswered(f)
  \/ Ends
PanelNext == Picked \/ EffectRuns \/ RiskAnswered \/ RiskFailed

Next == ServerNext \/ LineNext \/ ClientNext \/ PanelNext

\* The server accepts, TCP gives up on a dead connection, the browser fires
\* its timers and events, and a request ends within its fifteen seconds.
Fairness ==
  /\ WF_vars(Accepted) /\ WF_vars(Refused) /\ WF_vars(ConnectionLost)
  /\ WF_vars(TimerFires) /\ WF_vars(Opened) /\ WF_vars(Noticed)
  /\ WF_vars(Ends)

Spec == Init /\ [][Next]_vars /\ Fairness

-----------------------------------------------------------------------------
TypeOK ==
  /\ board \in [Alerts -> {"none", "ACTIVE", "CLOSED"}]
  /\ client \in Clients /\ panel \in Panels
  /\ fetches \subseteq Reconciliation
  /\ told \subseteq Raised /\ publishing \subseteq Announced
  /\ wire \in Seq(Announced) /\ acts \in 0..MaxActs

\* A reconnect that is planned never stands beside a connection that is there
\* (it would tear it down), and a client that was told to stay away has
\* neither: the timers and sockets of realtime.ts over failures, restarts of
\* the effect and closes in any order.
OneWayIn ==
  /\ ~(client.timer /\ client.socket # "none")
  /\ client.status = "CONNECTED" => client.socket = "open"
  /\ client.timer => client.status = "RECONNECTING"

Settled ==
  /\ linked /\ client.socket = "open"
  /\ listed.known /\ wire = <<>> /\ publishing = {}

\* Once a connection is up and its reconciliation was heard, the page knows of
\* every active alert, whatever was raised while it was away, during the
\* handshake or during the fetch: except those that stood behind the limit of
\* the list, and those raised since whose event was not sent.
NoActiveAlertMissed ==
  Settled =>
    \A a \in Active :
      \/ a \in told
      \/ a \in listed.active \ listed.page
      \/ a \in unsent \ listed.all

\* What the panel shows for a place was computed for that place, whoever moved
\* the panel while requests were on their way.
LiveRiskIsOfPlace ==
  (~panel.due /\ panel.at # Nowhere /\ panel.liveRisk.state = "success")
     => panel.liveRisk.of = panel.at

\* When the network stays, the client is served again or has spent its
\* attempts: no order of closes, timers and handshakes leaves it half open.
ComesBack ==
  <>[]up => <>[]((client.status = "CONNECTED" /\ linked) \/ GivenUp(client))

=============================================================================
