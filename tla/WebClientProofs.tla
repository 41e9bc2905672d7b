-------------------------- MODULE WebClientProofs --------------------------
(***************************************************************************)
(* Proofs about the two halves of the web client, which share no state.    *)
(*                                                                         *)
(* WebClient, for any alerts, page size, number of attempts and places:    *)
(* the connections of the realtime client never stand in each other's way, *)
(* between the broadcast and the reconciliation no active alert is missed, *)
(* and the panel shows the risk of the place it is at.  The argument: an   *)
(* alert raised after the reconciliation of a connection was answered      *)
(* finds the socket in the registry, because the socket was registered     *)
(* before the page asked; one raised before is on the list or closed.      *)
(* Whatever breaks the link ends the connection's claim to both.  A panel  *)
(* that moves leaves no call behind that could answer for another place.   *)
(*                                                                         *)
(* OfflineQueue, for any number of tabs, items and faults: no queued item  *)
(* is lost, and a report counts once.  The argument: a run removes an      *)
(* entry only from phase "accepted", which it enters when the server has   *)
(* stored the item (RunInv), and the server never forgets a row; a slower  *)
(* tab can only put an entry back.                                         *)
(***************************************************************************)
EXTENDS WebClient, OfflineQueue, WellFoundedInduction, TLAPS

Statuses == {"none", "ACTIVE", "CLOSED"}
Lists == [known : BOOLEAN, active : SUBSET Alerts, page : SUBSET Alerts,
          all : SUBSET Alerts]

\* Alerts that have reached the page, or are on their way there, or that no
\* broadcast of this worker carries.
Sighted == told \cup publishing \cup {wire[i] : i \in DOMAIN wire} \cup unsent

\* What a list says that was made on the connection that is up: what it leaves
\* out was raised later and is in sight, and what it has and is still active
\* was active then.
Covers(list) ==
  /\ list.all \subseteq Raised
  /\ Raised \ list.all \subseteq Sighted
  /\ list.all \cap Active \subseteq list.active

\* A connection and a plan to make one exclude each other.
Way(c) ==
  /\ ~(c.timer /\ c.socket # "none")
  /\ c.status = "CONNECTED" => c.socket = "open"
  /\ c.timer => c.status = "RECONNECTING"

Typed ==
  /\ board \in [Alerts -> Statuses]
  /\ wire \in Seq(Alerts)
  /\ client \in Clients
  /\ fetches \subseteq Reconciliation
  /\ listed \in Lists

\* Only an open connection has asked for its reconciliation.
AskedWhenOpen ==
  client.socket # "open" => (~listed.known /\ \A f \in fetches : ~f.mine)

FetchesCover == linked => \A f \in fetches : (f.mine /\ f.answered) => Covers(f)

ListedCovers ==
  listed.known => (listed.page \subseteq told /\ (linked => Covers(listed)))

CInv == Typed /\ Way(client) /\ AskedWhenOpen /\ FetchesCover /\ ListedCovers

(***************************************************************************)
(* The methods of the realtime client.                                     *)
(***************************************************************************)

(* _cleanup forgets the timer and the socket. *)
LEMMA CleanupFields ==
  ASSUME NEW c \in Clients
  PROVE  /\ Cleanup(c) \in Clients
         /\ Cleanup(c).socket = "none" /\ Cleanup(c).timer = FALSE
         /\ Cleanup(c).status = c.status
  BY DEF Cleanup, Clients

(* A connection attempt leaves no timer behind it. *)
LEMMA EstablishFields ==
  ASSUME NEW c \in Clients, c.status # "CONNECTED"
  PROVE  /\ Establish(c) \in Clients
         /\ Establish(c).socket = "connecting"
         /\ Way(Establish(c))
<1> DEFINE k == Cleanup(c)
<1>1. k \in Clients /\ k.timer = FALSE /\ k.status # "CONNECTED"
  BY CleanupFields
<1> HIDE DEF k
<1> DEFINE m == [k EXCEPT !.socket = "connecting"]
<1>2. m \in Clients /\ m.socket = "connecting" /\ m.timer = FALSE /\ m.status # "CONNECTED"
  BY <1>1 DEF Clients
<1> HIDE DEF m
<1>3. Way(m)
  BY <1>2 DEF Way
<1>4. m = Establish(c)
  BY DEF m, k, Establish
<1> QED
  BY <1>2, <1>3, <1>4

(* disconnect followed by connect, as when the effect of the page runs again. *)
LEMMA RestartFields ==
  ASSUME NEW c \in Clients
  PROVE  /\ Connect(Disconnect(c)) \in Clients
         /\ Connect(Disconnect(c)).socket = "connecting"
         /\ Way(Connect(Disconnect(c)))
<1> DEFINE k == Cleanup(c)
<1>1. k \in Clients
  BY CleanupFields
<1> HIDE DEF k
<1> DEFINE k2 == [k EXCEPT !.intentionalClose = TRUE]
<1>2. k2 \in Clients
  BY <1>1 DEF Clients
<1> HIDE DEF k2
<1> DEFINE d == [k2 EXCEPT !.status = "DISCONNECTED"]
<1>3. d \in Clients /\ d.status = "DISCONNECTED"
  BY <1>2 DEF Clients
<1> HIDE DEF d
<1> DEFINE d2 == [d EXCEPT !.intentionalClose = FALSE]
<1>4. d2 \in Clients /\ d2.status = "DISCONNECTED"
  BY <1>3 DEF Clients
<1> HIDE DEF d2
<1> DEFINE e == [d2 EXCEPT !.attempts = 0]
<1>5. 0 \in 0..MaxAttempts
  BY AttemptsAssumption DEF AttemptsAssumption
<1>6. e \in Clients /\ e.status = "DISCONNECTED"
  BY <1>4, <1>5 DEF Clients
<1> HIDE DEF e
<1>7. /\ Establish(e) \in Clients
      /\ Establish(e).socket = "connecting"
      /\ Way(Establish(e))
  BY <1>6, EstablishFields
<1>8. Connect(Disconnect(c)) = Establish(e)
  BY Zenon DEF Connect, Disconnect, e, d2, d, k2, k
<1> QED
  BY <1>7, <1>8

(* onopen. *)
LEMMA OpenFields ==
  ASSUME NEW c \in Clients, c.socket = "connecting", Way(c)
  PROVE  OnOpen(c) \in Clients /\ OnOpen(c).socket = "open" /\ Way(OnOpen(c))
<1>1. c.timer = FALSE
  BY DEF Way, Clients
<1> DEFINE k1 == [c EXCEPT !.socket = "open"]
<1>2. k1 \in Clients /\ k1.socket = "open" /\ k1.timer = FALSE
  BY <1>1 DEF Clients
<1> HIDE DEF k1
<1> DEFINE k2 == [k1 EXCEPT !.attempts = 0]
<1>3. 0 \in 0..MaxAttempts
  BY AttemptsAssumption DEF AttemptsAssumption
<1>4. k2 \in Clients /\ k2.socket = "open" /\ k2.timer = FALSE
  BY <1>2, <1>3 DEF Clients
<1> HIDE DEF k2
<1> DEFINE k3 == [k2 EXCEPT !.status = "CONNECTED"]
<1>5. k3 \in Clients /\ k3.socket = "open" /\ k3.timer = FALSE
  BY <1>4 DEF Clients
<1> HIDE DEF k3
<1> DEFINE k4 == [k3 EXCEPT !.heartbeat = TRUE]
<1>6. k4 \in Clients /\ k4.socket = "open" /\ k4.timer = FALSE
  BY <1>5 DEF Clients
<1> HIDE DEF k4
<1>7. OnOpen(c) = k4
  BY Zenon DEF OnOpen, k4, k3, k2, k1
<1> QED
  BY <1>6, <1>7 DEF Way

(* After a close the client has a timer, or none and no connection. *)
LEMMA CloseFields ==
  ASSUME NEW c \in Clients, c.socket # "none", Way(c)
  PROVE  OnClose(c) \in Clients /\ OnClose(c).socket = "none" /\ Way(OnClose(c))
<1> DEFINE h == [c EXCEPT !.heartbeat = FALSE]
<1>1. h \in Clients /\ h.timer = FALSE
  BY DEF Clients, Way
<1> HIDE DEF h
<1> DEFINE k == [h EXCEPT !.socket = "none"]
<1>2. k \in Clients /\ k.socket = "none" /\ k.timer = FALSE
  BY <1>1 DEF Clients
<1> HIDE DEF k
<1> DEFINE quiet == [k EXCEPT !.status = "DISCONNECTED"]
           r1 == [k EXCEPT !.status = "RECONNECTING"]
<1>3. quiet \in Clients /\ quiet.socket = "none" /\ quiet.timer = FALSE
      /\ quiet.status = "DISCONNECTED"
  BY <1>2 DEF Clients
<1>4. r1 \in Clients /\ r1.socket = "none" /\ r1.status = "RECONNECTING"
      /\ r1.attempts = k.attempts
  BY <1>2 DEF Clients
<1> HIDE DEF quiet, r1
<1> DEFINE r2 == [r1 EXCEPT !.attempts = @ + 1]
           again == [r2 EXCEPT !.timer = TRUE]
<1>5. ASSUME ~(k.attempts >= MaxAttempts)
      PROVE  again \in Clients /\ again.socket = "none" /\ again.status = "RECONNECTING"
  <2>1. r1.attempts + 1 \in 0..MaxAttempts
    BY <1>2, <1>4, <1>5, AttemptsAssumption DEF Clients, AttemptsAssumption
  <2>2. r2 \in Clients /\ r2.socket = "none" /\ r2.status = "RECONNECTING"
    BY <1>4, <2>1 DEF Clients
  <2> HIDE DEF r2
  <2> QED
    BY <2>2 DEF Clients
<1>6. OnClose(c) = quiet \/ (~(k.attempts >= MaxAttempts) /\ OnClose(c) = again)
  BY Zenon DEF OnClose, ScheduleReconnect, quiet, again, r2, r1, k, h
<1> HIDE DEF again
<1> QED
  BY <1>3, <1>5, <1>6 DEF Way

(***************************************************************************)
(* The kinds of step.                                                      *)
(***************************************************************************)

\* What a step of the server or of an open connection does for every list made
\* on it: nothing in sight is lost, and what is raised now is in sight.
Kept ==
  /\ Raised \subseteq Raised'
  /\ Raised' \ Raised \subseteq Sighted'
  /\ Sighted \subseteq Sighted'
  /\ Active' \cap Raised \subseteq Active

(* A step that keeps what is in sight keeps what the lists cover. *)
LEMMA KeptCovers ==
  ASSUME NEW list, Kept, Covers(list)
  PROVE  /\ list.all \subseteq Raised'
         /\ Raised' \ list.all \subseteq Sighted'
         /\ list.all \cap Active' \subseteq list.active
  BY DEF Kept, Covers

(* A step beside the client: alerts move, the connection and its lists stay. *)
LEMMA BesideClient ==
  ASSUME CInv, Typed', UNCHANGED <<client, fetches, listed, linked>>,
         told \subseteq told', linked => Kept
  PROVE  CInv'
<1>1. Way(client)' /\ AskedWhenOpen'
  BY DEF CInv, Way, AskedWhenOpen
<1>2. FetchesCover'
  BY DEF CInv, FetchesCover, Kept, Covers
<1>3. ListedCovers'
  BY DEF CInv, ListedCovers, Kept, Covers
<1> QED
  BY <1>1, <1>2, <1>3 DEF CInv

(* The fetches of a connection that is gone keep their form. *)
LEMMA OrphansAreTyped ==
  ASSUME fetches \subseteq Reconciliation
  PROVE  Orphans \subseteq Reconciliation /\ \A f \in Orphans : ~f.mine
<1>1. ASSUME NEW f \in Reconciliation
      PROVE  [f EXCEPT !.mine = FALSE] \in Reconciliation
             /\ ~[f EXCEPT !.mine = FALSE].mine
  BY DEF Reconciliation
<1> QED
  BY <1>1 DEF Orphans

LEMMA UnlistedIsTyped == Unlisted \in Lists /\ ~Unlisted.known
  BY DEF Unlisted, Lists

(* A step after which no connection is up that has asked for anything. *)
LEMMA Disconnected ==
  ASSUME CInv, UNCHANGED board, wire' \in Seq(Alerts),
         client' \in Clients, Way(client'),
         fetches' = Orphans, listed' = Unlisted
  PROVE  CInv'
<1>1. fetches' \subseteq Reconciliation /\ \A f \in fetches' : ~f.mine
  BY OrphansAreTyped DEF CInv, Typed
<1>2. listed' \in Lists /\ ~listed'.known
  BY UnlistedIsTyped
<1>3. Typed'
  BY <1>1, <1>2 DEF CInv, Typed
<1>4. Way(client)'
  BY DEF Way
<1>5. AskedWhenOpen' /\ FetchesCover' /\ ListedCovers'
  BY <1>1, <1>2 DEF AskedWhenOpen, FetchesCover, ListedCovers
<1> QED
  BY <1>3, <1>4, <1>5 DEF CInv

(***************************************************************************)
(* The actions.                                                            *)
(***************************************************************************)

LEMMA InitCInv == Init => CInv
<1> SUFFICES ASSUME Init PROVE CInv
  OBVIOUS
<1>1. Fresh \in Clients /\ Fresh.status = "DISCONNECTED"
  <2>1. 0 \in 0..MaxAttempts
    BY AttemptsAssumption DEF AttemptsAssumption
  <2> QED
    BY <2>1 DEF Fresh, Clients
<1>2. client \in Clients /\ Way(client)
  <2> DEFINE d2 == [Fresh EXCEPT !.intentionalClose = FALSE]
  <2>1. d2 \in Clients /\ d2.status = "DISCONNECTED"
    BY <1>1 DEF Clients
  <2> HIDE DEF d2
  <2> DEFINE e == [d2 EXCEPT !.attempts = 0]
  <2>2. 0 \in 0..MaxAttempts
    BY AttemptsAssumption DEF AttemptsAssumption
  <2>3. e \in Clients /\ e.status = "DISCONNECTED"
    BY <2>1, <2>2 DEF Clients
  <2> HIDE DEF e
  <2>4. Establish(e) \in Clients /\ Way(Establish(e))
    BY <2>3, EstablishFields
  <2>5. client = Establish(e)
    BY Zenon DEF Init, Connect, e, d2
  <2> QED
    BY <2>4, <2>5
<1>3. Typed
  <2>1. board \in [Alerts -> Statuses]
    BY DEF Init, Statuses
  <2>2. wire \in Seq(Alerts) /\ fetches \subseteq Reconciliation /\ listed \in Lists
    BY UnlistedIsTyped DEF Init
  <2> QED
    BY <1>2, <2>1, <2>2 DEF Typed
<1>4. ~listed.known /\ fetches = {}
  BY UnlistedIsTyped DEF Init
<1> QED
  BY <1>2, <1>3, <1>4 DEF CInv, AskedWhenOpen, FetchesCover, ListedCovers

LEMMA StutterKeeps == CInv /\ UNCHANGED vars => CInv'
<1> SUFFICES ASSUME CInv, UNCHANGED vars PROVE CInv'
  OBVIOUS
<1>1. UNCHANGED <<board, publishing, linked, wire, client, fetches, told, unsent, listed>>
  BY DEF vars
<1>2. Typed'
  BY <1>1 DEF CInv, Typed
<1>3. Kept
  BY <1>1 DEF Kept, Raised, Active, Sighted
<1> QED
  BY <1>1, <1>2, <1>3, BesideClient

LEMMA AlertRaisedKeeps == CInv /\ AlertRaised => CInv'
<1> SUFFICES ASSUME CInv, NEW a \in Alerts, board[a] = "none",
                    board' = [board EXCEPT ![a] = "ACTIVE"],
                    IF a \in Announced
                    THEN publishing' = publishing \cup {a} /\ UNCHANGED unsent
                    ELSE unsent' = unsent \cup {a} /\ UNCHANGED publishing,
                    UNCHANGED <<up, linked, wire, client, page, acts>>
             PROVE  CInv'
  BY DEF AlertRaised
<1>1. UNCHANGED <<linked, wire, client, fetches, told, listed>>
  BY DEF page
<1>2. board \in [Alerts -> Statuses]
  BY DEF CInv, Typed
<1>3. board' \in [Alerts -> Statuses]
  BY <1>2 DEF Statuses
<1>4. Typed'
  BY <1>1, <1>3 DEF CInv, Typed
<1>5. \A b \in Alerts : board'[b] = IF b = a THEN "ACTIVE" ELSE board[b]
  BY <1>2
<1>6. Raised' = Raised \cup {a} /\ Active' = Active \cup {a} /\ a \notin Raised
  BY <1>5 DEF Raised, Active
<1>7. Sighted' = Sighted \cup {a}
  BY <1>1 DEF Sighted
<1>8. Kept
  BY <1>6, <1>7 DEF Kept
<1> QED
  BY <1>1, <1>4, <1>8, BesideClient

LEMMA AlertClosedKeeps == ASSUME NEW a \in Alerts PROVE CInv /\ AlertClosed(a) => CInv'
<1> SUFFICES ASSUME CInv, AlertClosed(a) PROVE CInv'
  OBVIOUS
<1>1. UNCHANGED <<publishing, linked, wire, client, fetches, told, unsent, listed>>
  BY DEF AlertClosed, page
<1>2. board \in [Alerts -> Statuses] /\ board[a] = "ACTIVE"
  BY DEF CInv, Typed, AlertClosed
<1>3. board' = [board EXCEPT ![a] = "CLOSED"]
  BY DEF AlertClosed
<1>4. board' \in [Alerts -> Statuses]
  BY <1>2, <1>3 DEF Statuses
<1>5. Typed'
  BY <1>1, <1>4 DEF CInv, Typed
<1>6. \A b \in Alerts : board'[b] = IF b = a THEN "CLOSED" ELSE board[b]
  BY <1>2, <1>3
<1>7. Raised' = Raised /\ Active' \subseteq Active
  BY <1>2, <1>6 DEF Raised, Active
<1>8. Kept
  BY <1>1, <1>7 DEF Kept, Sighted
<1> QED
  BY <1>1, <1>5, <1>8, BesideClient

(* What is sent on the socket stays in sight; what was on the wire, too. *)
LEMMA PublishedKeeps == ASSUME NEW a \in Alerts PROVE CInv /\ Published(a) => CInv'
<1> SUFFICES ASSUME CInv, Published(a) PROVE CInv'
  OBVIOUS
<1>1. UNCHANGED <<board, linked, client, fetches, told, listed>>
  BY DEF Published, page
<1>2. wire \in Seq(Alerts)
  BY DEF CInv, Typed
<1>3. publishing' = publishing \ {a}
  BY DEF Published
<1>4. \/ wire' = (IF linked THEN Append(wire, a) ELSE wire) /\ UNCHANGED unsent
      \/ unsent' = unsent \cup {a} /\ UNCHANGED wire
  BY DEF Published
<1>5. wire' \in Seq(Alerts)
  BY <1>2, <1>4
<1>6. Typed'
  BY <1>1, <1>5 DEF CInv, Typed
<1>7. ASSUME linked PROVE Sighted \subseteq Sighted'
  <2>1. CASE wire' = Append(wire, a) /\ UNCHANGED unsent
    <3>1. /\ \A i \in DOMAIN wire : i \in DOMAIN wire' /\ wire'[i] = wire[i]
          /\ Len(wire) + 1 \in DOMAIN wire' /\ wire'[Len(wire) + 1] = a
      BY <1>2, <2>1
    <3>2. {wire[i] : i \in DOMAIN wire} \subseteq {wire'[i] : i \in DOMAIN wire'}
      BY <3>1
    <3>3. a \in {wire'[i] : i \in DOMAIN wire'}
      BY <3>1
    <3> QED
      BY <1>1, <1>3, <2>1, <3>2, <3>3 DEF Sighted
  <2>2. CASE unsent' = unsent \cup {a} /\ UNCHANGED wire
    BY <1>1, <1>3, <2>2 DEF Sighted
  <2> QED
    BY <1>4, <1>7, <2>1, <2>2
<1>8. linked => Kept
  BY <1>1, <1>7 DEF Kept, Raised, Active
<1> QED
  BY <1>1, <1>6, <1>8, BesideClient

(* What the page takes off the wire it was told of. *)
LEMMA ReceivedKeeps == CInv /\ Received => CInv'
<1> SUFFICES ASSUME CInv, Received PROVE CInv'
  OBVIOUS
<1>1. UNCHANGED <<board, publishing, unsent, linked, client, fetches, listed>>
  BY DEF Received, server
<1>2. wire \in Seq(Alerts) /\ wire # <<>> /\ wire' = Tail(wire)
  BY DEF CInv, Typed, Received
<1>3. told' = told \cup {Head(wire)}
  BY DEF Received, Hear
<1>4. wire' \in Seq(Alerts)
  BY <1>2
<1>5. Typed'
  BY <1>1, <1>4 DEF CInv, Typed
<1>6. ASSUME NEW i \in DOMAIN wire
      PROVE  wire[i] = Head(wire) \/ (i - 1 \in DOMAIN wire' /\ wire'[i - 1] = wire[i])
  BY <1>2
<1>7. {wire[i] : i \in DOMAIN wire} \subseteq
         {Head(wire)} \cup {wire'[i] : i \in DOMAIN wire'}
  BY <1>6
<1>8. Sighted \subseteq Sighted'
  BY <1>1, <1>3, <1>7 DEF Sighted
<1>9. Kept
  BY <1>1, <1>8 DEF Kept, Raised, Active
<1> QED
  BY <1>1, <1>3, <1>5, <1>9, BesideClient

(* The socket is in the registry before the page asks for anything. *)
LEMMA AcceptedKeeps == CInv /\ Accepted => CInv'
<1> SUFFICES ASSUME CInv, Accepted PROVE CInv'
  OBVIOUS
<1>1. UNCHANGED <<board, wire, client, fetches, told, listed>>
  BY DEF Accepted, server, page
<1>2. client.socket # "open"
  BY DEF Accepted
<1>3. ~listed.known /\ \A f \in fetches : ~f.mine
  BY <1>2 DEF CInv, AskedWhenOpen
<1>4. Typed' /\ Way(client)'
  BY <1>1 DEF CInv, Typed, Way
<1>5. AskedWhenOpen' /\ FetchesCover' /\ ListedCovers'
  BY <1>1, <1>3 DEF AskedWhenOpen, FetchesCover, ListedCovers
<1> QED
  BY <1>4, <1>5 DEF CInv

LEMMA NetworkChangesKeeps == CInv /\ NetworkChanges => CInv'
<1> SUFFICES ASSUME CInv, NetworkChanges PROVE CInv'
  OBVIOUS
<1>1. UNCHANGED <<board, publishing, linked, wire, client, fetches, told, unsent, listed>>
  BY DEF NetworkChanges, server, page
<1>2. Typed'
  BY <1>1 DEF CInv, Typed
<1>3. Kept
  BY <1>1 DEF Kept, Raised, Active, Sighted
<1> QED
  BY <1>1, <1>2, <1>3, BesideClient

(* A connection that the server loses has no claim on the broadcasts. *)
LEMMA LinkGone ==
  ASSUME CInv, UNCHANGED <<board, fetches, told, listed>>, wire' \in Seq(Alerts),
         linked' = FALSE, client' \in Clients, Way(client'),
         client' = client \/ client.socket # "open"
  PROVE  CInv'
<1>1. Typed' /\ Way(client)'
  BY DEF CInv, Typed, Way
<1>2. AskedWhenOpen'
  BY DEF CInv, AskedWhenOpen
<1>3. FetchesCover' /\ ListedCovers'
  BY DEF CInv, FetchesCover, ListedCovers
<1> QED
  BY <1>1, <1>2, <1>3 DEF CInv

LEMMA ConnectionLostKeeps == CInv /\ ConnectionLost => CInv'
<1> SUFFICES ASSUME CInv, ConnectionLost PROVE CInv'
  OBVIOUS
<1>1. UNCHANGED <<board, fetches, told, listed>> /\ linked' = FALSE /\ wire' = <<>>
  BY DEF ConnectionLost, server, page
<1>2. wire' \in Seq(Alerts)
  BY <1>1
<1>3. client \in Clients /\ Way(client)
  BY DEF CInv, Typed
<1>4. client' = IF client.socket = "connecting" THEN OnClose(client) ELSE client
  BY DEF ConnectionLost
<1>5. CASE client.socket = "connecting"
  <2>1. client' \in Clients /\ Way(client')
    BY <1>3, <1>4, <1>5, CloseFields
  <2> QED
    BY <1>1, <1>2, <1>5, <2>1, LinkGone
<1>6. CASE client.socket # "connecting"
  <2>1. client' = client
    BY <1>4, <1>6
  <2>2. client' \in Clients /\ Way(client')
    BY <1>3, <2>1
  <2> QED
    BY <1>1, <1>2, <2>1, <2>2, LinkGone
<1> QED
  BY <1>5, <1>6

LEMMA RefusedKeeps == CInv /\ Refused => CInv'
<1> SUFFICES ASSUME CInv, Refused PROVE CInv'
  OBVIOUS
<1>1. UNCHANGED <<board, wire, linked, fetches, told, listed>> /\ ~linked
  BY DEF Refused, server, page
<1>2. client.socket = "connecting" /\ client' = OnClose(client)
  BY DEF Refused
<1>3. client \in Clients /\ Way(client) /\ wire \in Seq(Alerts)
  BY DEF CInv, Typed
<1>4. client' \in Clients /\ client'.socket = "none" /\ Way(client')
  BY <1>2, <1>3, CloseFields
<1>5. Typed' /\ Way(client)'
  BY <1>1, <1>4 DEF CInv, Typed, Way
<1>6. AskedWhenOpen' /\ FetchesCover' /\ ListedCovers'
  BY <1>1, <1>2 DEF CInv, AskedWhenOpen, FetchesCover, ListedCovers
<1> QED
  BY <1>5, <1>6 DEF CInv

LEMMA TimerFiresKeeps == CInv /\ TimerFires => CInv'
<1> SUFFICES ASSUME CInv, TimerFires PROVE CInv'
  OBVIOUS
<1>1. client \in Clients /\ client.timer /\ Way(client)
  BY DEF CInv, Typed, TimerFires
<1>2. client.status # "CONNECTED"
  BY <1>1 DEF Way
<1>3. client' \in Clients /\ Way(client')
  BY <1>1, <1>2, EstablishFields DEF TimerFires
<1>4. /\ UNCHANGED board /\ wire' = <<>>
      /\ fetches' = Orphans /\ listed' = Unlisted
  BY DEF TimerFires, server
<1>5. wire' \in Seq(Alerts)
  BY <1>4
<1> QED
  BY <1>3, <1>4, <1>5, Disconnected

LEMMA RestartedKeeps == CInv /\ Restarted => CInv'
<1> SUFFICES ASSUME CInv, Restarted PROVE CInv'
  OBVIOUS
<1>1. client \in Clients
  BY DEF CInv, Typed
<1>2. client' \in Clients /\ Way(client')
  BY <1>1, RestartFields DEF Restarted
<1>3. /\ UNCHANGED board /\ wire' = <<>>
      /\ fetches' = Orphans /\ listed' = Unlisted
  BY DEF Restarted, server
<1>4. wire' \in Seq(Alerts)
  BY <1>3
<1> QED
  BY <1>2, <1>3, <1>4, Disconnected

LEMMA NoticedKeeps == CInv /\ Noticed => CInv'
<1> SUFFICES ASSUME CInv, Noticed PROVE CInv'
  OBVIOUS
<1>1. client \in Clients /\ Way(client) /\ wire \in Seq(Alerts)
  BY DEF CInv, Typed
<1>2. client.socket # "none" /\ client' = OnClose(client)
  BY DEF Noticed
<1>3. client' \in Clients /\ Way(client')
  BY <1>1, <1>2, CloseFields
<1>4. /\ UNCHANGED <<board, wire>>
      /\ fetches' = Orphans /\ listed' = Unlisted
  BY DEF Noticed, server
<1> QED
  BY <1>1, <1>3, <1>4, Disconnected

(* The page asks on a connection that is registered already. *)
LEMMA OpenedKeeps == CInv /\ Opened => CInv'
<1> SUFFICES ASSUME CInv, Opened PROVE CInv'
  OBVIOUS
<1>1. UNCHANGED <<board, wire, linked, told, listed>> /\ fetches' = fetches \cup {Asked}
  BY DEF Opened, server
<1>2. client \in Clients /\ Way(client) /\ client.socket = "connecting"
  BY DEF CInv, Typed, Opened
<1>3. client' \in Clients /\ client'.socket = "open" /\ Way(client')
  BY <1>2, OpenFields DEF Opened
<1>4. ~listed.known /\ \A f \in fetches : ~f.mine
  BY <1>2 DEF CInv, AskedWhenOpen
<1>5. Asked \in Reconciliation /\ ~Asked.answered
  BY DEF Asked, Reconciliation
<1>6. Typed' /\ Way(client)'
  BY <1>1, <1>3, <1>5 DEF CInv, Typed, Way
<1>7. AskedWhenOpen' /\ ListedCovers'
  BY <1>1, <1>3, <1>4 DEF AskedWhenOpen, ListedCovers
<1>8. FetchesCover'
  BY <1>1, <1>4, <1>5 DEF FetchesCover
<1> QED
  BY <1>6, <1>7, <1>8 DEF CInv

(* The list is made in one statement: it covers the alerts of that moment. *)
LEMMA FetchAnsweredKeeps ==
  ASSUME NEW f \in fetches PROVE CInv /\ FetchAnswered(f) => CInv'
<1> SUFFICES ASSUME CInv, FetchAnswered(f) PROVE CInv'
  OBVIOUS
<1> DEFINE g == [f EXCEPT !.answered = TRUE, !.page = ListAlerts,
                          !.active = Active, !.all = Raised]
<1>1. /\ UNCHANGED <<board, publishing, unsent, linked, wire, client, told, listed>>
      /\ fetches' = (fetches \ {f}) \cup {g}
  BY DEF FetchAnswered, server
<1>2. f \in Reconciliation
  BY DEF CInv, Typed
<1>3. ListAlerts \subseteq Alerts /\ Active \subseteq Alerts /\ Raised \subseteq Alerts
  BY DEF ListAlerts, Active, Raised
<1>4. g \in Reconciliation /\ g.mine = f.mine /\ g.all = Raised /\ g.active = Active
  BY <1>2, <1>3 DEF Reconciliation
<1> HIDE DEF g
<1>5. UNCHANGED <<Raised, Active, Sighted>>
  BY <1>1 DEF Raised, Active, Sighted
<1>6. Typed' /\ Way(client)'
  BY <1>1, <1>4 DEF CInv, Typed, Way
<1>7. AskedWhenOpen' /\ ListedCovers'
  BY <1>1, <1>4, <1>5 DEF CInv, AskedWhenOpen, ListedCovers, Covers
<1>8. /\ g.all \subseteq Raised' /\ Raised' \ g.all \subseteq Sighted'
      /\ g.all \cap Active' \subseteq g.active
  BY <1>4, <1>5
<1>9. FetchesCover'
  BY <1>1, <1>5, <1>8 DEF CInv, FetchesCover, Covers
<1> QED
  BY <1>6, <1>7, <1>9 DEF CInv

LEMMA FetchFailedKeeps ==
  ASSUME NEW f \in fetches PROVE CInv /\ FetchFailed(f) => CInv'
<1> SUFFICES ASSUME CInv, FetchFailed(f) PROVE CInv'
  OBVIOUS
<1>1. /\ UNCHANGED <<board, publishing, unsent, linked, wire, client, told, listed>>
      /\ fetches' \subseteq fetches
  BY DEF FetchFailed, server
<1>2. UNCHANGED <<Raised, Active, Sighted>>
  BY <1>1 DEF Raised, Active, Sighted
<1>3. Typed' /\ Way(client)'
  BY <1>1 DEF CInv, Typed, Way
<1>4. AskedWhenOpen' /\ FetchesCover' /\ ListedCovers'
  BY <1>1, <1>2 DEF CInv, AskedWhenOpen, FetchesCover, ListedCovers, Covers
<1> QED
  BY <1>3, <1>4 DEF CInv

(* The page is told of what the list shows. *)
LEMMA FetchHandledKeeps ==
  ASSUME NEW f \in fetches PROVE CInv /\ FetchHandled(f) => CInv'
<1> SUFFICES ASSUME CInv, FetchHandled(f) PROVE CInv'
  OBVIOUS
<1> DEFINE l == [known |-> TRUE, active |-> f.active, page |-> f.page, all |-> f.all]
<1>1. /\ UNCHANGED <<board, publishing, unsent, linked, wire, client>>
      /\ fetches' \subseteq fetches
      /\ told' = told \cup f.page
      /\ listed' = IF f.mine THEN l ELSE listed
      /\ f.answered
  BY DEF FetchHandled, server, Hear
<1>2. f \in Reconciliation
  BY DEF CInv, Typed
<1>3. l \in Lists /\ l.known /\ l.page = f.page /\ l.all = f.all /\ l.active = f.active
  BY <1>2 DEF Reconciliation, Lists
<1> HIDE DEF l
<1>4. UNCHANGED <<Raised, Active>> /\ Sighted \subseteq Sighted'
  BY <1>1 DEF Raised, Active, Sighted
<1>5. Typed' /\ Way(client)'
  BY <1>1, <1>3 DEF CInv, Typed, Way
<1>6. AskedWhenOpen'
  BY <1>1, <1>3 DEF CInv, AskedWhenOpen
<1>7. FetchesCover'
  BY <1>1, <1>4 DEF CInv, FetchesCover, Covers
<1>8. ListedCovers'
  <2>1. CASE f.mine
    BY <1>1, <1>3, <1>4, <2>1 DEF CInv, FetchesCover, ListedCovers, Covers
  <2>2. CASE ~f.mine
    BY <1>1, <1>4, <2>2 DEF CInv, ListedCovers, Covers
  <2> QED
    BY <2>1, <2>2
<1> QED
  BY <1>5, <1>6, <1>7, <1>8 DEF CInv

(* The panel is moved by nothing the connection depends on. *)
LEMMA PanelKeeps == CInv /\ PanelNext => CInv'
<1> SUFFICES ASSUME CInv, PanelNext PROVE CInv'
  OBVIOUS
<1>1. UNCHANGED <<server, up, linked, wire, client, fetches, told, listed>>
  BY DEF PanelNext, Picked, EffectRuns, RiskAnswered, RiskFailed, PanelMoves
<1>2. UNCHANGED <<board, publishing, unsent, linked, wire, client, fetches, told, listed>>
  BY <1>1 DEF server
<1>3. Typed'
  BY <1>2 DEF CInv, Typed
<1>4. Kept
  BY <1>2 DEF Kept, Raised, Active, Sighted
<1> QED
  BY <1>2, <1>3, <1>4, BesideClient

(***************************************************************************)
(* The theorems.                                                           *)
(***************************************************************************)

LEMMA NextKeeps == CInv /\ [Next]_vars => CInv'
<1> SUFFICES ASSUME CInv, [Next]_vars PROVE CInv'
  OBVIOUS
<1>1. CASE ServerNext
  BY <1>1, AlertRaisedKeeps, PublishedKeeps, AlertClosedKeeps DEF ServerNext
<1>2. CASE LineNext
  BY <1>2, AcceptedKeeps, NetworkChangesKeeps, ConnectionLostKeeps, RefusedKeeps
     DEF LineNext
<1>3. CASE ClientNext
  BY <1>3, TimerFiresKeeps, OpenedKeeps, NoticedKeeps, RestartedKeeps,
     ReceivedKeeps, FetchAnsweredKeeps, FetchFailedKeeps, FetchHandledKeeps
     DEF ClientNext, Ends
<1>4. CASE PanelNext
  BY <1>4, PanelKeeps
<1>5. CASE UNCHANGED vars
  BY <1>5, StutterKeeps
<1> QED
  BY <1>1, <1>2, <1>3, <1>4, <1>5 DEF Next

(* Lists of a connection, and the fetches that will become lists, cover what *)
(* is active as long as the connection is registered.                        *)
THEOREM CInvHolds == Spec => []CInv
  BY InitCInv, NextKeeps, PTL DEF Spec

(* The timers and sockets of realtime.ts: a planned reconnect never stands   *)
(* beside a connection, whatever closes, fails and restarts in any order.    *)
THEOREM ClientHasOneWayIn == Spec => []OneWayIn
<1>1. CInv => OneWayIn
  BY DEF CInv, Way, OneWayIn
<1> QED
  BY <1>1, CInvHolds, PTL

(* Once a connection is up and its reconciliation was heard, the page knows  *)
(* of every active alert but those behind the limit and those not sent.      *)
THEOREM ReconnectMissesNothing == Spec => []NoActiveAlertMissed
<1>1. CInv => NoActiveAlertMissed
  <2> SUFFICES ASSUME CInv, Settled, NEW a \in Active
               PROVE  \/ a \in told
                      \/ a \in listed.active \ listed.page
                      \/ a \in unsent \ listed.all
    BY DEF NoActiveAlertMissed
  <2>1. linked /\ listed.known /\ wire = <<>> /\ publishing = {}
    BY DEF Settled
  <2>2. listed.page \subseteq told /\ Covers(listed)
    BY <2>1 DEF CInv, ListedCovers
  <2>3. a \in Raised
    BY DEF Active, Raised
  <2>4. CASE a \in listed.all
    BY <2>2, <2>4 DEF Covers
  <2>5. CASE a \notin listed.all
    <3>1. a \in Sighted
      BY <2>2, <2>3, <2>5 DEF Covers
    <3>2. {wire[i] : i \in DOMAIN wire} = {}
      BY <2>1
    <3> QED
      BY <2>1, <2>5, <3>1, <3>2 DEF Sighted
  <2> QED
    BY <2>4, <2>5
<1> QED
  BY <1>1, CInvHolds, PTL

(***************************************************************************)
(* The panel.                                                              *)
(***************************************************************************)

\* Once the effect has run for the place that is shown, the requests in force
\* are for that place, and so is what one of them was answered.
Attuned(p) ==
  ~p.due =>
    /\ \A c \in p.calls : ~c.aborted => c.of = p.at
    /\ (p.at # Nowhere /\ p.liveRisk.state = "success") => p.liveRisk.of = p.at

InTune(p) == p \in Panels /\ Attuned(p)

(* Views that claim nothing. *)
LEMMA QuietViews ==
  /\ Loading \in Views /\ Loading.state = "loading"
  /\ View("idle", Nowhere) \in Views
  /\ View("error", Nowhere) \in Views /\ View("error", Nowhere).state = "error"
BY DEF Loading, View, Views

(* While the effect is due nothing is claimed of what is shown. *)
LEMMA MovedAttuned ==
  ASSUME NEW p, InTune(p), NEW place \in Places \cup {Nowhere}, NEW view \in Views
  PROVE  InTune(Moved(p, place)) /\ InTune([Moved(p, place) EXCEPT !.liveRisk = view])
BY DEF InTune, Attuned, Moved, Panels

(* The clean-up aborts what was asked for, so that only the request for the  *)
(* place of the panel is in force.                                           *)
LEMMA EffectAttuned ==
  ASSUME NEW p, InTune(p), p.due
  PROVE  InTune(RunEffect(p))
<1> DEFINE aborted == Abort(p.calls)
           ask == [of |-> p.at, aborted |-> FALSE]
           stopped == [p EXCEPT !.due = FALSE, !.calls = Abort(@)]
           asked == [stopped EXCEPT !.liveRisk = Loading, !.calls = @ \cup {ask}]
<1>1. aborted \subseteq Calls /\ \A c \in aborted : c.aborted
  BY DEF Abort, InTune, Panels, Calls
<1>2. stopped \in Panels /\ ~stopped.due /\ stopped.calls = aborted
      /\ stopped.at = p.at
  <2> HIDE DEF aborted
  <2>1. stopped = [[p EXCEPT !.due = FALSE] EXCEPT !.calls = aborted]
    BY DEF aborted, InTune, Panels
  <2> QED
    BY <1>1, <2>1 DEF InTune, Panels
<1>3. CASE p.at = Nowhere
  <2> HIDE DEF stopped, aborted
  <2>1. RunEffect(p) = stopped
    BY <1>3 DEF RunEffect, stopped
  <2> QED
    BY <1>1, <1>2, <1>3, <2>1 DEF InTune, Attuned
<1>4. CASE p.at # Nowhere
  <2>1. ask \in Calls /\ ask.of = p.at
    BY <1>4 DEF Calls, InTune, Panels
  <2>2. RunEffect(p) = asked
    BY <1>4 DEF RunEffect
  <2> HIDE DEF stopped, aborted, ask
  <2>3. /\ asked \in Panels /\ asked.at = p.at /\ ~asked.due
        /\ asked.liveRisk = Loading /\ asked.calls = aborted \cup {ask}
    BY <1>1, <1>2, <2>1, QuietViews DEF Panels
  <2> HIDE DEF asked
  <2> QED
    BY <1>1, <2>1, <2>2, <2>3, QuietViews DEF InTune, Attuned
<1> QED
  BY <1>3, <1>4

(* The answer for an aborted request is dropped; one in force is for the     *)
(* place of the panel, or the effect is due and will ask again.              *)
LEMMA AnsweredAttuned ==
  ASSUME NEW p, InTune(p), NEW call \in p.calls, NEW state \in {"success", "error"}
  PROVE  InTune(Answered(p, call, state))
<1> DEFINE rest == [p EXCEPT !.calls = @ \ {call}]
           view == IF state = "success" THEN View("success", call.of)
                   ELSE View("error", Nowhere)
           shown == [rest EXCEPT !.liveRisk = view]
<1>1. Answered(p, call, state) = IF call.aborted THEN rest ELSE shown
  BY DEF Answered
<1>2. /\ rest \in Panels /\ rest.at = p.at /\ rest.due = p.due
      /\ rest.liveRisk = p.liveRisk /\ rest.calls \subseteq p.calls
  BY DEF InTune, Panels
<1>3. view \in Views /\ (view.state = "success" => view.of = call.of)
  BY DEF View, Views, InTune, Panels, Calls
<1> HIDE DEF rest, view
<1>4. InTune(rest)
  BY <1>2 DEF InTune, Attuned
<1>5. ASSUME ~call.aborted PROVE InTune(shown)
  <2>1. /\ shown \in Panels /\ shown.at = p.at /\ shown.due = p.due
        /\ shown.liveRisk = view /\ shown.calls \subseteq p.calls
    BY <1>2, <1>3 DEF Panels
  <2> HIDE DEF shown
  <2> QED
    BY <1>3, <1>5, <2>1 DEF InTune, Attuned
<1> QED
  BY <1>1, <1>4, <1>5, Zenon DEF InTune, Panels, Calls

(* What the user does and what the server answers. *)
LEMMA PanelInTune == InTune(panel) /\ PanelNext => InTune(panel')
<1> SUFFICES ASSUME InTune(panel), PanelNext PROVE InTune(panel')
  OBVIOUS
<1>1. CASE Picked
  <2>1. \/ \E place \in Places \cup {Nowhere} : panel' = SelectLocation(panel, place)
        \/ \E place \in Places : panel' = SelectHazard(panel, place)
        \/ panel' = SelectUnknownHazard(panel)
        \/ panel' = CloseHazard(panel)
    BY <1>1 DEF Picked, PanelMoves
  <2>2. ASSUME NEW place \in Places \cup {Nowhere}
        PROVE  InTune(SelectLocation(panel, place))
    BY QuietViews, MovedAttuned DEF SelectLocation
  <2>3. ASSUME NEW place \in Places PROVE InTune(SelectHazard(panel, place))
    BY QuietViews, MovedAttuned DEF SelectHazard
  <2>4. InTune(SelectUnknownHazard(panel))
    BY QuietViews DEF SelectUnknownHazard, InTune, Attuned, Panels
  <2>5. InTune(CloseHazard(panel))
    BY QuietViews, MovedAttuned DEF CloseHazard
  <2> QED
    BY <2>1, <2>2, <2>3, <2>4, <2>5
<1>2. CASE EffectRuns
  BY <1>2, EffectAttuned DEF EffectRuns, CanRunEffect, PanelMoves
<1>3. CASE RiskAnswered
  <2>1. PICK call \in panel.calls : panel' = Answered(panel, call, "success")
    BY <1>3 DEF RiskAnswered, PanelMoves
  <2> QED
    BY <2>1, AnsweredAttuned
<1>4. CASE RiskFailed
  <2>1. PICK call \in panel.calls : panel' = Answered(panel, call, "error")
    BY <1>4 DEF RiskFailed, PanelMoves
  <2> QED
    BY <2>1, AnsweredAttuned
<1> QED
  BY <1>1, <1>2, <1>3, <1>4 DEF PanelNext

(* The alerts that are heard are numbers: one of them comes last, and is     *)
(* somewhere.                                                                *)
LEMMA MoverIsSomewhere ==
  ASSUME NEW movers \in SUBSET Alerts, movers # {}
  PROVE  Place[Min(movers)] \in Places
<1> DEFINE Below == OpToRel(<, Nat)
<1>1. \A x, y \in Nat : <<y, x>> \in Below <=> y < x
  BY DEF OpToRel
<1>2. IsWellFoundedOn(Below, Nat)
  BY NatLessThanWellFounded
<1> HIDE DEF Below
<1>3. PICK x \in movers : \A y \in movers : ~(<<y, x>> \in Below)
  BY <1>2, WFMin, AlertsAssumption, Zenon
<1>4. ASSUME NEW y \in movers PROVE x <= y
  <2>1. x \in Nat /\ y \in Nat
    BY AlertsAssumption
  <2>2. ~(y < x)
    BY <1>1, <1>3, <2>1, Zenon
  <2> QED
    BY <2>1, <2>2
<1>5. Min(movers) \in movers
  BY <1>4 DEF Min
<1> QED
  BY <1>5, AlertsAssumption

(* Of everything else, only the listeners of the realtime client move it. *)
LEMMA ElsewhereInTune ==
  CInv /\ InTune(panel) /\ (ServerNext \/ LineNext \/ ClientNext \/ UNCHANGED vars)
    => InTune(panel')
<1> SUFFICES ASSUME CInv, InTune(panel),
                    ServerNext \/ LineNext \/ ClientNext \/ UNCHANGED vars
             PROVE  InTune(panel')
  OBVIOUS
<1>1. \/ panel' = panel
      \/ \E place \in Places : panel' = Moved(panel, place)
  <2>1. CASE ServerNext
    BY <2>1 DEF ServerNext, AlertRaised, Published, AlertClosed, page
  <2>2. CASE LineNext
    BY <2>2 DEF LineNext, Accepted, NetworkChanges, ConnectionLost, Refused, page
  <2>3. ASSUME NEW events, NEW movers \in SUBSET Alerts, Hear(events, movers)
        PROVE  panel' = panel \/ \E place \in Places : panel' = Moved(panel, place)
    BY <2>3, MoverIsSomewhere DEF Hear
  <2>4. CASE Received
    <3>1. Head(wire) \in Alerts
      BY <2>4 DEF CInv, Typed, Received
    <3> QED
      BY <2>3, <2>4, <3>1 DEF Received
  <2>5. ASSUME NEW f \in fetches, FetchHandled(f)
        PROVE  panel' = panel \/ \E place \in Places : panel' = Moved(panel, place)
    <3>1. f.page \cap Critical \subseteq Alerts
      BY AlertsAssumption
    <3> QED
      BY <2>3, <2>5, <3>1 DEF FetchHandled
  <2>6. CASE ClientNext /\ ~Received /\ ~\E f \in fetches : FetchHandled(f)
    BY <2>6 DEF ClientNext, TimerFires, Opened, Noticed, Restarted,
                FetchAnswered, Ends, FetchFailed
  <2>7. CASE UNCHANGED vars
    BY <2>7 DEF vars
  <2> QED
    BY <2>1, <2>2, <2>4, <2>5, <2>6, <2>7
<1>2. ASSUME NEW place \in Places PROVE InTune(Moved(panel, place))
  BY QuietViews, MovedAttuned
<1> QED
  BY <1>1, <1>2

(* What the panel shows for a place was computed for that place, whoever     *)
(* moved it while requests were on their way (MapContext.tsx).               *)
THEOREM PanelShowsItsPlace == Spec => []LiveRiskIsOfPlace
<1>1. Init => InTune(panel)
  BY QuietViews DEF Init, Blank, InTune, Attuned, Panels
<1>2. CInv /\ InTune(panel) /\ [Next]_vars => InTune(panel)'
  <2>1. InTune(panel)' <=> InTune(panel')
    BY DEF InTune, Attuned
  <2> QED
    BY <2>1, PanelInTune, ElsewhereInTune DEF Next
<1>3. InTune(panel) => LiveRiskIsOfPlace
  BY DEF InTune, Attuned, LiveRiskIsOfPlace
<1> QED
  BY <1>1, <1>2, <1>3, CInvHolds, PTL DEF Spec

-----------------------------------------------------------------------------
(***************************************************************************)
(* The offline queue.                                                      *)
(***************************************************************************)

OpenPhases == {"idle", "listing", "ready", "posted", "accepted", "refused"}
Count == [original : Nat, duplicate : Nat]

(***************************************************************************)
(* The records a tab builds.                                               *)
(***************************************************************************)

LEMMA PhaseFields ==
  ASSUME NEW q \in Tab, NEW p \in OpenPhases
  PROVE  LET m == [q EXCEPT !.phase = p] IN m \in Tab /\ m.phase = p /\ m.item = q.item
  BY DEF Tab, OpenPhases

LEMMA WokenFields ==
  ASSUME NEW q \in Tab, NEW b \in BOOLEAN
  PROVE  LET m == [q EXCEPT !.woken = b] IN m \in Tab /\ m.phase = q.phase /\ m.item = q.item
  BY DEF Tab

LEMMA TodoFields ==
  ASSUME NEW q \in Tab, NEW todo \in SUBSET Items
  PROVE  LET m == [q EXCEPT !.todo = todo] IN m \in Tab /\ m.phase = q.phase /\ m.item = q.item
  BY DEF Tab

LEMMA ItemFields ==
  ASSUME NEW q \in Tab, NEW i \in Items \cup {None}
  PROVE  LET m == [q EXCEPT !.item = i] IN m \in Tab /\ m.phase = q.phase /\ m.item = i
  BY DEF Tab

LEMMA ListFields ==
  ASSUME NEW q \in Tab, NEW l \in {"sos", "reports"}
  PROVE  LET m == [q EXCEPT !.list = l] IN m \in Tab /\ m.phase = q.phase /\ m.item = q.item
  BY DEF Tab

(* A report that is graded has one original row. *)
LEMMA GradedFields ==
  ASSUME NEW row \in Count
  PROVE  /\ Graded(row) \in Count
         /\ Graded(row).original > 0
         /\ row.original <= 1 => Graded(row).original <= 1
  BY DEF Graded, Count

(* The server stores an accepted item and forgets nothing. *)
LEMMA AcceptFacts ==
  ASSUME QueueTypeOK, CountsOnce, NEW i \in Items, Accept(i)
  PROVE  /\ rows' \in [Items -> Count]
         /\ CountsOnce'
         /\ rows'[i].original > 0
         /\ \A j \in Items : rows[j].original > 0 => rows'[j].original > 0
<1>1. rows[i] \in Count /\ rows[i].original <= 1
  BY DEF QueueTypeOK, Count, CountsOnce
<1>2. /\ Graded(rows[i]) \in Count /\ Graded(rows[i]).original > 0
      /\ Graded(rows[i]).original <= 1
  BY <1>1, GradedFields
<1>3. rows' = [rows EXCEPT ![i] = Graded(rows[i])]
  BY DEF Accept
<1> QED
  BY <1>2, <1>3 DEF QueueTypeOK, Count, CountsOnce

(***************************************************************************)
(* The steps.                                                              *)
(***************************************************************************)

\* What RunInv says of a tab that has become q.
RunKept(q) ==
  /\ q.phase \in {"posted", "accepted", "refused"} => q.item \in Items
  /\ q.phase = "accepted" => rows'[q.item].original > 0

\* The server forgets no row.
RowsKept == \A j \in Items : rows[j].original > 0 => rows'[j].original > 0

(* A step of one tab keeps what the others rely on. *)
LEMMA TabStep ==
  ASSUME QueueInv, NEW t \in Tabs, NEW q \in Tab, tab' = [tab EXCEPT ![t] = q],
         RunKept(q), RowsKept
  PROVE  tab' \in [Tabs -> Tab] /\ RunInv'
<1>1. tab' \in [Tabs -> Tab]
  BY DEF QueueInv, QueueTypeOK
<1>2. tab'[t] = q /\ \A x \in Tabs : x # t => tab'[x] = tab[x]
  BY DEF QueueInv, QueueTypeOK
<1>3. ASSUME NEW x \in Tabs
      PROVE  /\ tab'[x].phase \in {"posted", "accepted", "refused"} => tab'[x].item \in Items
             /\ tab'[x].phase = "accepted" => rows'[tab'[x].item].original > 0
  BY <1>2 DEF RunKept, RowsKept, QueueInv, RunInv
<1> QED
  BY <1>1, <1>3 DEF RunInv

(* A step of one tab that touches neither forms, entries nor rows. *)
LEMMA QuietStep ==
  ASSUME QueueInv, NEW t \in Tabs, NEW q \in Tab, tab' = [tab EXCEPT ![t] = q],
         RunKept(q), UNCHANGED <<online, store, form, rows>>, faults' \in Nat
  PROVE  QueueInv'
<1>1. RowsKept
  BY DEF RowsKept
<1>2. tab' \in [Tabs -> Tab] /\ RunInv'
  BY <1>1, TabStep
<1> QED
  BY <1>2 DEF QueueInv, QueueTypeOK, NothingLost, CountsOnce

(* A citizen's submission. *)
LEMMA SubmitKeeps ==
  ASSUME QueueInv, NEW t \in Tabs, NEW i \in Items, SubmitOffline(t, i) \/ SubmitOnline(t, i)
  PROVE  QueueInv'
<1>1. /\ UNCHANGED <<online, store, tab>> /\ faults' \in Nat
      /\ Accept(i) \/ UNCHANGED rows
      /\ \E s \in {"queueing", "sent", "error"} : form' = [form EXCEPT ![i] = [stage |-> s, by |-> t]]
  BY DEF SubmitOffline, SubmitOnline, Decide, Fault, QueueInv, QueueTypeOK
<1>2. rows' \in [Items -> Count] /\ CountsOnce' /\ RowsKept
  BY <1>1, AcceptFacts DEF QueueInv, QueueTypeOK, Count, CountsOnce, RowsKept
<1>3. PICK s \in {"queueing", "sent", "error"} : form' = [form EXCEPT ![i] = [stage |-> s, by |-> t]]
  BY <1>1
<1>4. form' \in [Items -> Form]
  BY <1>3 DEF Form, QueueInv, QueueTypeOK
<1>5. NothingLost'
  BY <1>1, <1>2, <1>3 DEF NothingLost, QueueInv, QueueTypeOK, RowsKept
<1>6. RunInv'
  BY <1>1, <1>2 DEF RunInv, QueueInv, RowsKept
<1> QED
  BY <1>1, <1>2, <1>4, <1>5, <1>6 DEF QueueInv, QueueTypeOK, Count

(* The put of a submitted item succeeds or fails. *)
LEMMA PutKeeps ==
  ASSUME QueueInv, NEW i \in Items, Stored(i) \/ NotStored(i)
  PROVE  QueueInv'
<1>1. CASE Stored(i)
  <2>1. store' \in [Items -> Entry] /\ store'[i] = "QUEUED_OFFLINE"
        /\ \A j \in Items : j # i => store'[j] = store[j]
    BY <1>1 DEF Stored, QueueInv, QueueTypeOK, Entry
  <2>2. form' \in [Items -> Form] /\ \A j \in Items : j # i => form'[j] = form[j]
    BY <1>1 DEF Stored, QueueInv, QueueTypeOK, Form
  <2>3. NothingLost'
    BY <1>1, <2>1, <2>2 DEF Stored, QueueInv, NothingLost
  <2> QED
    BY <1>1, <2>1, <2>2, <2>3 DEF Stored, QueueInv, QueueTypeOK, RunInv, CountsOnce
<1>2. CASE NotStored(i)
  <2>1. /\ form' \in [Items -> Form] /\ form'[i].stage = "error"
        /\ \A j \in Items : j # i => form'[j] = form[j]
    BY <1>2 DEF NotStored, QueueInv, QueueTypeOK, Form
  <2>2. NothingLost'
    BY <1>2, <2>1 DEF NotStored, QueueInv, NothingLost
  <2> QED
    BY <1>2, <2>1, <2>2 DEF NotStored, Fault, QueueInv, QueueTypeOK, RunInv, CountsOnce
<1> QED
  BY <1>1, <1>2

(* A tab that starts a run has no item yet. *)
LEMMA BegunFields ==
  ASSUME QueueInv, NEW t \in Tabs
  PROVE  Begun(t) \in Tab /\ Begun(t).phase = "listing"
<1> DEFINE a == [tab[t] EXCEPT !.phase = "listing"]
           b == [a EXCEPT !.list = "sos"]
           c == [b EXCEPT !.woken = FALSE]
<1>1. a \in Tab /\ a.phase = "listing"
  BY DEF QueueInv, QueueTypeOK, Tab
<1> HIDE DEF a
<1>2. b \in Tab /\ b.phase = "listing"
  BY <1>1, ListFields
<1> HIDE DEF b
<1>3. c \in Tab /\ c.phase = "listing"
  BY <1>2, WokenFields
<1> QED
  BY <1>3 DEF a, b, Begun

LEMMA StartKeeps ==
  ASSUME QueueInv, NEW t \in Tabs, OnlineEvent(t) \/ ManualSync(t)
  PROVE  QueueInv'
<1>1. UNCHANGED <<online, store, form, rows>> /\ faults' \in Nat /\ tab[t] \in Tab
  BY DEF OnlineEvent, ManualSync, QueueInv, QueueTypeOK
<1>2. PICK q \in Tab : RunKept(q) /\ tab' = [tab EXCEPT ![t] = q]
  <2> DEFINE b == Begun(t)
             n == [tab[t] EXCEPT !.woken = FALSE]
             m == [b EXCEPT !.woken = tab[t].woken]
  <2>1. b \in Tab /\ b.phase = "listing"
    BY BegunFields
  <2>2. n \in Tab /\ n.phase = tab[t].phase /\ n.item = tab[t].item
    BY <1>1, WokenFields
  <2> HIDE DEF b
  <2>3. m \in Tab /\ m.phase = "listing"
    <3>1. tab[t].woken \in BOOLEAN
      BY <1>1 DEF Tab
    <3> QED
      BY <2>1, <3>1, WokenFields
  <2>4. tab' = [tab EXCEPT ![t] = b] \/ tab' = [tab EXCEPT ![t] = n] \/ tab' = [tab EXCEPT ![t] = m]
    BY DEF OnlineEvent, ManualSync, b
  <2> HIDE DEF n, m
  <2>5. RunKept(b) /\ RunKept(m)
    BY <2>1, <2>3 DEF RunKept
  <2>6. RunKept(n)
    BY <1>1, <2>2 DEF RunKept, QueueInv, RunInv
  <2> QED
    BY <2>1, <2>2, <2>3, <2>4, <2>5, <2>6
<1> QED
  BY <1>1, <1>2, QuietStep

LEMMA ListKeeps ==
  ASSUME QueueInv, NEW t \in Tabs, List(t)
  PROVE  QueueInv'
<1> DEFINE a == [tab[t] EXCEPT !.phase = "ready"]
           b == [a EXCEPT !.todo = Queue(tab[t].list)]
<1>1. a \in Tab /\ a.phase = "ready"
  BY PhaseFields DEF QueueInv, QueueTypeOK, OpenPhases
<1>2. tab' = [tab EXCEPT ![t] = b]
  BY DEF List, QueueInv, QueueTypeOK
<1> HIDE DEF a
<1>3. Queue(tab[t].list) \in SUBSET Items
  BY DEF Queue, Items
<1>4. b \in Tab /\ b.phase = "ready"
  BY <1>1, <1>3, TodoFields
<1> HIDE DEF b
<1>5. RunKept(b)
  BY <1>4 DEF RunKept
<1> QED
  BY <1>2, <1>4, <1>5, QuietStep DEF List, QueueInv, QueueTypeOK

LEMMA AdvanceKeeps ==
  ASSUME QueueInv, NEW t \in Tabs, Advance(t)
  PROVE  QueueInv'
<1>1. PICK q \in Tab : q = tab[t]
  BY DEF QueueInv, QueueTypeOK
<1>2. UNCHANGED <<online, store, form, rows>> /\ faults' \in Nat
  BY DEF Advance, QueueInv, QueueTypeOK
<1>3. ASSUME NEW i \in q.todo,
             tab' = [tab EXCEPT ![t] = [q EXCEPT !.phase = "posted", !.item = i, !.todo = q.todo \ {i}]]
      PROVE  QueueInv'
  <2> DEFINE a == [q EXCEPT !.phase = "posted"]
             b == [a EXCEPT !.item = i]
             c == [b EXCEPT !.todo = q.todo \ {i}]
  <2>1. i \in Items /\ q.todo \ {i} \in SUBSET Items
    BY <1>3 DEF Tab
  <2>2. a \in Tab /\ a.phase = "posted"
    BY PhaseFields DEF OpenPhases
  <2>3. tab' = [tab EXCEPT ![t] = c]
    BY <1>3
  <2> HIDE DEF a
  <2>4. b \in Tab /\ b.phase = "posted" /\ b.item = i
    BY <2>1, <2>2, ItemFields
  <2> HIDE DEF b
  <2>5. c \in Tab /\ c.phase = "posted" /\ c.item = i
    BY <2>1, <2>4, TodoFields
  <2> HIDE DEF c
  <2>6. RunKept(c)
    BY <2>1, <2>5 DEF RunKept
  <2> QED
    BY <1>2, <2>3, <2>5, <2>6, QuietStep
<1>4. ASSUME NEW p \in {"listing", "idle"}, NEW l \in {"sos", "reports"},
             tab' = [tab EXCEPT ![t] = [q EXCEPT !.phase = p, !.list = l]]
      PROVE  QueueInv'
  <2> DEFINE a == [q EXCEPT !.phase = p]
             b == [a EXCEPT !.list = l]
  <2>1. a \in Tab /\ a.phase = p
    BY DEF Tab
  <2>2. tab' = [tab EXCEPT ![t] = b]
    BY <1>4
  <2> HIDE DEF a
  <2>3. b \in Tab /\ b.phase = p
    BY <2>1, ListFields
  <2> HIDE DEF b
  <2>4. RunKept(b)
    BY <2>3 DEF RunKept
  <2> QED
    BY <1>2, <2>2, <2>3, <2>4, QuietStep
<1> QED
  BY <1>1, <1>3, <1>4 DEF Advance

(* A step of a run that only changes its phase. *)
LEMMA PhaseKeeps ==
  ASSUME QueueInv, NEW t \in Tabs, NEW p \in {"refused", "accepted"},
         tab[t].phase \in {"posted", "accepted"}, tab' = [tab EXCEPT ![t].phase = p]
  PROVE  \E q \in Tab : /\ q.phase = p /\ q.item = tab[t].item /\ q.item \in Items
                        /\ tab' = [tab EXCEPT ![t] = q]
<1> DEFINE q == [tab[t] EXCEPT !.phase = p]
<1>1. q \in Tab /\ q.phase = p /\ q.item = tab[t].item
  BY DEF QueueInv, QueueTypeOK, Tab
<1>2. tab' = [tab EXCEPT ![t] = q]
  BY DEF QueueInv, QueueTypeOK
<1> HIDE DEF q
<1>3. tab[t].item \in Items
  BY DEF QueueInv, RunInv
<1> QED
  BY <1>1, <1>2, <1>3

LEMMA ServeKeeps ==
  ASSUME QueueInv, NEW t \in Tabs, Serve(t)
  PROVE  QueueInv'
<1> DEFINE i == tab[t].item
<1>1. tab[t].phase = "posted" /\ i \in Items /\ UNCHANGED <<online, store, form, faults>>
  BY DEF Serve, QueueInv, RunInv
<1>2. CASE Accept(i) /\ tab' = [tab EXCEPT ![t].phase = "accepted"]
  <2>1. PICK q \in Tab : q.phase = "accepted" /\ q.item = i /\ tab' = [tab EXCEPT ![t] = q]
    BY <1>1, <1>2, PhaseKeeps
  <2>2. /\ rows' \in [Items -> Count] /\ CountsOnce' /\ rows'[i].original > 0 /\ RowsKept
    BY <1>1, <1>2, AcceptFacts DEF QueueInv, RowsKept
  <2>3. RunKept(q)
    BY <1>1, <2>1, <2>2 DEF RunKept
  <2>4. tab' \in [Tabs -> Tab] /\ RunInv'
    BY <2>1, <2>2, <2>3, TabStep
  <2>5. NothingLost'
    BY <1>1, <2>2 DEF QueueInv, NothingLost, RowsKept
  <2> QED
    BY <1>1, <2>2, <2>4, <2>5 DEF QueueInv, QueueTypeOK, Count
<1>3. CASE tab' = [tab EXCEPT ![t].phase = "refused"] /\ UNCHANGED rows
  <2>1. PICK q \in Tab :
          q.phase = "refused" /\ q.item \in Items /\ tab' = [tab EXCEPT ![t] = q]
    BY <1>1, <1>3, PhaseKeeps
  <2>2. RunKept(q)
    BY <2>1 DEF RunKept
  <2> QED
    BY <1>1, <1>3, <2>1, <2>2, QuietStep DEF QueueInv, QueueTypeOK
<1> QED
  BY <1>2, <1>3 DEF Serve

(* A request that fails, in whatever way, is refused. *)
LEMMA PostRefusedKeeps ==
  ASSUME QueueInv, NEW t \in Tabs, Unreachable(t) \/ RequestFault(t)
  PROVE  QueueInv'
<1>1. /\ tab[t].phase \in {"posted", "accepted"} /\ tab' = [tab EXCEPT ![t].phase = "refused"]
      /\ UNCHANGED <<online, store, form, rows>> /\ faults' \in Nat
  BY DEF Unreachable, RequestFault, Fault, QueueInv, QueueTypeOK
<1>2. PICK q \in Tab : q.phase = "refused" /\ q.item \in Items /\ tab' = [tab EXCEPT ![t] = q]
  BY <1>1, PhaseKeeps
<1>3. RunKept(q)
  BY <1>2 DEF RunKept
<1> QED
  BY <1>1, <1>2, <1>3, QuietStep

(* An entry is removed when the server has the item, and put back otherwise. *)
LEMMA SettleKeeps ==
  ASSUME QueueInv, NEW t \in Tabs, RemoveSent(t) \/ PutBack(t)
  PROVE  QueueInv'
<1> DEFINE i == tab[t].item
           a == [tab[t] EXCEPT !.phase = "ready"]
           b == [a EXCEPT !.item = None]
<1>1. PICK e \in Entry : /\ Settle(t, e)
                         /\ e = "absent" => rows[i].original > 0
                         /\ i \in Items
  BY DEF RemoveSent, PutBack, SentEntry, FailedEntry, Entry, QueueInv, RunInv
<1>2. a \in Tab /\ a.phase = "ready"
  BY PhaseFields DEF QueueInv, QueueTypeOK, OpenPhases
<1>3. tab' = [tab EXCEPT ![t] = b]
  BY <1>1 DEF Settle
<1> HIDE DEF a
<1>4. b \in Tab /\ b.phase = "ready"
  BY <1>2, ItemFields
<1> HIDE DEF b
<1>5. RunKept(b)
  BY <1>4 DEF RunKept
<1>6. UNCHANGED <<online, form, rows, faults>> /\ RowsKept
  BY <1>1 DEF Settle, RowsKept
<1>7. tab' \in [Tabs -> Tab] /\ RunInv'
  BY <1>3, <1>4, <1>5, <1>6, TabStep
<1>8. /\ store' \in [Items -> Entry] /\ store'[i] = e
      /\ \A j \in Items : j # i => store'[j] = store[j]
  BY <1>1 DEF Settle, QueueInv, QueueTypeOK
<1>9. NothingLost'
  BY <1>1, <1>6, <1>8 DEF QueueInv, NothingLost
<1> QED
  BY <1>6, <1>7, <1>8, <1>9 DEF QueueInv, QueueTypeOK, CountsOnce

LEMMA StorageFaultKeeps ==
  ASSUME QueueInv, NEW t \in Tabs, StorageFault(t)
  PROVE  QueueInv'
<1> DEFINE a == [tab[t] EXCEPT !.phase = "idle"]
           b == [a EXCEPT !.list = "sos"]
           c == [b EXCEPT !.todo = {}]
           d == [c EXCEPT !.item = None]
<1>1. tab' = [tab EXCEPT ![t] = d]
  BY DEF StorageFault, Released
<1>2. a \in Tab /\ a.phase = "idle"
  BY PhaseFields DEF QueueInv, QueueTypeOK, OpenPhases
<1> HIDE DEF a
<1>3. b \in Tab /\ b.phase = "idle"
  BY <1>2, ListFields
<1> HIDE DEF b
<1>4. c \in Tab /\ c.phase = "idle"
  BY <1>3, TodoFields
<1> HIDE DEF c
<1>5. d \in Tab /\ d.phase = "idle"
  BY <1>4, ItemFields
<1> HIDE DEF d
<1>6. RunKept(d)
  BY <1>5 DEF RunKept
<1>7. UNCHANGED <<online, store, form, rows>> /\ faults' \in Nat
  BY DEF StorageFault, Fault, QueueInv, QueueTypeOK
<1> QED
  BY <1>1, <1>5, <1>6, <1>7, QuietStep

(* Closing a tab loses what was not yet put; what was put stays. *)
LEMMA CloseKeeps ==
  ASSUME QueueInv, NEW t \in Tabs, Close(t)
  PROVE  QueueInv'
<1> DEFINE q == [NewTab EXCEPT !.phase = "closed"]
<1>1. q \in Tab /\ q.phase = "closed"
  BY DEF NewTab, Tab
<1>2. tab' = [tab EXCEPT ![t] = q] /\ UNCHANGED <<online, store, rows>> /\ faults' \in Nat
  BY DEF Close, Fault, QueueInv, QueueTypeOK
<1> HIDE DEF q
<1>3. RunKept(q) /\ RowsKept
  BY <1>1, <1>2 DEF RunKept, RowsKept
<1>4. tab' \in [Tabs -> Tab] /\ RunInv'
  BY <1>1, <1>2, <1>3, TabStep
<1>5. /\ form' \in [Items -> Form]
      /\ \A i \in Items : form'[i].stage = "queued" => form[i].stage = "queued"
  BY DEF Close, QueueInv, QueueTypeOK, Form
<1>6. NothingLost'
  BY <1>2, <1>5 DEF QueueInv, NothingLost
<1> QED
  BY <1>2, <1>4, <1>5, <1>6 DEF QueueInv, QueueTypeOK, CountsOnce

LEMMA ReopenKeeps ==
  ASSUME QueueInv, NEW t \in Tabs, Reopen(t)
  PROVE  QueueInv'
<1>1. NewTab \in Tab /\ NewTab.phase = "idle"
  BY DEF NewTab, Tab
<1>2. RunKept(NewTab)
  BY <1>1 DEF RunKept
<1> QED
  BY <1>1, <1>2, QuietStep DEF Reopen, QueueInv, QueueTypeOK

(* The connection goes and comes back. *)
LEMMA ConnectionKeeps ==
  ASSUME QueueInv, GoOffline \/ GoOnline
  PROVE  QueueInv'
<1>1. CASE GoOffline
  <2>1. online' = FALSE /\ faults' \in Nat /\ UNCHANGED <<store, form, tab, rows>>
    BY <1>1 DEF GoOffline, Fault, QueueInv, QueueTypeOK
  <2> QED
    BY <2>1 DEF QueueInv, QueueTypeOK, RunInv, NothingLost, CountsOnce
<1>2. CASE GoOnline
  <2> DEFINE n(t) == [tab[t] EXCEPT !.woken = Open(t)]
  <2>1. \A t \in Tabs : n(t) \in Tab /\ n(t).phase = tab[t].phase /\ n(t).item = tab[t].item
    <3>1. \A t \in Tabs : tab[t] \in Tab /\ Open(t) \in BOOLEAN
      BY DEF Open, QueueInv, QueueTypeOK
    <3> QED
      BY <3>1, WokenFields
  <2>2. tab' = [t \in Tabs |-> n(t)] /\ online' = TRUE /\ UNCHANGED <<store, form, rows, faults>>
    BY <1>2 DEF GoOnline
  <2> HIDE DEF n
  <2>3. tab' \in [Tabs -> Tab]
        /\ \A t \in Tabs : tab'[t].phase = tab[t].phase /\ tab'[t].item = tab[t].item
    BY <2>1, <2>2
  <2>4. RunInv'
    BY <2>2, <2>3 DEF QueueInv, RunInv
  <2> QED
    BY <2>2, <2>3, <2>4 DEF QueueInv, QueueTypeOK, NothingLost, CountsOnce
<1> QED
  BY <1>1, <1>2

(***************************************************************************)
(* The theorems.                                                           *)
(***************************************************************************)

LEMMA QueueInitHolds == QueueInit => QueueInv
<1> SUFFICES ASSUME QueueInit
             PROVE  QueueInv
  OBVIOUS
<1>1. NewTab \in Tab /\ NewTab.phase = "idle"
  BY DEF NewTab, Tab
<1>2. QueueTypeOK
  BY <1>1 DEF QueueInit, QueueTypeOK, Entry, Form
<1>3. RunInv
  BY <1>1 DEF QueueInit, RunInv
<1>4. NothingLost /\ CountsOnce
  BY DEF QueueInit, NothingLost, CountsOnce
<1> QED
  BY <1>2, <1>3, <1>4 DEF QueueInv

LEMMA QueueNextKeeps == QueueInv /\ [QueueNext]_queueVars => QueueInv'
<1> SUFFICES ASSUME QueueInv, [QueueNext]_queueVars
             PROVE  QueueInv'
  OBVIOUS
<1>1. ASSUME NEW t \in Tabs, SyncStep(t)
      PROVE  QueueInv'
  BY <1>1, ListKeeps, AdvanceKeeps, ServeKeeps, PostRefusedKeeps, SettleKeeps DEF SyncStep
<1>2. CASE UNCHANGED queueVars
  BY <1>2 DEF queueVars, QueueInv, QueueTypeOK, RunInv, NothingLost, CountsOnce
<1> QED
  BY <1>1, <1>2, SubmitKeeps, PutKeeps, StartKeeps, PostRefusedKeeps, StorageFaultKeeps,
     CloseKeeps, ReopenKeeps, ConnectionKeeps DEF QueueNext

(* However many tabs run the queue at once, an entry is removed only after   *)
(* the server has stored its item.                                           *)
THEOREM QueueInductive == QueueSpec => []QueueInv
<1> QED
  BY QueueInitHolds, QueueNextKeeps, PTL DEF QueueSpec

(* Every reachable state of the queue is well typed.                         *)
THEOREM QueueTypes == QueueSpec => []QueueTypeOK
<1>1. QueueInv => QueueTypeOK
  BY DEF QueueInv
<1> QED
  BY <1>1, QueueInductive, PTL

(* An item the citizen was told is queued is in the store until the server   *)
(* has it, whatever tabs are closed and whatever fails.                      *)
THEOREM NothingIsLost == QueueSpec => []NothingLost
<1>1. QueueInv => NothingLost
  BY DEF QueueInv
<1> QED
  BY <1>1, QueueInductive, PTL

(* However often tabs send a report again, it counts once.                   *)
THEOREM ReportsCountOnce == QueueSpec => []CountsOnce
<1>1. QueueInv => CountsOnce
  BY DEF QueueInv
<1> QED
  BY <1>1, QueueInductive, PTL
=============================================================================
