--------------------------- MODULE RealtimeProofs ---------------------------
(***************************************************************************)
(* Proofs about Realtime, for any workers, sockets and events: every       *)
(* variable keeps its type, a publish_event that returns has served every  *)
(* socket of its worker that was there all along, nobody receives an event *)
(* twice, and nobody hears of another worker's events.                     *)
(*                                                                         *)
(* The argument: the registry is append-only but for the gaps that popping *)
(* leaves, and only sockets that are not open any more are popped.  So an  *)
(* open socket keeps its entry, and while a call iterates, each open       *)
(* socket it began with has its event, has its send suspended, or lies     *)
(* ahead of the iterator.  Every entry is of another socket, so who has    *)
(* the event, or is waited for, is never ahead of the iterator.            *)
(***************************************************************************)
EXTENDS Realtime, FiniteSetTheorems, WellFoundedInduction, TLAPS

Entries == Sockets \cup {None}
Calling(e) == cast[e].phase = "sending"

\* A socket that was accepted has a worker, a call that runs too.
Placed ==
  /\ \A s \in Sockets : state[s] # "new" => home[s] \in Workers
  /\ \A e \in Events : Calling(e) => cast[e].worker \in Workers

\* An open socket has an entry in the registry of its worker.
OpenIsRegistered ==
  \A s \in Sockets : state[s] = "open" =>
    \E i \in DOMAIN active[home[s]] : active[home[s]][i] = s

Accepted(s) == state[s] \notin {"new", "accepting"}

\* A call takes for dead what has gone, and it began with sockets that were open.
CallsAreSound ==
  \A e \in Events :
    /\ \A s \in cast[e].dead : state[s] \in {"gone", "closed"}
    /\ \A s \in cast[e].audience : Accepted(s)
    /\ cast[e].waiting # None => Accepted(cast[e].waiting)

\* Nobody is registered before he is accepted.
RegisteredAreAccepted ==
  \A w \in Workers : \A i \in DOMAIN active[w] :
    active[w][i] \in Sockets => Accepted(active[w][i])

\* Socket s has an entry that the iterator of e has not reached.
InSight(e, s) ==
  \E i \in DOMAIN active[cast[e].worker] :
    i >= cast[e].next /\ active[cast[e].worker][i] = s

Served(e) ==
  /\ Calling(e) =>
       \A s \in Steady(e) : Received(s, e) \/ cast[e].waiting = s \/ InSight(e, s)
  /\ cast[e].phase = "done" => \A s \in Steady(e) : Received(s, e)

EveryoneServed == \A e \in Events : Served(e)

IInv ==
  /\ TypeOK /\ Placed
  /\ OpenIsRegistered /\ RegisteredAreAccepted
  /\ CallsAreSound /\ EveryoneServed

-----------------------------------------------------------------------------
(* The registry and the iterator.                                          *)

(* Popping leaves the other entries where they are. *)
LEMMA PopFields ==
  ASSUME active \in [Workers -> Seq(Entries)], NEW w \in Workers, NEW S
  PROVE  /\ Pop(w, S) \in Seq(Entries)
         /\ DOMAIN Pop(w, S) = DOMAIN active[w]
         /\ \A i \in DOMAIN active[w] :
              Pop(w, S)[i] = IF active[w][i] \in S THEN None ELSE active[w][i]
<1>1. active[w] \in Seq(Entries)
  OBVIOUS
<1>2. DOMAIN active[w] = 1 .. Len(active[w]) /\ Len(active[w]) \in Nat
  BY <1>1
<1>3. \A i \in 1 .. Len(active[w]) : active[w][i] \in Entries
  BY <1>1
<1> DEFINE p == [i \in 1 .. Len(active[w]) |-> IF active[w][i] \in S THEN None ELSE active[w][i]]
<1>4. Pop(w, S) = p
  BY <1>2 DEF Pop
<1>5. p \in Seq(Entries)
  BY <1>2, <1>3 DEF Entries
<1> QED
  BY <1>2, <1>4, <1>5

(* A registry is finite. *)
LEMMA RegisteredIsFinite ==
  ASSUME active \in [Workers -> Seq(Entries)], NEW w \in Workers
  PROVE  Cardinality(Registered(w)) \in Nat
<1> DEFINE q == active[w]
           all == ToSet(q)
<1>1. q \in Seq(Entries) /\ Len(q) \in Nat /\ DOMAIN q = 1 .. Len(q)
  OBVIOUS
<1>2. all = {q[i] : i \in 1 .. Len(q)}
  BY <1>1 DEF ToSet
<1>3. q \in [1 .. Len(q) -> all]
  BY <1>1, <1>2
<1>4. q \in Surjection(1 .. Len(q), all)
  BY <1>2, <1>3 DEF Surjection
<1>5. IsFiniteSet(all)
  <2> HIDE DEF all, q
  <2> QED
    BY <1>1, <1>4, FS_Interval, FS_Surjection
<1>6. IsFiniteSet(Registered(w))
  BY <1>5, FS_Subset DEF Registered
<1> QED
  BY <1>6, FS_CardinalityType

(* The iterator takes the first of the entries ahead of it. *)
LEMMA FirstAhead ==
  ASSUME active \in [Workers -> Seq(Entries)], NEW e \in Events,
         cast[e].worker \in Workers, Ahead(e) # {}
  PROVE  LET i == CHOOSE j \in Ahead(e) : \A k \in Ahead(e) : j <= k
         IN  i \in Ahead(e) /\ i \in Nat /\ \A k \in Ahead(e) : i <= k
<1> DEFINE Below == OpToRel(<, Nat)
           ahead == Ahead(e)
<1>1. ahead \subseteq Nat /\ ahead # {}
  BY DEF Ahead
<1>2. \A x, y \in Nat : <<y, x>> \in Below <=> y < x
  BY DEF OpToRel
<1>3. IsWellFoundedOn(Below, Nat)
  BY NatLessThanWellFounded
<1> HIDE DEF Below, ahead
<1>4. PICK x \in ahead : \A y \in ahead : ~(<<y, x>> \in Below)
  BY <1>1, <1>3, WFMin, Zenon
<1>5. ASSUME NEW y \in ahead PROVE x <= y
  <2>1. x \in Nat /\ y \in Nat
    BY <1>1
  <2>2. ~(y < x)
    BY <1>2, <1>4, <2>1, Zenon
  <2> QED
    BY <2>1, <2>2
<1> DEFINE i == CHOOSE j \in ahead : \A k \in ahead : j <= k
<1>6. i \in ahead /\ \A k \in ahead : i <= k
  BY <1>5, Zenon
<1> QED
  BY <1>1, <1>6 DEF ahead

-----------------------------------------------------------------------------
(* What a step that is not of the call itself leaves of the claim.         *)

\* Open sockets keep their entries, clients keep their events, and whoever was
\* in an audience stays where he was.
Kept ==
  /\ \A w \in Workers : \A i \in DOMAIN active[w] :
       (active[w][i] \in Sockets /\ state'[active[w][i]] = "open")
         => i \in DOMAIN active'[w] /\ active'[w][i] = active[w][i]
  /\ \A s \in Sockets, e \in Events : Received(s, e) => Received(s, e)'
  /\ \A s \in Sockets : Accepted(s) =>
       home'[s] = home[s] /\ (state'[s] = "open" => state[s] = "open")

LEMMA OtherCalls ==
  ASSUME IInv, Kept, NEW e \in Events, cast'[e] = cast[e]
  PROVE  Served(e)'
<1>1. Steady(e)' \subseteq Steady(e) /\ \A s \in Steady(e)' : s \in Sockets /\ state'[s] = "open"
  <2>1. cast[e].audience \subseteq Sockets
    BY DEF IInv, TypeOK, Call
  <2> QED
    BY <2>1 DEF IInv, CallsAreSound, Accepted, Kept, Steady
<1>2. ASSUME NEW s \in Steady(e)', Received(s, e) PROVE Received(s, e)'
  BY <1>1, <1>2 DEF Kept
<1>3. ASSUME Calling(e), NEW s \in Steady(e)', InSight(e, s) PROVE InSight(e, s)'
  <2> DEFINE w == cast[e].worker
  <2>1. w \in Workers /\ s \in Sockets /\ state'[s] = "open"
    BY <1>1, <1>3 DEF IInv, Placed
  <2>2. PICK i \in DOMAIN active[w] : i >= cast[e].next /\ active[w][i] = s
    BY <1>3 DEF InSight
  <2>3. i \in DOMAIN active'[w] /\ active'[w][i] = s
    BY <2>1, <2>2 DEF Kept
  <2> QED
    BY <2>2, <2>3 DEF InSight
<1>4. Calling(e)' <=> Calling(e)
  BY DEF Calling
<1>5. ASSUME Calling(e), NEW s \in Steady(e)'
      PROVE  Received(s, e)' \/ cast'[e].waiting = s \/ InSight(e, s)'
  BY <1>1, <1>2, <1>3, <1>5 DEF IInv, EveryoneServed, Served
<1>6. ASSUME cast[e].phase = "done", NEW s \in Steady(e)' PROVE Received(s, e)'
  BY <1>1, <1>2, <1>6 DEF IInv, EveryoneServed, Served
<1> QED
  BY <1>4, <1>5, <1>6 DEF Served

-----------------------------------------------------------------------------
(* Connections.                                                            *)

(* No call and no client notices a step of a connection. *)
LEMMA QuietStep ==
  ASSUME IInv, Kept, UNCHANGED <<inbox, cast>>
  PROVE  EveryoneServed'
<1> SUFFICES ASSUME NEW e \in Events PROVE Served(e)'
  BY DEF EveryoneServed
<1> QED
  BY OtherCalls

LEMMA ConnectKeeps ==
  ASSUME IInv, NEW s \in Sockets, NEW w \in Workers, Connect(s, w) PROVE IInv'
<1>1. /\ state[s] = "new" /\ UNCHANGED <<active, inbox, cast, redis, loop>>
      /\ state' = [state EXCEPT ![s] = "accepting"]
      /\ home' = [home EXCEPT ![s] = w]
  BY DEF Connect
<1>2. TypeOK'
  BY <1>1 DEF IInv, TypeOK, Life
<1>3. Placed'
  BY <1>1 DEF IInv, TypeOK, Placed, Calling
<1>4. OpenIsRegistered'
  BY <1>1 DEF IInv, TypeOK, OpenIsRegistered
<1>5. CallsAreSound'
  BY <1>1, RealtimeAssumption DEF IInv, TypeOK, CallsAreSound, Accepted, Call
<1>6. Kept
  BY <1>1 DEF IInv, TypeOK, Accepted, Kept, Received
<1>7. EveryoneServed'
  BY <1>1, <1>6, QuietStep
<1>8. RegisteredAreAccepted'
  BY <1>1 DEF IInv, TypeOK, RegisteredAreAccepted, Accepted
<1> QED
  BY <1>2, <1>3, <1>4, <1>5, <1>7, <1>8 DEF IInv

LEMMA RegisterKeeps ==
  ASSUME IInv, NEW s \in Sockets, Register(s) PROVE IInv'
<1> DEFINE w == home[s]
           q == Append(active[w], s)
<1>1. /\ state[s] = "accepting" /\ UNCHANGED <<home, inbox, cast, redis, loop>>
      /\ state' = [state EXCEPT ![s] = "open"]
      /\ active' = [active EXCEPT ![w] = q]
  BY DEF Register
<1>2. w \in Workers /\ active[w] \in Seq(Entries) /\ s \in Entries
  BY <1>1 DEF IInv, TypeOK, Placed, Entries
<1>3. /\ q \in Seq(Entries) /\ DOMAIN q = 1 .. Len(active[w]) + 1
      /\ DOMAIN active[w] = 1 .. Len(active[w]) /\ Len(active[w]) \in Nat
      /\ \A i \in DOMAIN active[w] : q[i] = active[w][i]
      /\ q[Len(active[w]) + 1] = s
  BY <1>2
<1> HIDE DEF q
<1>4. \A v \in Workers : active'[v] = IF v = w THEN q ELSE active[v]
  BY <1>1, <1>2 DEF IInv, TypeOK
<1>5. TypeOK'
  BY <1>1, <1>2, <1>3 DEF IInv, TypeOK, Life, Entries
<1>6. Placed'
  BY <1>1 DEF IInv, TypeOK, Placed, Calling
<1>7. \A v \in Workers : \A i \in DOMAIN active[v] :
        i \in DOMAIN active'[v] /\ active'[v][i] = active[v][i]
  BY <1>3, <1>4
<1>8. OpenIsRegistered'
  <2> SUFFICES ASSUME NEW t \in Sockets, state'[t] = "open"
               PROVE  \E i \in DOMAIN active'[home'[t]] : active'[home'[t]][i] = t
    BY DEF OpenIsRegistered
  <2>1. CASE t = s
    BY <1>1, <1>2, <1>3, <1>4, <2>1
  <2>2. CASE t # s
    <3>1. state[t] = "open" /\ home[t] \in Workers
      BY <1>1, <2>2 DEF IInv, TypeOK, Placed
    <3> QED
      BY <1>1, <1>7, <3>1 DEF IInv, OpenIsRegistered
  <2> QED
    BY <2>1, <2>2
<1>9. CallsAreSound'
  BY <1>1, RealtimeAssumption DEF IInv, TypeOK, CallsAreSound, Accepted, Call
<1>10. Kept
  BY <1>1, <1>7 DEF IInv, TypeOK, Accepted, Kept, Received
<1>11. EveryoneServed'
  BY <1>1, <1>10, QuietStep
<1>12. RegisteredAreAccepted'
  <2> SUFFICES ASSUME NEW v \in Workers, NEW i \in DOMAIN active'[v],
                      active'[v][i] \in Sockets
               PROVE  state'[active'[v][i]] \notin {"new", "accepting"}
    BY DEF RegisteredAreAccepted, Accepted
  <2>1. CASE active'[v][i] = s
    BY <1>1, <2>1 DEF IInv, TypeOK
  <2>2. CASE active'[v][i] # s
    <3>1. i \in DOMAIN active[v] /\ active'[v][i] = active[v][i]
      BY <1>3, <1>4, <2>2
    <3> QED
      BY <1>1, <2>2, <3>1 DEF IInv, TypeOK, RegisteredAreAccepted, Accepted
  <2> QED
    BY <2>1, <2>2
<1> QED
  BY <1>5, <1>6, <1>8, <1>9, <1>11, <1>12 DEF IInv

LEMMA DropKeeps ==
  ASSUME IInv, NEW s \in Sockets, Drop(s) PROVE IInv'
<1>1. /\ state[s] = "open" /\ UNCHANGED <<active, home, inbox, cast, redis, loop>>
      /\ state' = [state EXCEPT ![s] = "gone"]
  BY DEF Drop
<1>2. TypeOK'
  BY <1>1 DEF IInv, TypeOK, Life
<1>3. Placed'
  BY <1>1 DEF IInv, TypeOK, Placed, Calling
<1>4. OpenIsRegistered'
  BY <1>1 DEF IInv, TypeOK, OpenIsRegistered
<1>5. CallsAreSound'
  BY <1>1, RealtimeAssumption DEF IInv, TypeOK, CallsAreSound, Accepted, Call
<1>6. Kept
  BY <1>1 DEF IInv, TypeOK, Accepted, Kept, Received
<1>7. EveryoneServed'
  BY <1>1, <1>6, QuietStep
<1>8. RegisteredAreAccepted'
  BY <1>1 DEF IInv, TypeOK, RegisteredAreAccepted, Accepted
<1> QED
  BY <1>2, <1>3, <1>4, <1>5, <1>7, <1>8 DEF IInv

(* Popping sockets that are not open. *)
LEMMA PopKeeps ==
  ASSUME IInv, NEW w \in Workers, NEW S \in SUBSET Sockets, UNCHANGED home,
         state' \in [Sockets -> Life],
         \A s \in S : state'[s] # "open",
         \A s \in Sockets : state'[s] = "open" => state[s] = "open",
         \A s \in Sockets : Accepted(s) => state'[s] \notin {"new", "accepting"},
         active' = [active EXCEPT ![w] = Pop(w, S)]
  PROVE  /\ active' \in [Workers -> Seq(Entries)]
         /\ OpenIsRegistered' /\ RegisteredAreAccepted'
         /\ \A v \in Workers : \A i \in DOMAIN active[v] :
              (active[v][i] \in Sockets /\ state'[active[v][i]] = "open")
                => i \in DOMAIN active'[v] /\ active'[v][i] = active[v][i]
<1> DEFINE p == Pop(w, S)
<1>1. active \in [Workers -> Seq(Entries)]
  BY DEF IInv, TypeOK, Entries
<1>2. /\ p \in Seq(Entries) /\ DOMAIN p = DOMAIN active[w]
      /\ \A i \in DOMAIN active[w] : p[i] = IF active[w][i] \in S THEN None ELSE active[w][i]
  BY <1>1, PopFields
<1> HIDE DEF p
<1>3. active' = [active EXCEPT ![w] = p]
  BY DEF p
<1>4. \A v \in Workers : active'[v] = IF v = w THEN p ELSE active[v]
  BY <1>1, <1>3
<1>5. \A v \in Workers : \A i \in DOMAIN active[v] :
        (active[v][i] \in Sockets /\ state'[active[v][i]] = "open")
          => i \in DOMAIN active'[v] /\ active'[v][i] = active[v][i]
  BY <1>2, <1>4
<1>6. OpenIsRegistered'
  <2> SUFFICES ASSUME NEW t \in Sockets, state'[t] = "open"
               PROVE  \E i \in DOMAIN active'[home[t]] : active'[home[t]][i] = t
    BY DEF OpenIsRegistered
  <2>1. state[t] = "open" /\ home[t] \in Workers
    BY DEF IInv, Placed
  <2>2. PICK i \in DOMAIN active[home[t]] : active[home[t]][i] = t
    BY <2>1 DEF IInv, OpenIsRegistered
  <2> QED
    BY <1>5, <2>1, <2>2
<1>7. RegisteredAreAccepted'
  <2> SUFFICES ASSUME NEW v \in Workers, NEW i \in DOMAIN active'[v],
                      active'[v][i] \in Sockets
               PROVE  state'[active'[v][i]] \notin {"new", "accepting"}
    BY DEF RegisteredAreAccepted, Accepted
  <2>1. i \in DOMAIN active[v] /\ active'[v][i] = active[v][i]
    BY <1>2, <1>4, RealtimeAssumption
  <2> QED
    BY <2>1 DEF IInv, RegisteredAreAccepted
<1> QED
  BY <1>1, <1>2, <1>3, <1>5, <1>6, <1>7

LEMMA DisconnectKeeps ==
  ASSUME IInv, NEW s \in Sockets, Disconnect(s) PROVE IInv'
<1> DEFINE w == home[s]
<1>1. /\ state[s] = "gone" /\ UNCHANGED <<home, inbox, cast, redis, loop>>
      /\ state' = [state EXCEPT ![s] = "closed"]
      /\ active' = [active EXCEPT ![w] = Pop(w, {s})]
  BY DEF Disconnect, Forgotten
<1>2. w \in Workers
  BY <1>1 DEF IInv, Placed
<1>3. /\ state' \in [Sockets -> Life] /\ \A t \in {s} : state'[t] # "open"
      /\ \A t \in Sockets : state'[t] = "open" => state[t] = "open"
      /\ \A t \in Sockets : Accepted(t) => state'[t] \notin {"new", "accepting"}
  BY <1>1 DEF IInv, TypeOK, Life, Accepted
<1>4. /\ active' \in [Workers -> Seq(Entries)]
      /\ OpenIsRegistered' /\ RegisteredAreAccepted'
      /\ \A v \in Workers : \A i \in DOMAIN active[v] :
           (active[v][i] \in Sockets /\ state'[active[v][i]] = "open")
             => i \in DOMAIN active'[v] /\ active'[v][i] = active[v][i]
  <2>1. {s} \in SUBSET Sockets
    OBVIOUS
  <2> QED
    BY <1>1, <1>2, <1>3, <2>1, PopKeeps
<1>5. TypeOK'
  BY <1>1, <1>3, <1>4 DEF IInv, TypeOK, Entries
<1>6. Placed'
  BY <1>1 DEF IInv, TypeOK, Placed, Calling
<1>7. CallsAreSound'
  BY <1>1, RealtimeAssumption DEF IInv, TypeOK, CallsAreSound, Accepted, Call
<1>8. Kept
  BY <1>1, <1>3, <1>4 DEF IInv, TypeOK, Accepted, Kept, Received
<1>9. EveryoneServed'
  BY <1>1, <1>8, QuietStep
<1> QED
  BY <1>4, <1>5, <1>6, <1>7, <1>9 DEF IInv

-----------------------------------------------------------------------------
(* Calls.                                                                  *)

(* A step of the call of e that leaves connections and registries alone. *)
CallStep(e, q) ==
  /\ q \in Call /\ cast' = [cast EXCEPT ![e] = q]
  /\ UNCHANGED <<active, state, home, redis>>
  /\ inbox' \in [Sockets -> Seq(Events)]
  /\ \A s \in Sockets, d \in Events : Received(s, d) => Received(s, d)'
  /\ loop' \in [Workers -> Events \cup {None}]

LEMMA CallStepKeeps ==
  ASSUME IInv, NEW e \in Events, NEW q \in Call, CallStep(e, q),
         q.phase = "sending" => q.worker \in Workers,
         \A s \in q.dead : state[s] \in {"gone", "closed"},
         \A s \in q.audience : Accepted(s),
         q.waiting # None => Accepted(q.waiting),
         Served(e)'
  PROVE  IInv'
<1>1. \A d \in Events : cast'[d] = IF d = e THEN q ELSE cast[d]
  BY DEF CallStep, IInv, TypeOK
<1>2. TypeOK'
  BY DEF CallStep, IInv, TypeOK
<1>3. Placed'
  BY <1>1 DEF CallStep, IInv, Placed, Calling
<1>4. OpenIsRegistered'
  BY DEF CallStep, IInv, OpenIsRegistered
<1>5. CallsAreSound'
  BY <1>1 DEF CallStep, IInv, CallsAreSound, Accepted
<1>6. Kept /\ RegisteredAreAccepted'
  BY DEF CallStep, Kept, IInv, RegisteredAreAccepted, Accepted
<1>7. ASSUME NEW d \in Events, d # e PROVE Served(d)'
  BY <1>1, <1>6, <1>7, OtherCalls
<1>8. EveryoneServed'
  BY <1>7 DEF EveryoneServed
<1> QED
  BY <1>2, <1>3, <1>4, <1>5, <1>6, <1>8 DEF IInv

(* A call begins with the whole registry ahead of it. *)
LEMMA PublishKeeps ==
  ASSUME IInv, NEW e \in Events, NEW w \in Workers, Publish(e, w) PROVE IInv'
<1> DEFINE n == Cardinality(Registered(w))
           open == {s \in Sockets : state[s] = "open"}
           q == [Unpublished EXCEPT !.phase = "sending", !.worker = w, !.audience = open,
                                    !.size = n, !.left = n]
<1>1. n \in Nat
  BY RegisteredIsFinite DEF IInv, TypeOK, Entries
<1>2. open \in SUBSET Sockets
  OBVIOUS
<1>3. cast' = [cast EXCEPT ![e] = q] /\ loop' = [loop EXCEPT ![w] = e]
      /\ UNCHANGED <<active, state, home, inbox, redis>>
  BY DEF Publish
<1> HIDE DEF n
<1>4. q \in Call /\ q.phase = "sending" /\ q.worker = w /\ q.next = 1 /\ q.dead = {}
      /\ q.audience = open /\ q.waiting = None
  <2> HIDE DEF open
  <2> DEFINE r1 == [Unpublished EXCEPT !.phase = "sending", !.worker = w]
             r2 == [r1 EXCEPT !.audience = open]
  <2>1. /\ r1 \in Call /\ r1.phase = "sending" /\ r1.worker = w /\ r1.next = 1
        /\ r1.dead = {} /\ r1.waiting = None
    BY DEF Unpublished, Call
  <2>2. q = [r2 EXCEPT !.size = n, !.left = n]
    OBVIOUS
  <2> HIDE DEF r1
  <2>3. /\ r2 \in Call /\ r2.phase = "sending" /\ r2.worker = w /\ r2.next = 1
        /\ r2.dead = {} /\ r2.waiting = None /\ r2.audience = open
    BY <1>2, <2>1 DEF Call
  <2> DEFINE r3 == [r2 EXCEPT !.size = n]
  <2>4. q = [r3 EXCEPT !.left = n]
    BY <2>2
  <2> HIDE DEF r2, q
  <2>5. /\ r3 \in Call /\ r3.phase = "sending" /\ r3.worker = w /\ r3.next = 1
        /\ r3.dead = {} /\ r3.waiting = None /\ r3.audience = open
    BY <1>1, <2>3 DEF Call
  <2> HIDE DEF r3
  <2> QED
    BY <1>1, <2>4, <2>5 DEF Call
<1> HIDE DEF q, open
<1>5. CallStep(e, q)
  BY <1>3, <1>4 DEF CallStep, IInv, TypeOK, Received
<1>6. Served(e)'
  <2>1. cast'[e] = q
    BY <1>3 DEF IInv, TypeOK
  <2>2. ASSUME NEW s \in Steady(e)' PROVE InSight(e, s)'
    <3>1. s \in Sockets /\ home[s] = w /\ state[s] = "open"
      BY <1>3, <1>4, <2>1 DEF Steady, open
    <3>2. PICK i \in DOMAIN active[w] : active[w][i] = s
      BY <3>1 DEF IInv, OpenIsRegistered
    <3>3. DOMAIN active[w] \subseteq Nat \ {0}
      BY DEF IInv, TypeOK
    <3>4. i >= 1
      BY <3>2, <3>3
    <3> QED
      BY <1>3, <1>4, <2>1, <3>2, <3>4 DEF InSight
  <2> QED
    BY <1>4, <2>1, <2>2 DEF Served, Calling
<1>7. \A s \in open : Accepted(s)
  BY DEF Accepted, open
<1> QED
  BY <1>4, <1>5, <1>6, <1>7, CallStepKeeps

(* The iterator moves past entry i, the socket there being served, found dead *)
(* or waited for.                                                             *)
LEMMA MovesPast ==
  ASSUME IInv, NEW e \in Events, NEW q \in Call, CallStep(e, q),
         Calling(e), cast[e].waiting = None,
         NEW i \in Ahead(e), i \in Nat, \A k \in Ahead(e) : i <= k,
         q.phase = "sending", q.worker = cast[e].worker, q.next = i + 1,
         q.audience = cast[e].audience,
         NEW s \in Sockets, s = active[cast[e].worker][i],
         Received(s, e)' \/ state[s] # "open" \/ q.waiting = s
  PROVE  Served(e)'
<1> DEFINE w == cast[e].worker
<1>1. cast'[e] = q /\ w \in Workers
  BY DEF CallStep, IInv, TypeOK, Placed
<1>2. Steady(e)' = Steady(e) /\ Steady(e) \subseteq Sockets
  BY <1>1 DEF CallStep, Steady, IInv, TypeOK, Call
<1>3. ASSUME NEW t \in Steady(e)
      PROVE  Received(t, e)' \/ q.waiting = t \/ InSight(e, t)'
  <2>1. t \in Sockets /\ state[t] = "open" /\ t # None
    BY <1>2, RealtimeAssumption DEF Steady
  <2>2. Received(t, e) \/ InSight(e, t)
    BY <2>1 DEF IInv, EveryoneServed, Served
  <2>3. CASE Received(t, e)
    BY <2>1, <2>3 DEF CallStep
  <2>4. CASE InSight(e, t)
    <3>1. PICK j \in DOMAIN active[w] : j >= cast[e].next /\ active[w][j] = t
      BY <2>4 DEF InSight
    <3>2. j \in Ahead(e)
      BY <2>1, <3>1 DEF Ahead
    <3>3. i <= j /\ j \in Nat
      BY <1>1, <3>1, <3>2 DEF IInv, TypeOK
    <3>4. CASE j = i
      BY <2>1, <3>1, <3>4
    <3>5. CASE j # i
      <4>1. j >= q.next
        BY <3>3, <3>5
      <4> QED
        BY <1>1, <3>1, <4>1 DEF InSight, CallStep
    <3> QED
      BY <3>4, <3>5
  <2> QED
    BY <2>2, <2>3, <2>4
<1> QED
  BY <1>1, <1>2, <1>3 DEF Served, Calling

LEMMA InboxGrows ==
  ASSUME IInv, NEW s \in Sockets, NEW e \in Events,
         inbox' = [inbox EXCEPT ![s] = Append(@, e)]
  PROVE  /\ inbox' \in [Sockets -> Seq(Events)]
         /\ \A t \in Sockets, d \in Events : Received(t, d) => Received(t, d)'
         /\ Received(s, e)'
<1> DEFINE b == Append(inbox[s], e)
<1>1. /\ b \in Seq(Events) /\ DOMAIN b = 1 .. Len(inbox[s]) + 1
      /\ DOMAIN inbox[s] = 1 .. Len(inbox[s]) /\ Len(inbox[s]) \in Nat
      /\ \A i \in DOMAIN inbox[s] : b[i] = inbox[s][i]
      /\ b[Len(inbox[s]) + 1] = e
  BY DEF IInv, TypeOK
<1> HIDE DEF b
<1>2. \A t \in Sockets : inbox'[t] = IF t = s THEN b ELSE inbox[t]
  BY DEF IInv, TypeOK, b
<1>3. inbox' \in [Sockets -> Seq(Events)]
  BY <1>1 DEF IInv, TypeOK, b
<1>4. \A t \in Sockets, d \in Events : Received(t, d) => Received(t, d)'
  BY <1>1, <1>2 DEF Received
<1>5. Received(s, e)'
  BY <1>1, <1>2 DEF Received
<1> QED
  BY <1>3, <1>4, <1>5

LEMMA SendKeeps == ASSUME IInv, NEW e \in Events, Send(e) PROVE IInv'
<1> DEFINE q == cast[e]
           w == q.worker
<1>1. Calling(e) /\ q.waiting = None /\ ~Changed(e) /\ Ahead(e) # {}
  BY DEF Send, Moving, Calling
<1>2. w \in Workers /\ q \in Call /\ active \in [Workers -> Seq(Entries)]
  BY <1>1 DEF IInv, Placed, TypeOK, Entries
<1>3. PICK i \in Nat : /\ i = CHOOSE j \in Ahead(e) : \A k \in Ahead(e) : j <= k
                       /\ i \in Ahead(e) /\ \A k \in Ahead(e) : i <= k
  BY <1>1, <1>2, FirstAhead
<1>4. i \in DOMAIN active[w] /\ active[w][i] # None
  BY <1>3 DEF Ahead
<1>5. PICK s \in Sockets : s = active[w][i]
  <2>1. active[w] \in Seq(Entries)
    BY <1>2
  <2>2. active[w][i] \in Entries
    BY <1>4, <2>1
  <2> QED
    BY <1>4, <2>2 DEF Entries
<1> DEFINE on == [q EXCEPT !.next = i + 1, !.left = @ - 1]
<1>6. \/ /\ state[s] = "open"
         /\ inbox' = [inbox EXCEPT ![s] = Append(@, e)]
         /\ cast' = [cast EXCEPT ![e] = on]
         /\ UNCHANGED loop
      \/ /\ state[s] # "open"
         /\ cast' = [cast EXCEPT ![e] = PastDead(on, s)]
         /\ UNCHANGED <<inbox, loop>>
      \/ /\ state[s] = "open"
         /\ cast' = [cast EXCEPT ![e] = [on EXCEPT !.waiting = s]]
         /\ loop' = [loop EXCEPT ![w] = None]
         /\ UNCHANGED inbox
  BY <1>3, <1>5, Zenon DEF Send
<1>7. UNCHANGED <<active, state, home, redis>>
  BY DEF Send
<1>8. q.left # 0
  BY <1>1 DEF Changed
<1>9. /\ on \in Call /\ on.phase = "sending" /\ on.worker = w /\ on.next = i + 1
      /\ on.dead = q.dead /\ on.audience = q.audience /\ on.waiting = None
  <2>1. q.left - 1 \in Nat /\ i + 1 \in Nat
    BY <1>2, <1>3, <1>8 DEF Call
  <2> DEFINE n == i + 1
             l == q.left - 1
             next == [q EXCEPT !.next = n]
  <2>2. on = [next EXCEPT !.left = l]
    BY <1>2 DEF Call
  <2> HIDE DEF l, n
  <2>3. /\ next \in Call /\ next.phase = "sending" /\ next.worker = w /\ next.next = n
        /\ next.dead = q.dead /\ next.audience = q.audience /\ next.waiting = None
    BY <1>1, <1>2, <2>1 DEF Call, Calling, n
  <2> HIDE DEF next
  <2> QED
    BY <2>1, <2>2, <2>3 DEF Call, n, l
<1> HIDE DEF on
<1>10. /\ \A t \in q.dead : state[t] \in {"gone", "closed"}
       /\ \A t \in q.audience : Accepted(t)
       /\ Accepted(s)
  BY <1>2, <1>4, <1>5 DEF IInv, CallsAreSound, RegisteredAreAccepted
<1>11. CASE state[s] = "open" /\ inbox' = [inbox EXCEPT ![s] = Append(@, e)]
            /\ cast' = [cast EXCEPT ![e] = on] /\ UNCHANGED loop
  <2>1. CallStep(e, on) /\ Received(s, e)'
    BY <1>7, <1>5, <1>9, <1>11, InboxGrows DEF CallStep, IInv, TypeOK
  <2>2. Served(e)'
    BY <1>1, <1>3, <1>9, <2>1, <1>5, MovesPast
  <2> QED
    BY <1>2, <1>9, <1>10, <2>1, <2>2, CallStepKeeps
<1>12. CASE state[s] # "open" /\ cast' = [cast EXCEPT ![e] = PastDead(on, s)]
            /\ UNCHANGED <<inbox, loop>>
  <2> DEFINE r == PastDead(on, s)
  <2>1. /\ r \in Call /\ r.phase = "sending" /\ r.worker = w /\ r.next = i + 1
        /\ r.dead = q.dead \cup {s} /\ r.audience = q.audience
    BY <1>5, <1>9 DEF PastDead, Call
  <2> HIDE DEF r
  <2>2. CallStep(e, r)
    BY <1>7, <1>12, <2>1 DEF CallStep, IInv, TypeOK, Received, r
  <2>3. Served(e)'
    BY <1>1, <1>3, <1>12, <2>1, <2>2, <1>5, MovesPast
  <2>4. state[s] \in {"gone", "closed"} /\ r.waiting = None
    BY <1>5, <1>9, <1>10, <1>12 DEF IInv, TypeOK, Life, Accepted, PastDead, r
  <2> QED
    BY <1>2, <1>10, <2>1, <2>2, <2>3, <2>4, CallStepKeeps
<1>13. CASE state[s] = "open" /\ cast' = [cast EXCEPT ![e] = [on EXCEPT !.waiting = s]]
            /\ loop' = [loop EXCEPT ![w] = None] /\ UNCHANGED inbox
  <2> DEFINE r == [on EXCEPT !.waiting = s]
  <2>1. /\ r \in Call /\ r.phase = "sending" /\ r.worker = w /\ r.next = i + 1
        /\ r.dead = q.dead /\ r.audience = q.audience /\ r.waiting = s
    BY <1>5, <1>9 DEF Call
  <2> HIDE DEF r
  <2>2. CallStep(e, r)
    BY <1>2, <1>7, <1>13, <2>1 DEF CallStep, IInv, TypeOK, Received, r
  <2>3. Served(e)'
    BY <1>1, <1>3, <2>1, <2>2, <1>5, MovesPast
  <2> QED
    BY <1>2, <1>10, <2>1, <2>2, <2>3, CallStepKeeps
<1> QED
  BY <1>6, <1>11, <1>12, <1>13

(* A suspended send ends: its socket is served, or is not there any more. *)
LEMMA ResumeKeeps == ASSUME IInv, NEW e \in Events, Resume(e) PROVE IInv'
<1> DEFINE q == cast[e]
           on == PastWait(q)
<1>1. Calling(e) /\ q.waiting # None
  BY DEF Resume, Calling
<1>2. q.worker \in Workers /\ q \in Call
  BY <1>1 DEF IInv, Placed, TypeOK
<1>3. PICK s \in Sockets : s = q.waiting
  BY <1>1, <1>2 DEF Call
<1>4. \/ /\ state[s] = "open"
         /\ inbox' = [inbox EXCEPT ![s] = Append(@, e)]
         /\ cast' = [cast EXCEPT ![e] = on]
      \/ /\ state[s] # "open"
         /\ cast' = [cast EXCEPT ![e] = PastDead(on, s)]
         /\ UNCHANGED inbox
  BY <1>3, Zenon DEF Resume
<1>5. UNCHANGED <<active, state, home, redis>> /\ loop' = [loop EXCEPT ![q.worker] = e]
  BY DEF Resume
<1>6. /\ on \in Call /\ on.phase = "sending" /\ on.worker = q.worker /\ on.next = q.next
      /\ on.dead = q.dead /\ on.audience = q.audience /\ on.waiting = None
  BY <1>1, <1>2 DEF PastWait, Call, Calling
<1> HIDE DEF on
<1>7. loop' \in [Workers -> Events \cup {None}]
  BY <1>2, <1>5 DEF IInv, TypeOK
<1>8. /\ \A t \in q.dead : state[t] \in {"gone", "closed"}
      /\ \A t \in q.audience : Accepted(t)
      /\ Accepted(s)
  BY <1>1, <1>3 DEF IInv, CallsAreSound
<1>9. ASSUME NEW r \in Call, CallStep(e, r), r.phase = "sending", r.worker = q.worker,
             r.next = q.next, r.audience = q.audience,
             Received(s, e)' \/ state[s] # "open"
      PROVE  Served(e)'
  <2>1. cast'[e] = r
    BY <1>9 DEF CallStep, IInv, TypeOK
  <2>2. Steady(e)' = Steady(e) /\ Steady(e) \subseteq Sockets
    BY <1>2, <1>9, <2>1 DEF CallStep, Steady, Call
  <2>3. ASSUME NEW t \in Steady(e) PROVE Received(t, e)' \/ InSight(e, t)'
    <3>1. t \in Sockets /\ state[t] = "open"
      BY <2>2 DEF Steady
    <3>2. Received(t, e) \/ t = s \/ InSight(e, t)
      BY <1>1, <1>3 DEF IInv, EveryoneServed, Served
    <3>3. Received(t, e) => Received(t, e)'
      BY <1>9, <3>1 DEF CallStep
    <3>4. InSight(e, t) => InSight(e, t)'
      BY <1>9, <2>1 DEF InSight, CallStep
    <3> QED
      BY <1>9, <3>1, <3>2, <3>3, <3>4
  <2> QED
    BY <1>9, <2>1, <2>2, <2>3 DEF Served, Calling
<1>10. CASE state[s] = "open" /\ inbox' = [inbox EXCEPT ![s] = Append(@, e)]
            /\ cast' = [cast EXCEPT ![e] = on]
  <2>1. CallStep(e, on) /\ Received(s, e)'
    BY <1>5, <1>6, <1>7, <1>10, InboxGrows DEF CallStep
  <2>2. Served(e)'
    BY <1>6, <1>9, <2>1
  <2> QED
    BY <1>2, <1>6, <1>8, <2>1, <2>2, CallStepKeeps
<1>11. CASE state[s] # "open" /\ cast' = [cast EXCEPT ![e] = PastDead(on, s)]
            /\ UNCHANGED inbox
  <2> DEFINE r == PastDead(on, s)
  <2>1. /\ r \in Call /\ r.phase = "sending" /\ r.worker = q.worker /\ r.next = q.next
        /\ r.dead = q.dead \cup {s} /\ r.audience = q.audience /\ r.waiting = None
    BY <1>6 DEF PastDead, Call
  <2> HIDE DEF r
  <2>2. CallStep(e, r)
    BY <1>5, <1>7, <1>11, <2>1 DEF CallStep, IInv, TypeOK, Received, r
  <2>3. Served(e)'
    BY <1>9, <1>11, <2>1, <2>2
  <2>4. state[s] \in {"gone", "closed"}
    BY <1>8, <1>11 DEF IInv, TypeOK, Life, Accepted
  <2> QED
    BY <1>2, <1>8, <2>1, <2>2, <2>3, <2>4, CallStepKeeps
<1> QED
  BY <1>4, <1>10, <1>11

(* A call that ends in an error promises nothing. *)
LEMMA FailKeeps == ASSUME IInv, NEW e \in Events, Fail(e) PROVE IInv'
<1> DEFINE q == cast[e]
           r == Raise(e)
<1>1. q \in Call
  BY DEF IInv, TypeOK
<1>2. /\ r \in Call /\ r.phase = "error" /\ r.dead = q.dead /\ r.audience = q.audience
      /\ r.waiting = q.waiting
  BY <1>1 DEF Raise, Call
<1>3. cast' = [cast EXCEPT ![e] = r] /\ UNCHANGED <<active, state, home, inbox, redis>>
      /\ loop' = [loop EXCEPT ![q.worker] = None]
  BY DEF Fail
<1> HIDE DEF r
<1>4. CallStep(e, r)
  BY <1>2, <1>3 DEF CallStep, IInv, TypeOK, Received
<1>5. Served(e)'
  BY <1>2, <1>3 DEF Served, Calling, IInv, TypeOK
<1>6. /\ \A t \in q.dead : state[t] \in {"gone", "closed"}
      /\ \A t \in q.audience : Accepted(t)
      /\ q.waiting # None => Accepted(q.waiting)
  BY DEF IInv, CallsAreSound
<1> QED
  BY <1>2, <1>4, <1>5, <1>6, CallStepKeeps

(* The iteration is complete when nothing lies ahead and no send is pending: *)
(* whoever has been there all along has been served.  Then the dead go.      *)
LEMMA CompleteKeeps == ASSUME IInv, NEW e \in Events, Complete(e) PROVE IInv'
<1> DEFINE q == cast[e]
           w == q.worker
           r == [q EXCEPT !.phase = "done"]
<1>1. Calling(e) /\ q.waiting = None /\ Ahead(e) = {}
  BY DEF Complete, Moving, Calling
<1>2. w \in Workers /\ q \in Call /\ q.dead \in SUBSET Sockets
  BY <1>1 DEF IInv, Placed, TypeOK, Call
<1>3. /\ active' = [active EXCEPT ![w] = Pop(w, q.dead)]
      /\ redis' = Append(redis, e) /\ loop' = [loop EXCEPT ![w] = None]
      /\ cast' = [cast EXCEPT ![e].phase = "done"] /\ UNCHANGED <<state, home, inbox>>
  BY DEF Complete
<1>4. cast' = [cast EXCEPT ![e] = r]
  BY <1>3
<1>5. /\ r \in Call /\ r.phase = "done" /\ r.dead = q.dead /\ r.audience = q.audience
      /\ r.waiting = q.waiting /\ r.worker = w
  BY <1>2 DEF Call
<1> HIDE DEF r
<1>6. \A d \in Events : cast'[d] = IF d = e THEN r ELSE cast[d]
  BY <1>4 DEF IInv, TypeOK
<1>7. \A s \in q.dead : state'[s] # "open"
  BY <1>3 DEF IInv, CallsAreSound
<1>8. /\ active' \in [Workers -> Seq(Entries)]
      /\ OpenIsRegistered' /\ RegisteredAreAccepted'
      /\ \A v \in Workers : \A i \in DOMAIN active[v] :
           (active[v][i] \in Sockets /\ state'[active[v][i]] = "open")
             => i \in DOMAIN active'[v] /\ active'[v][i] = active[v][i]
  <2>1. state' \in [Sockets -> Life] /\ \A s \in Sockets : state'[s] = "open" => state[s] = "open"
    BY <1>3 DEF IInv, TypeOK
  <2>2. \A s \in Sockets : Accepted(s) => state'[s] \notin {"new", "accepting"}
    BY <1>3 DEF Accepted
  <2>3. UNCHANGED home
    BY <1>3
  <2> QED
    BY <1>2, <1>3, <1>7, <2>1, <2>2, <2>3, PopKeeps
<1>9. TypeOK'
  <2>1. redis' \in Seq(Events)
    BY <1>3 DEF IInv, TypeOK
  <2>2. cast' \in [Events -> Call] /\ loop' \in [Workers -> Events \cup {None}]
    BY <1>2, <1>3, <1>4, <1>5 DEF IInv, TypeOK
  <2> QED
    BY <1>3, <1>8, <2>1, <2>2 DEF IInv, TypeOK, Entries
<1>10. Placed'
  BY <1>3, <1>5, <1>6 DEF IInv, Placed, Calling
<1>11. CallsAreSound'
  BY <1>3, <1>5, <1>6 DEF IInv, CallsAreSound, Accepted
<1>12. Kept
  BY <1>3, <1>8 DEF Kept, Received
<1>13. Served(e)'
  <2>1. Steady(e)' = Steady(e) /\ Steady(e) \subseteq Sockets
    BY <1>2, <1>3, <1>5, <1>6 DEF Steady, Call
  <2>2. ASSUME NEW s \in Steady(e) PROVE Received(s, e)'
    <3>1. s # None
      BY <2>1, RealtimeAssumption
    <3>2. ~InSight(e, s)
      BY <1>1, <3>1 DEF InSight, Ahead
    <3>3. Received(s, e)
      BY <1>1, <3>1, <3>2 DEF IInv, EveryoneServed, Served
    <3> QED
      BY <1>3, <3>3 DEF Received
  <2> QED
    BY <1>5, <1>6, <2>1, <2>2 DEF Served, Calling
<1>14. ASSUME NEW d \in Events, d # e PROVE Served(d)'
  BY <1>6, <1>12, <1>14, OtherCalls
<1>15. EveryoneServed'
  BY <1>13, <1>14 DEF EveryoneServed
<1> QED
  BY <1>8, <1>9, <1>10, <1>11, <1>15 DEF IInv

-----------------------------------------------------------------------------
(* The specification.                                                      *)

LEMMA InitHolds == Init => IInv
<1> SUFFICES ASSUME Init PROVE IInv
  OBVIOUS
<1>1. Unpublished \in Call /\ Unpublished.phase = "idle" /\ Unpublished.waiting = None
      /\ Unpublished.dead = {} /\ Unpublished.audience = {}
  BY DEF Unpublished, Call
<1>2. TypeOK
  BY <1>1 DEF Init, TypeOK, Life
<1>3. Placed /\ OpenIsRegistered /\ RegisteredAreAccepted
  BY <1>1 DEF Init, Placed, Calling, OpenIsRegistered, RegisteredAreAccepted
<1>4. CallsAreSound /\ EveryoneServed
  BY <1>1 DEF Init, CallsAreSound, EveryoneServed, Served, Calling
<1> QED
  BY <1>2, <1>3, <1>4 DEF IInv

LEMMA StutterKeeps == ASSUME IInv, UNCHANGED vars PROVE IInv'
<1>1. UNCHANGED active /\ UNCHANGED state /\ UNCHANGED home /\ UNCHANGED inbox
      /\ UNCHANGED cast /\ UNCHANGED redis /\ UNCHANGED loop
  BY DEF vars
<1>2. TypeOK' /\ Placed'
  BY <1>1 DEF IInv, TypeOK, Placed, Calling
<1>3. OpenIsRegistered' /\ RegisteredAreAccepted' /\ CallsAreSound'
  BY <1>1 DEF IInv, OpenIsRegistered, RegisteredAreAccepted, CallsAreSound, Accepted
<1>4. Kept
  BY <1>1 DEF Kept, Received
<1>5. EveryoneServed'
  BY <1>1, <1>4, QuietStep
<1> QED
  BY <1>2, <1>3, <1>5 DEF IInv

LEMMA NextKeeps == IInv /\ [Next]_vars => IInv'
<1> SUFFICES ASSUME IInv, [Next]_vars PROVE IInv'
  OBVIOUS
<1>1. ASSUME NEW s \in Sockets, NEW w \in Workers, Connect(s, w) PROVE IInv'
  BY <1>1, ConnectKeeps
<1>2. ASSUME NEW s \in Sockets, Register(s) \/ Drop(s) \/ Disconnect(s) PROVE IInv'
  BY <1>2, RegisterKeeps, DropKeeps, DisconnectKeeps
<1>3. ASSUME NEW e \in Events, NEW w \in Workers, Publish(e, w) PROVE IInv'
  BY <1>3, PublishKeeps
<1>4. ASSUME NEW e \in Events, Proceed(e) PROVE IInv'
  BY <1>4, SendKeeps, ResumeKeeps, CompleteKeeps, FailKeeps DEF Proceed
<1>5. CASE Rest \/ UNCHANGED vars
  BY <1>5, StutterKeeps DEF Rest
<1> QED
  BY <1>1, <1>2, <1>3, <1>4, <1>5 DEF Next

(* Whatever sockets come and go, every variable holds a value of its type: the *)
(* iterator's count of items still expected never drops below zero, and every  *)
(* worker's loop runs one of the published events.                             *)
THEOREM TypeCorrect == Spec => []TypeOK
<1>1. IInv => TypeOK
  BY DEF IInv
<1> QED
  BY <1>1, InitHolds, NextKeeps, PTL DEF Spec

(* A publish_event that returns has served every socket of its worker that was  *)
(* open when it began and is still open, however many sockets came, went and    *)
(* were found dead while its sends waited.                                      *)
THEOREM CompletedCallsServeAll == Spec => []CompletedServesAll
<1>1. IInv => CompletedServesAll
  BY DEF IInv, EveryoneServed, Served, CompletedServesAll
<1> QED
  BY <1>1, InitHolds, NextKeeps, PTL DEF Spec

-----------------------------------------------------------------------------
(* Nobody is served twice: an entry is of one socket, which the iterator   *)
(* passes once, and who has an event or waits for it is not ahead of it.   *)

Single ==
  \A w \in Workers : \A i, j \in DOMAIN active[w] :
    active[w][i] \in Sockets /\ active[w][i] = active[w][j] => i = j

AtHome ==
  \A w \in Workers : \A i \in DOMAIN active[w] :
    active[w][i] \in Sockets => home[active[w][i]] = w

\* What is true of a client that has event e.
HasHeard(s, e) ==
  /\ cast[e].phase # "idle" /\ Accepted(s) /\ home[s] = cast[e].worker
  /\ Calling(e) => cast[e].waiting # s /\ ~InSight(e, s)
Heard == \A s \in Sockets, e \in Events : Received(s, e) => HasHeard(s, e)

\* What is true of the client a call waits for.
Waits(e) ==
  \A s \in Sockets : Calling(e) /\ cast[e].waiting = s =>
    home[s] = cast[e].worker /\ ~InSight(e, s)

NoneTwice == \A s \in Sockets : \A i, j \in DOMAIN inbox[s] : inbox[s][i] = inbox[s][j] => i = j

OInv == Single /\ AtHome /\ Heard /\ NoneTwice /\ \A e \in Events : Waits(e)

\* Entries are popped, not added, and who was accepted stays where he is.
Fewer ==
  /\ \A w \in Workers : \A i \in DOMAIN active'[w] :
       active'[w][i] \in Sockets => i \in DOMAIN active[w] /\ active'[w][i] = active[w][i]
  /\ \A s \in Sockets : Accepted(s) => Accepted(s)' /\ home'[s] = home[s]

LEMMA FewerEntries ==
  ASSUME IInv, OInv, Fewer
  PROVE  /\ Single' /\ AtHome'
         /\ \A e \in Events, s \in Sockets :
              cast[e].worker \in Workers /\ cast'[e] = cast[e] /\ InSight(e, s)' => InSight(e, s)
<1>1. Single'
  BY DEF OInv, Single, Fewer
<1>2. AtHome'
  BY DEF OInv, AtHome, Fewer, IInv, RegisteredAreAccepted
<1>3. ASSUME NEW e \in Events, NEW s \in Sockets,
             cast[e].worker \in Workers, cast'[e] = cast[e], InSight(e, s)'
      PROVE  InSight(e, s)
  BY <1>3 DEF Fewer, InSight
<1> QED
  BY <1>1, <1>2, <1>3

(* The claim of a call that does not move, when entries go. *)
LEMMA OthersWait ==
  ASSUME IInv, OInv, Fewer, NEW e \in Events, cast'[e] = cast[e]
  PROVE  /\ Waits(e)'
         /\ \A s \in Sockets : HasHeard(s, e) => HasHeard(s, e)'
<1>1. Calling(e) => cast[e].worker \in Workers
  BY DEF IInv, Placed
<1>2. \A s \in Sockets : Calling(e) /\ InSight(e, s)' => InSight(e, s)
  BY <1>1, FewerEntries
<1>3. Calling(e)' <=> Calling(e)
  BY DEF Calling
<1>4. ASSUME NEW s \in Sockets, HasHeard(s, e) PROVE HasHeard(s, e)'
  BY <1>2, <1>3, <1>4 DEF HasHeard, Fewer
<1>5. Waits(e)'
  <2> SUFFICES ASSUME NEW s \in Sockets, Calling(e), cast[e].waiting = s
               PROVE  home'[s] = cast[e].worker /\ ~InSight(e, s)'
    BY <1>3 DEF Waits
  <2>1. Accepted(s) /\ s # None
    BY RealtimeAssumption DEF IInv, CallsAreSound
  <2>2. home[s] = cast[e].worker /\ ~InSight(e, s)
    BY DEF OInv, Waits
  <2> QED
    BY <1>2, <2>1, <2>2 DEF Fewer
<1> QED
  BY <1>4, <1>5

(* A step of a connection, or none. *)
LEMMA QuietOnce ==
  ASSUME IInv, OInv, Fewer, UNCHANGED <<inbox, cast>> PROVE OInv'
<1>1. Single' /\ AtHome'
  BY FewerEntries
<1>2. \A e \in Events : Waits(e)' /\ \A s \in Sockets : HasHeard(s, e) => HasHeard(s, e)'
  BY OthersWait
<1>3. Heard'
  BY <1>2 DEF OInv, Heard, Received
<1>4. NoneTwice'
  BY DEF OInv, NoneTwice
<1> QED
  BY <1>1, <1>2, <1>3, <1>4 DEF OInv

LEMMA RegisterOnce ==
  ASSUME IInv, OInv, NEW s \in Sockets, Register(s) PROVE OInv'
<1> DEFINE w == home[s]
           q == Append(active[w], s)
<1>1. /\ state[s] = "accepting" /\ UNCHANGED home /\ UNCHANGED inbox /\ UNCHANGED cast
      /\ state' = [state EXCEPT ![s] = "open"]
      /\ active' = [active EXCEPT ![w] = q]
  BY DEF Register
<1>2. w \in Workers /\ active[w] \in Seq(Entries) /\ s \in Entries
  BY <1>1 DEF IInv, TypeOK, Placed, Entries
<1>3. /\ DOMAIN q = 1 .. Len(active[w]) + 1
      /\ DOMAIN active[w] = 1 .. Len(active[w]) /\ Len(active[w]) \in Nat
      /\ \A i \in DOMAIN active[w] : q[i] = active[w][i]
      /\ q[Len(active[w]) + 1] = s
  BY <1>2
<1> HIDE DEF q
<1>4. \A v \in Workers : active'[v] = IF v = w THEN q ELSE active[v]
  BY <1>1, <1>2 DEF IInv, TypeOK
<1>5. \A v \in Workers : \A i \in DOMAIN active[v] : active[v][i] # s
  BY <1>1 DEF IInv, RegisteredAreAccepted, Accepted
<1>6. \A v \in Workers : \A i \in DOMAIN active'[v] :
        active'[v][i] # s => i \in DOMAIN active[v] /\ active'[v][i] = active[v][i]
  BY <1>3, <1>4
<1>7. \A v \in Workers : \A i \in DOMAIN active'[v] :
        active'[v][i] = s => v = w /\ i = Len(active[w]) + 1
  BY <1>3, <1>4, <1>5
<1>8. Single'
  BY <1>6, <1>7 DEF OInv, Single
<1>9. AtHome'
  BY <1>1, <1>6, <1>7 DEF OInv, AtHome
<1>10. \A t \in Sockets : Accepted(t) => t # s /\ Accepted(t)'
  BY <1>1 DEF IInv, TypeOK, Accepted
<1>11. ASSUME NEW e \in Events, NEW t \in Sockets, Calling(e), t # s, InSight(e, t)'
       PROVE  InSight(e, t)
  <2>1. cast[e].worker \in Workers
    BY <1>11 DEF IInv, Placed
  <2> QED
    BY <1>1, <1>6, <1>11, <2>1 DEF InSight
<1>12. Heard'
  <2> SUFFICES ASSUME NEW t \in Sockets, NEW e \in Events, Received(t, e)' PROVE HasHeard(t, e)'
    BY DEF Heard
  <2>1. HasHeard(t, e)
    BY <1>1 DEF OInv, Heard, Received
  <2> QED
    BY <1>1, <1>10, <1>11, <2>1 DEF HasHeard, Calling
<1>13. ASSUME NEW e \in Events PROVE Waits(e)'
  <2> SUFFICES ASSUME NEW t \in Sockets, Calling(e), cast[e].waiting = t
               PROVE  home[t] = cast[e].worker /\ ~InSight(e, t)'
    BY <1>1 DEF Waits, Calling
  <2>1. Accepted(t) /\ home[t] = cast[e].worker /\ ~InSight(e, t)
    BY RealtimeAssumption DEF IInv, CallsAreSound, OInv, Waits
  <2>2. t # s
    BY <1>10, <2>1
  <2> QED
    BY <1>11, <2>1, <2>2
<1>14. NoneTwice'
  BY <1>1 DEF OInv, NoneTwice
<1> QED
  BY <1>8, <1>9, <1>12, <1>13, <1>14 DEF OInv

(* A step of the call of e. *)
LEMMA CallOnce ==
  ASSUME IInv, OInv, Fewer, NEW e \in Events, NEW q \in Call, cast' = [cast EXCEPT ![e] = q],
         UNCHANGED <<state, home>>, NoneTwice',
         \A t \in Sockets, d \in Events : d # e /\ Received(t, d)' => Received(t, d),
         \A t \in Sockets : Received(t, e)' => HasHeard(t, e)',
         Waits(e)'
  PROVE  OInv'
<1>1. \A d \in Events : d # e => cast'[d] = cast[d]
  BY DEF IInv, TypeOK
<1>2. Single' /\ AtHome'
  BY FewerEntries
<1>3. \A d \in Events : d # e =>
        Waits(d)' /\ \A s \in Sockets : HasHeard(s, d) => HasHeard(s, d)'
  BY <1>1, OthersWait
<1>4. Heard'
  BY <1>3 DEF OInv, Heard
<1> QED
  BY <1>2, <1>3, <1>4 DEF OInv

(* A client that does not have an event gets it. *)
LEMMA DeliveredOnce ==
  ASSUME IInv, OInv, NEW s \in Sockets, NEW e \in Events, ~Received(s, e),
         inbox' = [inbox EXCEPT ![s] = Append(@, e)]
  PROVE  /\ NoneTwice'
         /\ \A t \in Sockets, d \in Events : Received(t, d)' => Received(t, d) \/ (t = s /\ d = e)
<1> DEFINE b == Append(inbox[s], e)
<1>1. /\ DOMAIN b = 1 .. Len(inbox[s]) + 1
      /\ DOMAIN inbox[s] = 1 .. Len(inbox[s]) /\ Len(inbox[s]) \in Nat
      /\ \A i \in DOMAIN inbox[s] : b[i] = inbox[s][i]
      /\ b[Len(inbox[s]) + 1] = e
  BY DEF IInv, TypeOK
<1> HIDE DEF b
<1>2. \A t \in Sockets : inbox'[t] = IF t = s THEN b ELSE inbox[t]
  BY DEF IInv, TypeOK, b
<1>3. \A i \in DOMAIN b : i # Len(inbox[s]) + 1 => i \in DOMAIN inbox[s] /\ b[i] # e
  BY <1>1 DEF Received
<1>4. \A i, j \in DOMAIN b : b[i] = b[j] => i = j
  BY <1>1, <1>3 DEF OInv, NoneTwice
<1>5. NoneTwice'
  <2> SUFFICES ASSUME NEW t \in Sockets, NEW i \in DOMAIN inbox'[t], NEW j \in DOMAIN inbox'[t],
                      inbox'[t][i] = inbox'[t][j]
               PROVE  i = j
    BY DEF NoneTwice
  <2>1. CASE t = s
    <3>1. inbox'[t] = b
      BY <1>2, <2>1
    <3> QED
      BY <1>4, <3>1
  <2>2. CASE t # s
    <3>1. inbox'[t] = inbox[t]
      BY <1>2, <2>2
    <3> QED
      BY <3>1 DEF OInv, NoneTwice
  <2> QED
    BY <2>1, <2>2
<1>6. ASSUME NEW t \in Sockets, NEW d \in Events, Received(t, d)'
      PROVE  Received(t, d) \/ (t = s /\ d = e)
  <2>1. \E i \in DOMAIN inbox'[t] : inbox'[t][i] = d
    BY <1>6 DEF Received
  <2>2. CASE t = s
    <3>1. inbox'[t] = b
      BY <1>2, <2>2
    <3>2. PICK i \in DOMAIN b : b[i] = d
      BY <2>1, <3>1
    <3>3. CASE i = Len(inbox[s]) + 1
      BY <1>1, <2>2, <3>2, <3>3
    <3>4. CASE i # Len(inbox[s]) + 1
      <4>1. i \in DOMAIN inbox[s] /\ inbox[s][i] = d
        BY <1>1, <1>3, <3>2, <3>4
      <4> QED
        BY <2>2, <4>1 DEF Received
    <3> QED
      BY <3>3, <3>4
  <2>3. CASE t # s
    <3>1. inbox'[t] = inbox[t]
      BY <1>2, <2>3
    <3>2. \E i \in DOMAIN inbox[t] : inbox[t][i] = d
      BY <2>1, <3>1
    <3> QED
      BY <3>2 DEF Received
  <2> QED
    BY <2>2, <2>3
<1> QED
  BY <1>5, <1>6

LEMMA StillFewer == ASSUME IInv, UNCHANGED <<active, state, home>> PROVE Fewer
  BY DEF Fewer, Accepted

(* Nobody has an event that is not published. *)
LEMMA PublishOnce ==
  ASSUME IInv, OInv, NEW e \in Events, NEW w \in Workers, Publish(e, w), IInv' PROVE OInv'
<1>1. /\ cast[e].phase = "idle" /\ UNCHANGED <<active, state, home>> /\ UNCHANGED inbox
      /\ \E a, n : cast' = [cast EXCEPT ![e] =
           [Unpublished EXCEPT !.phase = "sending", !.worker = w, !.audience = a,
                               !.size = n, !.left = n]]
  BY Zenon DEF Publish
<1>2. PICK q \in Call : cast' = [cast EXCEPT ![e] = q] /\ q.waiting = None
  <2>1. PICK a, n : cast' = [cast EXCEPT ![e] =
           [Unpublished EXCEPT !.phase = "sending", !.worker = w, !.audience = a,
                               !.size = n, !.left = n]]
    BY <1>1
  <2> DEFINE r == [Unpublished EXCEPT !.phase = "sending", !.worker = w, !.audience = a,
                                      !.size = n, !.left = n]
  <2>2. r.waiting = None
    BY DEF Unpublished
  <2> HIDE DEF r
  <2>3. cast' = [cast EXCEPT ![e] = r]
    BY <2>1 DEF r
  <2>4. r = cast'[e] /\ cast'[e] \in Call
    BY <2>3 DEF IInv, TypeOK
  <2> QED
    BY <2>2, <2>3, <2>4
<1>4. \A t \in Sockets : ~Received(t, e)'
  BY <1>1 DEF OInv, Heard, HasHeard, Received
<1>5. Waits(e)'
  BY <1>2, RealtimeAssumption DEF Waits, IInv, TypeOK
<1>6. NoneTwice' /\ \A t \in Sockets, d \in Events : Received(t, d)' => Received(t, d)
  BY <1>1 DEF OInv, NoneTwice, Received
<1>7. Fewer
  BY <1>1, StillFewer
<1> QED
  BY <1>1, <1>2, <1>4, <1>5, <1>6, <1>7, CallOnce

(* The iterator moves past entry i: its socket cannot have the event yet, and  *)
(* is not ahead of the iterator any more.                                      *)
LEMMA MoveOnce ==
  ASSUME IInv, OInv, NEW e \in Events, NEW q \in Call, Calling(e),
         NEW i \in Ahead(e), i \in Nat,
         NEW s \in Sockets, s = active[cast[e].worker][i],
         q.phase = "sending", q.worker = cast[e].worker, q.next = i + 1,
         q.waiting \in {None, s},
         cast' = [cast EXCEPT ![e] = q], UNCHANGED <<active, state, home>>,
         \/ UNCHANGED inbox
         \/ inbox' = [inbox EXCEPT ![s] = Append(@, e)] /\ q.waiting = None
  PROVE  OInv'
<1> DEFINE w == cast[e].worker
<1>1. cast'[e] = q /\ w \in Workers /\ cast[e].next \in Nat
  BY DEF IInv, TypeOK, Placed, Call
<1>2. i \in DOMAIN active[w] /\ i >= cast[e].next /\ active[w][i] = s
  BY DEF Ahead
<1>3. InSight(e, s)
  BY <1>2 DEF InSight
<1>4. Accepted(s) /\ home[s] = w /\ ~Received(s, e)
  BY <1>1, <1>2, <1>3 DEF IInv, RegisteredAreAccepted, OInv, AtHome, Heard, HasHeard
<1>5. ASSUME NEW t \in Sockets, InSight(e, t)' PROVE t # s /\ InSight(e, t)
  <2>1. PICK j \in DOMAIN active[w] : j >= i + 1 /\ active[w][j] = t
    BY <1>1, <1>5 DEF InSight
  <2>2. j \in Nat
    BY <1>1 DEF IInv, TypeOK
  <2>3. j # i /\ j >= cast[e].next
    BY <1>1, <1>2, <2>1, <2>2
  <2>4. t # s
    BY <1>1, <1>2, <2>1, <2>3 DEF OInv, Single
  <2> QED
    BY <2>1, <2>3, <2>4 DEF InSight
<1>6. /\ NoneTwice'
      /\ \A t \in Sockets, d \in Events :
           Received(t, d)' => Received(t, d) \/ (t = s /\ d = e /\ q.waiting = None)
  <2>1. CASE UNCHANGED inbox
    BY <2>1 DEF OInv, NoneTwice, Received
  <2>2. CASE inbox' = [inbox EXCEPT ![s] = Append(@, e)] /\ q.waiting = None
    <3>1. /\ NoneTwice'
          /\ \A t \in Sockets, d \in Events :
               Received(t, d)' => Received(t, d) \/ (t = s /\ d = e)
      BY <1>4, <2>2, DeliveredOnce
    <3> QED
      BY <2>2, <3>1
  <2> QED
    BY <2>1, <2>2
<1>7. ASSUME NEW t \in Sockets, Received(t, e)' PROVE HasHeard(t, e)'
  <2>1. /\ cast[e].phase # "idle" /\ Accepted(t) /\ home[t] = w
        /\ q.waiting # t
    BY <1>4, <1>6, <1>7, RealtimeAssumption DEF OInv, Heard, HasHeard, Calling
  <2>2. ~InSight(e, t)'
    <3>1. CASE t = s
      BY <1>5, <3>1
    <3>2. CASE t # s
      BY <1>5, <1>6, <1>7, <3>2 DEF OInv, Heard, HasHeard
    <3> QED
      BY <3>1, <3>2
  <2> QED
    BY <1>1, <2>1, <2>2 DEF HasHeard, Accepted, Calling
<1>8. Waits(e)'
  <2> SUFFICES ASSUME NEW t \in Sockets, q.waiting = t PROVE home[t] = w /\ ~InSight(e, t)'
    BY <1>1 DEF Waits
  <2>1. t = s
    BY RealtimeAssumption
  <2> QED
    BY <1>4, <1>5, <2>1
<1>9. Fewer
  BY StillFewer
<1> QED
  BY <1>6, <1>7, <1>8, <1>9, CallOnce

LEMMA SendOnce == ASSUME IInv, OInv, NEW e \in Events, Send(e) PROVE OInv'
<1> DEFINE q == cast[e]
           w == q.worker
<1>1. Calling(e) /\ q.waiting = None /\ Ahead(e) # {}
  BY DEF Send, Moving, Calling
<1>2. w \in Workers /\ q \in Call /\ active \in [Workers -> Seq(Entries)]
  BY <1>1 DEF IInv, Placed, TypeOK, Entries
<1>3. PICK i \in Nat : /\ i = CHOOSE j \in Ahead(e) : \A k \in Ahead(e) : j <= k
                       /\ i \in Ahead(e)
  BY <1>1, <1>2, FirstAhead
<1>4. i \in DOMAIN active[w] /\ active[w][i] # None
  BY <1>3 DEF Ahead
<1>5. PICK s \in Sockets : s = active[w][i]
  <2>1. active[w] \in Seq(Entries)
    BY <1>2
  <2>2. active[w][i] \in Entries
    BY <1>4, <2>1
  <2> QED
    BY <1>4, <2>2 DEF Entries
<1> DEFINE on == [q EXCEPT !.next = i + 1, !.left = @ - 1]
<1>6. \/ /\ inbox' = [inbox EXCEPT ![s] = Append(@, e)]
         /\ cast' = [cast EXCEPT ![e] = on]
      \/ /\ cast' = [cast EXCEPT ![e] = PastDead(on, s)]
         /\ UNCHANGED inbox
      \/ /\ cast' = [cast EXCEPT ![e] = [on EXCEPT !.waiting = s]]
         /\ UNCHANGED inbox
  BY <1>3, <1>5, Zenon DEF Send
<1>7. UNCHANGED <<active, state, home>>
  BY DEF Send
<1>8. on.phase = "sending" /\ on.worker = w /\ on.next = i + 1 /\ on.waiting = None
  BY <1>1, <1>2 DEF Call, Calling
<1>9. IInv'
  BY SendKeeps
<1>10. ASSUME NEW r, cast' = [cast EXCEPT ![e] = r], r.phase = "sending", r.worker = w,
              r.next = i + 1, r.waiting \in {None, s},
              \/ UNCHANGED inbox
              \/ inbox' = [inbox EXCEPT ![s] = Append(@, e)] /\ r.waiting = None
       PROVE  OInv'
  <2>1. r = cast'[e] /\ cast'[e] \in Call
    BY <1>9, <1>10 DEF IInv, TypeOK
  <2> QED
    BY <1>1, <1>3, <1>5, <1>7, <1>10, <2>1, MoveOnce
<1>11. DOMAIN on = DOMAIN q /\ "waiting" \in DOMAIN q /\ "dead" \in DOMAIN q
  BY <1>2 DEF Call
<1> HIDE DEF on
<1>12. CASE inbox' = [inbox EXCEPT ![s] = Append(@, e)] /\ cast' = [cast EXCEPT ![e] = on]
  BY <1>8, <1>10, <1>12
<1>13. CASE cast' = [cast EXCEPT ![e] = PastDead(on, s)] /\ UNCHANGED inbox
  <2> DEFINE r == PastDead(on, s)
  <2>1. r.phase = "sending" /\ r.worker = w /\ r.next = i + 1 /\ r.waiting = None
    BY <1>8 DEF PastDead
  <2> HIDE DEF r
  <2>2. cast' = [cast EXCEPT ![e] = r]
    BY <1>13 DEF r
  <2> QED
    BY <1>10, <1>13, <2>1, <2>2
<1>14. CASE cast' = [cast EXCEPT ![e] = [on EXCEPT !.waiting = s]] /\ UNCHANGED inbox
  <2> DEFINE r == [on EXCEPT !.waiting = s]
  <2>1. r.phase = "sending" /\ r.worker = w /\ r.next = i + 1 /\ r.waiting = s
    BY <1>8, <1>11
  <2> HIDE DEF r
  <2>2. cast' = [cast EXCEPT ![e] = r]
    BY <1>14 DEF r
  <2> QED
    BY <1>10, <1>14, <2>1, <2>2
<1> QED
  BY <1>6, <1>12, <1>13, <1>14

(* Who has been waited for cannot have the event before. *)
LEMMA ResumeOnce == ASSUME IInv, OInv, NEW e \in Events, Resume(e) PROVE OInv'
<1> DEFINE q == cast[e]
           on == PastWait(q)
<1>1. Calling(e) /\ q.waiting # None
  BY DEF Resume, Calling
<1>2. q.worker \in Workers /\ q \in Call
  BY <1>1 DEF IInv, Placed, TypeOK
<1>3. PICK s \in Sockets : s = q.waiting
  BY <1>1, <1>2 DEF Call
<1>4. \/ /\ inbox' = [inbox EXCEPT ![s] = Append(@, e)]
         /\ cast' = [cast EXCEPT ![e] = on]
      \/ /\ cast' = [cast EXCEPT ![e] = PastDead(on, s)]
         /\ UNCHANGED inbox
  BY <1>3, Zenon DEF Resume
<1>5. UNCHANGED <<active, state, home>>
  BY DEF Resume
<1>6. /\ on.phase = "sending" /\ on.worker = q.worker /\ on.next = q.next
      /\ on.waiting = None
  BY <1>1, <1>2 DEF PastWait, Call, Calling
<1> HIDE DEF on
<1>7. /\ Accepted(s) /\ home[s] = q.worker /\ ~InSight(e, s) /\ ~Received(s, e)
  BY <1>1, <1>3 DEF IInv, CallsAreSound, OInv, Waits, Heard, HasHeard
<1>8. PICK r \in Call : /\ cast' = [cast EXCEPT ![e] = r]
                        /\ r.phase = "sending" /\ r.worker = q.worker
                        /\ r.next = q.next /\ r.waiting = None
  <2> DEFINE d == PastDead(on, s)
  <2>1. /\ d.phase = "sending" /\ d.worker = q.worker /\ d.next = q.next
        /\ d.waiting = None
    BY <1>6 DEF PastDead
  <2> HIDE DEF d
  <2>2. cast' = [cast EXCEPT ![e] = on] \/ cast' = [cast EXCEPT ![e] = d]
    BY <1>4 DEF d
  <2>3. cast'[e] \in Call /\ cast'[e] \in {on, d}
    BY <2>2, ResumeKeeps DEF IInv, TypeOK
  <2> QED
    BY <1>6, <2>1, <2>2, <2>3
<1>9. cast'[e] = r
  BY <1>8 DEF IInv, TypeOK
<1>10. /\ NoneTwice'
       /\ \A t \in Sockets, d \in Events :
            Received(t, d)' => Received(t, d) \/ (t = s /\ d = e)
  <2>1. CASE UNCHANGED inbox
    BY <2>1 DEF OInv, NoneTwice, Received
  <2>2. CASE inbox' = [inbox EXCEPT ![s] = Append(@, e)]
    BY <1>7, <2>2, DeliveredOnce
  <2> QED
    BY <1>4, <2>1, <2>2
<1>11. \A t \in Sockets : InSight(e, t)' => InSight(e, t)
  BY <1>5, <1>8, <1>9 DEF InSight
<1>12. ASSUME NEW t \in Sockets, Received(t, e)' PROVE HasHeard(t, e)'
  <2>1. Accepted(t) /\ home[t] = q.worker /\ ~InSight(e, t)
    BY <1>1, <1>7, <1>10, <1>12 DEF OInv, Heard, HasHeard
  <2> QED
    BY <1>5, <1>8, <1>9, <1>11, <2>1, RealtimeAssumption DEF HasHeard, Accepted, Calling
<1>13. Waits(e)'
  BY <1>8, <1>9, RealtimeAssumption DEF Waits
<1>14. Fewer
  BY <1>5, StillFewer
<1> QED
  BY <1>5, <1>8, <1>10, <1>12, <1>13, <1>14, CallOnce

(* A call that is over waits for nobody; those who have its event keep it. *)
LEMMA EndsOnce ==
  ASSUME IInv, OInv, Fewer, NEW e \in Events, NEW q \in Call,
         Calling(e), q.phase \in {"done", "error"}, q.worker = cast[e].worker,
         cast' = [cast EXCEPT ![e] = q], UNCHANGED <<state, home>>, UNCHANGED inbox
  PROVE  OInv'
<1>1. cast'[e] = q
  BY DEF IInv, TypeOK
<1>2. NoneTwice' /\ \A t \in Sockets, d \in Events : Received(t, d)' => Received(t, d)
  BY DEF OInv, NoneTwice, Received
<1>3. \A t \in Sockets : Received(t, e)' => HasHeard(t, e)'
  BY <1>1, <1>2 DEF OInv, Heard, HasHeard, Accepted, Calling
<1>4. Waits(e)'
  BY <1>1 DEF Waits, Calling
<1> QED
  BY <1>2, <1>3, <1>4, CallOnce

LEMMA FailOnce == ASSUME IInv, OInv, NEW e \in Events, Fail(e) PROVE OInv'
<1> DEFINE r == Raise(e)
<1>1. Calling(e) /\ cast[e] \in Call
  BY DEF Fail, Moving, Calling, IInv, TypeOK
<1>2. r \in Call /\ r.phase = "error" /\ r.worker = cast[e].worker
  BY <1>1 DEF Raise, Call
<1>3. cast' = [cast EXCEPT ![e] = r] /\ UNCHANGED <<active, state, home>> /\ UNCHANGED inbox
  BY DEF Fail
<1> HIDE DEF r
<1>4. Fewer
  BY <1>3, StillFewer
<1> QED
  BY <1>1, <1>2, <1>3, <1>4, EndsOnce

(* Popping leaves fewer entries. *)
LEMMA PopFewer ==
  ASSUME IInv, NEW w \in Workers, NEW S, UNCHANGED home,
         \A s \in Sockets : Accepted(s) => Accepted(s)',
         active' = [active EXCEPT ![w] = Pop(w, S)]
  PROVE  Fewer
<1> DEFINE p == Pop(w, S)
<1>1. active \in [Workers -> Seq(Entries)]
  BY DEF IInv, TypeOK, Entries
<1>2. /\ DOMAIN p = DOMAIN active[w]
      /\ \A i \in DOMAIN active[w] : p[i] = IF active[w][i] \in S THEN None ELSE active[w][i]
  BY <1>1, PopFields
<1> HIDE DEF p
<1>3. \A v \in Workers : active'[v] = IF v = w THEN p ELSE active[v]
  BY <1>1 DEF p
<1>4. \A v \in Workers : \A i \in DOMAIN active'[v] :
        active'[v][i] \in Sockets => i \in DOMAIN active[v] /\ active'[v][i] = active[v][i]
  BY <1>2, <1>3, RealtimeAssumption
<1> QED
  BY <1>4 DEF Fewer

LEMMA CompleteOnce == ASSUME IInv, OInv, NEW e \in Events, Complete(e) PROVE OInv'
<1> DEFINE w == cast[e].worker
           r == [cast[e] EXCEPT !.phase = "done"]
<1>1. Calling(e) /\ cast[e] \in Call /\ w \in Workers
  BY DEF Complete, Moving, Calling, IInv, TypeOK, Placed
<1>2. /\ active' = [active EXCEPT ![w] = Pop(w, cast[e].dead)]
      /\ cast' = [cast EXCEPT ![e] = r] /\ UNCHANGED <<state, home>> /\ UNCHANGED inbox
  BY DEF Complete
<1>3. r \in Call /\ r.phase = "done" /\ r.worker = w
  BY <1>1 DEF Call
<1> HIDE DEF r
<1>4. Fewer
  BY <1>1, <1>2, PopFewer DEF Accepted
<1> QED
  BY <1>1, <1>2, <1>3, <1>4, EndsOnce

LEMMA ConnectOnce ==
  ASSUME IInv, OInv, NEW s \in Sockets, NEW w \in Workers, Connect(s, w) PROVE OInv'
<1>1. Fewer
  BY DEF Connect, Fewer, Accepted, IInv, TypeOK
<1>2. UNCHANGED <<inbox, cast>>
  BY DEF Connect
<1> QED
  BY <1>1, <1>2, QuietOnce

LEMMA DropOnce == ASSUME IInv, OInv, NEW s \in Sockets, Drop(s) PROVE OInv'
<1>1. Fewer
  BY DEF Drop, Fewer, Accepted, IInv, TypeOK
<1>2. UNCHANGED <<inbox, cast>>
  BY DEF Drop
<1> QED
  BY <1>1, <1>2, QuietOnce

LEMMA DisconnectOnce == ASSUME IInv, OInv, NEW s \in Sockets, Disconnect(s) PROVE OInv'
<1> DEFINE w == home[s]
<1>1. /\ state[s] = "gone" /\ UNCHANGED home /\ UNCHANGED <<inbox, cast>>
      /\ state' = [state EXCEPT ![s] = "closed"]
      /\ active' = [active EXCEPT ![w] = Pop(w, {s})]
  BY DEF Disconnect, Forgotten
<1>2. w \in Workers /\ \A t \in Sockets : Accepted(t) => Accepted(t)'
  BY <1>1 DEF IInv, TypeOK, Placed, Accepted
<1>3. Fewer
  BY <1>1, <1>2, PopFewer
<1> QED
  BY <1>1, <1>3, QuietOnce

LEMMA InitOnce == Init => OInv
<1> SUFFICES ASSUME Init PROVE OInv
  OBVIOUS
<1>1. Single /\ AtHome
  BY DEF Init, Single, AtHome
<1>2. Heard /\ NoneTwice
  BY DEF Init, Heard, NoneTwice, Received
<1>3. \A e \in Events : Waits(e)
  BY DEF Init, Waits, Calling, Unpublished
<1> QED
  BY <1>1, <1>2, <1>3 DEF OInv

LEMMA NextOnce == IInv /\ OInv /\ [Next]_vars => OInv'
<1> SUFFICES ASSUME IInv, OInv, [Next]_vars PROVE OInv'
  OBVIOUS
<1>1. ASSUME NEW s \in Sockets, NEW w \in Workers, Connect(s, w) PROVE OInv'
  BY <1>1, ConnectOnce
<1>2. ASSUME NEW s \in Sockets, Register(s) \/ Drop(s) \/ Disconnect(s) PROVE OInv'
  BY <1>2, RegisterOnce, DropOnce, DisconnectOnce
<1>3. ASSUME NEW e \in Events, NEW w \in Workers, Publish(e, w) PROVE OInv'
  BY <1>3, NextKeeps, PublishKeeps, PublishOnce
<1>4. ASSUME NEW e \in Events, Proceed(e) PROVE OInv'
  BY <1>4, SendOnce, ResumeOnce, CompleteOnce, FailOnce DEF Proceed
<1>5. CASE Rest \/ UNCHANGED vars
  <2>1. UNCHANGED <<active, state, home>> /\ UNCHANGED <<inbox, cast>>
    BY <1>5 DEF Rest, vars
  <2> QED
    BY <2>1, StillFewer, QuietOnce
<1> QED
  BY <1>1, <1>2, <1>3, <1>4, <1>5 DEF Next

(* Every client is served exactly once: none receives an event twice, however   *)
(* many sockets are registered, suspended and popped while the registry is      *)
(* iterated, and a publish_event that returns has served whoever was there all  *)
(* along.                                                                       *)
THEOREM EveryoneIsServedOnce == Spec => []ServedOnce
<1>1. IInv /\ OInv => ServedOnce
  BY DEF IInv, EveryoneServed, Served, CompletedServesAll, OInv, NoneTwice, ServedOnce
<1> QED
  BY <1>1, InitHolds, NextKeeps, InitOnce, NextOnce, PTL DEF Spec

(* A client hears only of what its own worker published: no event crosses from  *)
(* one worker to another, though every one of them is sent to Redis.            *)
THEOREM OnlyOwnWorkerIsHeard == Spec => []HeardAtHome
<1>1. IInv /\ OInv => HeardAtHome
  <2> SUFFICES ASSUME IInv, OInv, NEW s \in Sockets, NEW i \in DOMAIN inbox[s]
               PROVE  home[s] = cast[inbox[s][i]].worker
    BY DEF HeardAtHome
  <2>1. inbox[s][i] \in Events
    BY DEF IInv, TypeOK
  <2>2. Received(s, inbox[s][i])
    BY DEF Received
  <2> QED
    BY <2>1, <2>2 DEF OInv, Heard, HasHeard
<1> QED
  BY <1>1, InitHolds, NextKeeps, InitOnce, NextOnce, PTL DEF Spec

=============================================================================
