------------------------------ MODULE Realtime -------------------------------
(***************************************************************************)
(* Live delivery of emergency events: each worker's ConnectionManager, the *)
(* WebSocket endpoints that register and forget sockets, and the           *)
(* publish_event calls that iterate over the registered sockets, awaiting  *)
(* one send after the other.                                               *)
(*                                                                         *)
(* The registry is a Python dict, iterated while other coroutines change   *)
(* it: its entries keep their insertion order, a deleted one leaves a gap, *)
(* and the iterator raises RuntimeError when it next moves and the dict    *)
(* has another size than at the start, or when it has returned as many     *)
(* items as there were and finds one more.                                 *)
(*                                                                         *)
(* A send suspends its coroutine only when the socket's buffer is full;    *)
(* otherwise the broadcast goes on without giving up the event loop.       *)
(*                                                                         *)
(* Not covered: authentication, heartbeats, the role filter (no caller     *)
(* uses it), and the resizing of a dict that has had more than five        *)
(* sockets.                                                                *)
(***************************************************************************)
EXTENDS Naturals, Sequences, FiniteSets, SequencesExt

CONSTANTS
  Workers,      \* worker processes
  Sockets,      \* WebSocket objects; a client that reconnects is a new one
  Events,       \* events, each published once
  None

ASSUME RealtimeAssumption ==
  /\ None \notin Sockets \cup Events \cup Workers
  /\ Cardinality(Sockets) <= 5

VARIABLES
  active,       \* [Workers -> entries of active_connections: sockets, None for a gap]
  state,        \* [Sockets -> life of the connection]
  home,         \* [Sockets -> the worker that accepted it]
  inbox,        \* [Sockets -> events its client has received, in order]
  cast,         \* [Events -> the publish_event call of the event]
  redis,        \* events published to the Redis channel, in order
  loop          \* [Workers -> the publish_event being run without interruption, or None]

vars == <<active, state, home, inbox, cast, redis, loop>>

Life == {"new", "accepting", "open", "gone", "closed"}

\* A publish_event call: its phase, its worker, the iterator (next entry, size
\* at the start, items still expected), the socket whose send has suspended,
\* the sockets found dead, and the sockets open at any worker when it began.
Call == [phase : {"idle", "sending", "done", "error"}, worker : Workers \cup {None},
         next : Nat, size : Nat, left : Nat, waiting : Sockets \cup {None},
         dead : SUBSET Sockets, audience : SUBSET Sockets]

Unpublished == [phase |-> "idle", worker |-> None, next |-> 1, size |-> 0, left |-> 0,
                waiting |-> None, dead |-> {}, audience |-> {}]

Init ==
  /\ active = [w \in Workers |-> <<>>]
  /\ state = [s \in Sockets |-> "new"]
  /\ home = [s \in Sockets |-> None]
  /\ inbox = [s \in Sockets |-> <<>>]
  /\ cast = [e \in Events |-> Unpublished]
  /\ redis = <<>>
  /\ loop = [w \in Workers |-> None]

Registered(w) == ToSet(active[w]) \ {None}

\* The entries of worker w once the sockets in S have been popped.
Pop(w, S) == [i \in DOMAIN active[w] |-> IF active[w][i] \in S THEN None ELSE active[w][i]]

-----------------------------------------------------------------------------
(* Connections                                                             *)

\* An authenticated client reaches worker w, which awaits accept().
Connect(s, w) ==
  /\ state[s] = "new"
  /\ loop[w] = None
  /\ state' = [state EXCEPT ![s] = "accepting"]
  /\ home' = [home EXCEPT ![s] = w]
  /\ UNCHANGED <<active, inbox, cast, redis, loop>>

\* accept() has returned: the socket is registered, even if its peer has left.
Register(s) ==
  LET w == home[s] IN
  /\ state[s] = "accepting"
  /\ loop[w] = None
  /\ active' = [active EXCEPT ![w] = Append(@, s)]
  /\ state' = [state EXCEPT ![s] = "open"]
  /\ UNCHANGED <<home, inbox, cast, redis, loop>>

\* The peer leaves, or the server's keepalive gives up on it.
Drop(s) ==
  /\ state[s] = "open"
  /\ state' = [state EXCEPT ![s] = "gone"]
  /\ UNCHANGED <<active, home, inbox, cast, redis, loop>>

\* Mutation: the endpoint returns without a disconnect.
ForgottenNever(w, s) == active[w]

\* What disconnect leaves of the registry of worker w.
Forgotten(w, s) == Pop(w, {s})

\* The endpoint's receive raises WebSocketDisconnect, and it disconnects.
Disconnect(s) ==
  LET w == home[s] IN
  /\ state[s] = "gone"
  /\ loop[w] = None
  /\ active' = [active EXCEPT ![w] = Forgotten(w, s)]
  /\ state' = [state EXCEPT ![s] = "closed"]
  /\ UNCHANGED <<home, inbox, cast, redis, loop>>

-----------------------------------------------------------------------------
(* publish_event                                                           *)

\* A handler of worker w publishes event e: the iterator is made.
Publish(e, w) ==
  /\ cast[e].phase = "idle"
  /\ loop[w] = None
  /\ cast' = [cast EXCEPT ![e] =
       [Unpublished EXCEPT !.phase = "sending", !.worker = w,
          !.audience = {s \in Sockets : state[s] = "open"},
          !.size = Cardinality(Registered(w)), !.left = Cardinality(Registered(w))]]
  /\ loop' = [loop EXCEPT ![w] = e]
  /\ UNCHANGED <<active, state, home, inbox, redis>>

\* The entries the iterator of e has still to visit.
Ahead(e) == {i \in DOMAIN active[cast[e].worker] :
               i >= cast[e].next /\ active[cast[e].worker][i] # None}

\* The call of e is about to move its iterator.
Moving(e) ==
  /\ cast[e].phase = "sending"
  /\ cast[e].waiting = None
  /\ loop[cast[e].worker] = e

\* Python refuses to go on with the iteration.
Changed(e) ==
  \/ Cardinality(Registered(cast[e].worker)) # cast[e].size
  \/ cast[e].left = 0 /\ Ahead(e) # {}

\* A send has raised: the socket is noted, the loop goes on.
PastDead(q, s) == [q EXCEPT !.dead = @ \cup {s}]

\* Mutation: the send that had suspended is made once more.
PastWaitAgain(q) == [q EXCEPT !.waiting = None, !.next = @ - 1, !.left = @ + 1]

\* The send that had suspended has come to an end.
PastWait(q) == [q EXCEPT !.waiting = None]

\* The iterator yields the next socket and its send ends at once, or suspends.
Send(e) ==
  LET q == cast[e]
      w == q.worker
      i == CHOOSE j \in Ahead(e) : \A k \in Ahead(e) : j <= k
      s == active[w][i]
      on == [q EXCEPT !.next = i + 1, !.left = @ - 1]
  IN /\ Moving(e)
     /\ ~Changed(e)
     /\ Ahead(e) # {}
     /\ \/ /\ state[s] = "open"
           /\ inbox' = [inbox EXCEPT ![s] = Append(@, e)]
           /\ cast' = [cast EXCEPT ![e] = on]
           /\ UNCHANGED loop
        \/ /\ state[s] # "open"
           /\ cast' = [cast EXCEPT ![e] = PastDead(on, s)]
           /\ UNCHANGED <<inbox, loop>>
        \/ /\ state[s] = "open"
           /\ cast' = [cast EXCEPT ![e] = [on EXCEPT !.waiting = s]]
           /\ loop' = [loop EXCEPT ![w] = None]
           /\ UNCHANGED inbox
     /\ UNCHANGED <<active, state, home, redis>>

\* A suspended send ends: the buffer has drained, or the socket has gone.
Resume(e) ==
  LET q == cast[e]
      s == q.waiting
  IN /\ q.phase = "sending"
     /\ s # None
     /\ loop[q.worker] = None
     /\ \/ /\ state[s] = "open"
           /\ inbox' = [inbox EXCEPT ![s] = Append(@, e)]
           /\ cast' = [cast EXCEPT ![e] = PastWait(q)]
        \/ /\ state[s] # "open"
           /\ cast' = [cast EXCEPT ![e] = PastDead(PastWait(q), s)]
           /\ UNCHANGED inbox
     /\ loop' = [loop EXCEPT ![q.worker] = e]
     /\ UNCHANGED <<active, state, home, redis>>

\* The iteration is complete: dead sockets are popped and Redis is told.
Complete(e) ==
  LET w == cast[e].worker IN
  /\ Moving(e)
  /\ ~Changed(e)
  /\ Ahead(e) = {}
  /\ active' = [active EXCEPT ![w] = Pop(w, cast[e].dead)]
  /\ redis' = Append(redis, e)
  /\ cast' = [cast EXCEPT ![e].phase = "done"]
  /\ loop' = [loop EXCEPT ![w] = None]
  /\ UNCHANGED <<state, home, inbox>>

\* Mutation: the error is swallowed and the iteration is left as it is.
RaiseSwallowed(e) == cast[e]

\* What a RuntimeError makes of the call.
Raise(e) == [cast[e] EXCEPT !.phase = "error"]

\* The iterator raises RuntimeError, which leaves publish_event and is logged by
\* its caller: the remaining sockets, the dead ones and Redis are skipped.
Fail(e) ==
  /\ Moving(e)
  /\ Changed(e)
  /\ cast' = [cast EXCEPT ![e] = Raise(e)]
  /\ loop' = [loop EXCEPT ![cast[e].worker] = None]
  /\ UNCHANGED <<active, state, home, inbox, redis>>

\* What the call of e does once it has begun.
Proceed(e) == Send(e) \/ Resume(e) \/ Complete(e) \/ Fail(e)

\* No call is in flight and no endpoint has anything to do.
Rest ==
  /\ \A e \in Events : cast[e].phase # "sending"
  /\ UNCHANGED vars

Next ==
  \/ \E s \in Sockets : (\E w \in Workers : Connect(s, w)) \/ Register(s) \/ Drop(s) \/ Disconnect(s)
  \/ \E e \in Events : (\E w \in Workers : Publish(e, w)) \/ Proceed(e)
  \/ Rest

Spec == Init /\ [][Next]_vars

\* Every coroutine that can run does: endpoints notice a closed connection, and
\* a suspended send ends, since the server's keepalive closes a stalled socket.
FairSpec ==
  /\ Spec
  /\ \A e \in Events : WF_vars(Proceed(e))
  /\ \A s \in Sockets : WF_vars(Register(s)) /\ WF_vars(Disconnect(s))

-----------------------------------------------------------------------------
(* Properties                                                              *)

\* Every variable holds a value the program could hold.
TypeOK ==
  /\ active \in [Workers -> Seq(Sockets \cup {None})]
  /\ state \in [Sockets -> Life]
  /\ home \in [Sockets -> Workers \cup {None}]
  /\ inbox \in [Sockets -> Seq(Events)]
  /\ cast \in [Events -> Call]
  /\ redis \in Seq(Events)
  /\ loop \in [Workers -> Events \cup {None}]

Received(s, e) == \E i \in DOMAIN inbox[s] : inbox[s][i] = e

\* The sockets of e's own worker that were there when e was published and have
\* been there ever since.
Steady(e) == {s \in cast[e].audience : home[s] = cast[e].worker /\ state[s] = "open"}

\* A publish_event that returns has served every socket of its worker that was
\* open when it began and is still open, whatever came and went while it waited.
CompletedServesAll ==
  \A e \in Events : cast[e].phase = "done" => \A s \in Steady(e) : Received(s, e)

\* A client never receives an event twice, though it may be registered, suspended
\* or popped while the registry is iterated, and a publish_event that returns has
\* served every socket that CompletedServesAll speaks of: exactly once, then
\* (alerts/realtime.py:55-92).
ServedOnce ==
  /\ CompletedServesAll
  /\ \A s \in Sockets : \A i, j \in DOMAIN inbox[s] : inbox[s][i] = inbox[s][j] => i = j

\* A client hears only of what its own worker published: the Redis channel has no
\* subscriber in the program (alerts/realtime.py:94-104).
HeardAtHome ==
  \A s \in Sockets : \A i \in DOMAIN inbox[s] : home[s] = cast[inbox[s][i]].worker

\* Every publish_event ends, so the handler that awaits it answers.  An event is
\* published once: in the end no call is left in the loop.
PublishEnds == <>[](\A e \in Events : cast[e].phase # "sending")

\* A socket that has gone is eventually forgotten, whoever notices first, even
\* when a broadcast that was cut short has not.  A socket goes once: in the end
\* the registries hold open sockets only.
GoneIsForgotten == <>[](\A w \in Workers : \A s \in Registered(w) : state[s] = "open")

=============================================================================
