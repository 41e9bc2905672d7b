--------------------------- MODULE AlertLifecycle ----------------------------
(***************************************************************************)
(* Operational alerts: POST /alerts/generate, which raises an alert unless *)
(* the same emergency already has an ACTIVE one, and the acknowledge,      *)
(* resolve and dismiss handlers of officials.                              *)
(*                                                                         *)
(* Handlers run as in SosNetwork: uninterrupted from one await to the next *)
(* within a worker process, interleaved statement by statement between     *)
(* processes.  The partial unique index on the fingerprint of ACTIVE       *)
(* alerts is part of the insert.                                           *)
(*                                                                         *)
(* Not covered: how severity, trigger and advice are computed (a request   *)
(* brings the fingerprint they lead to), the rate limit, and requests that *)
(* name no existing alert.                                                 *)
(***************************************************************************)
EXTENDS Naturals, Sequences, FiniteSets

CONSTANTS
  Workers,        \* worker processes
  Generates,      \* generate requests; each brings the uuid of the row it may insert
  Actions,        \* acknowledge, resolve and dismiss requests
  Officials,      \* users with the role official or admin
  Fingerprints,   \* values of compute_alert_fingerprint
  MaxFaults,      \* bound on crashes and database faults
  None

Requests == Generates \cup Actions

ASSUME AlertAssumption ==
  /\ Generates \cap Actions = {}
  /\ None \notin Requests \cup Officials \cup Fingerprints
  /\ MaxFaults \in Nat

VARIABLES
  alert,          \* table alerts: [Generates -> row]
  audits,         \* table alert_audits per alert, in commit order
  req,            \* the local state of every request's handler
  loop,           \* [Workers -> the request being run without interruption, or None]
  faults          \* crashes and database faults so far

vars == <<alert, audits, req, loop, faults>>

AlertStatus == {"ACTIVE", "ACKNOWLEDGED", "RESOLVED", "DISMISSED"}
Goals == AlertStatus \ {"ACTIVE"}

VALID_TRANSITIONS ==
  [ACTIVE       |-> {"ACKNOWLEDGED", "RESOLVED", "DISMISSED"},
   ACKNOWLEDGED |-> {"RESOLVED", "DISMISSED"},
   RESOLVED     |-> {},
   DISMISSED    |-> {}]

\* acknowledged_by and resolved_by stand for their timestamps too: each pair of
\* columns is written together.
Row == [status : AlertStatus \cup {"absent"}, fingerprint : Fingerprints \cup {None},
        acknowledged_by : Officials \cup {None}, resolved_by : Officials \cup {None}]

NoRow == [status |-> "absent", fingerprint |-> None, acknowledged_by |-> None,
          resolved_by |-> None]

Raised == {a \in Generates : alert[a].status # "absent"}

\* What an audit row records of an alert.
State(row) == [status |-> row.status, acknowledged |-> row.acknowledged_by # None,
               resolved |-> row.resolved_by # None]

\* A handler: its phase, worker, official, alert, goal, fingerprint, the alert
\* as it has loaded it, and its answer.
Handler == [phase : {"idle", "looked", "authorised", "read", "done"},
            worker : Workers \cup {None}, user : Officials \cup {None},
            target : Generates \cup {None}, goal : Goals \cup {None},
            fingerprint : Fingerprints \cup {None}, seen : Row,
            reply : {0, 200, 201, 409, 500}]

Idle == [phase |-> "idle", worker |-> None, user |-> None, target |-> None, goal |-> None,
         fingerprint |-> None, seen |-> NoRow, reply |-> 0]

Init ==
  /\ alert = [a \in Generates |-> NoRow]
  /\ audits = [a \in Generates |-> <<>>]
  /\ req = [r \in Requests |-> Idle]
  /\ loop = [w \in Workers |-> None]
  /\ faults = 0

Active(r) == req[r].phase \notin {"idle", "done"}

MayRun(r) == loop[req[r].worker] \in {None, r}

\* r answers, about alert a, and its worker is free.
Answer(r, a, reply) ==
  /\ req' = [req EXCEPT ![r] = [@ EXCEPT !.phase = "done", !.target = a, !.reply = reply]]
  /\ loop' = [loop EXCEPT ![req[r].worker] = None]

-----------------------------------------------------------------------------
(* POST /alerts/generate                                                   *)

find_active_duplicate(f) == {a \in Generates : alert[a].status = "ACTIVE" /\ alert[a].fingerprint = f}

\* The emergency has an ACTIVE alert: it is the answer.
FindDuplicate(r, w, f) ==
  /\ req[r].phase = "idle"
  /\ loop[w] = None
  /\ \E a \in find_active_duplicate(f) :
       req' = [req EXCEPT ![r] = [Idle EXCEPT !.phase = "done", !.worker = w, !.target = a,
                                              !.fingerprint = f, !.reply = 201]]
  /\ UNCHANGED <<alert, audits, loop, faults>>

\* There is none: the handler goes on to insert, without an await.
BeginGenerate(r, w, f) ==
  /\ req[r].phase = "idle"
  /\ loop[w] = None
  /\ find_active_duplicate(f) = {}
  /\ req' = [req EXCEPT ![r] = [Idle EXCEPT !.phase = "looked", !.worker = w, !.fingerprint = f]]
  /\ loop' = [loop EXCEPT ![w] = r]
  /\ UNCHANGED <<alert, audits, faults>>

\* uix_alerts_active_fingerprint admits a new ACTIVE alert of the emergency.
Admits(f) == \A a \in Generates : alert[a].fingerprint = f => alert[a].status # "ACTIVE"

\* The row of a new alert and the audit row of its creation.
NewRow(f) == [status |-> "ACTIVE", fingerprint |-> f, acknowledged_by |-> None,
              resolved_by |-> None]
Creation(f) == [action |-> "CREATED", by |-> None, prev |-> State(NoRow),
                new |-> State(NewRow(f))]

\* Insert, creation audit and commit; a row the index refuses is a 500.
InsertAlert(r) ==
  LET f == req[r].fingerprint
  IN /\ req[r].phase = "looked"
     /\ MayRun(r)
     /\ \/ /\ Admits(f)
           /\ alert' = [alert EXCEPT ![r] = NewRow(f)]
           /\ audits' = [audits EXCEPT ![r] = <<Creation(f)>>]
           /\ Answer(r, r, 201)
        \/ /\ ~Admits(f)
           /\ Answer(r, None, 500)
           /\ UNCHANGED <<alert, audits>>
     /\ UNCHANGED faults

-----------------------------------------------------------------------------
(* POST /alerts/{id}/acknowledge, /resolve and /dismiss                    *)

\* require_role runs in the thread pool, so the loop is free until it is done.
Authorise(r, w, u, a, goal) ==
  /\ req[r].phase = "idle"
  /\ loop[w] = None
  /\ req' = [req EXCEPT ![r] = [Idle EXCEPT !.phase = "authorised", !.worker = w, !.user = u,
                                            !.target = a, !.goal = goal]]
  /\ UNCHANGED <<alert, audits, loop, faults>>

\* Mutation: a terminal status is not recognised.
MayReopen(from, to) == from # to

MayMove(from, to) == to \in VALID_TRANSITIONS[from]

\* transition_alert_status up to its checks: on to the write, or 409.
ReadAlert(r) ==
  LET row == alert[req[r].target] IN
  /\ req[r].phase = "authorised"
  /\ MayRun(r)
  /\ \/ /\ MayMove(row.status, req[r].goal)
        /\ req' = [req EXCEPT ![r] = [@ EXCEPT !.phase = "read", !.seen = row]]
        /\ loop' = [loop EXCEPT ![req[r].worker] = r]
     \/ /\ ~MayMove(row.status, req[r].goal)
        /\ Answer(r, req[r].target, 409)
  /\ UNCHANGED <<alert, audits, faults>>

\* Mutation: a dismissal forgets who dismissed.
MovedUncredited(row, goal, u) ==
  CASE goal = "ACKNOWLEDGED" -> [row EXCEPT !.status = goal, !.acknowledged_by = u]
    [] goal = "RESOLVED"     -> [row EXCEPT !.status = goal, !.resolved_by = u]
    [] OTHER                 -> [row EXCEPT !.status = goal]

\* The columns a transition by official u assigns.
Moved(row, goal, u) ==
  IF goal = "ACKNOWLEDGED" THEN [row EXCEPT !.status = goal, !.acknowledged_by = u]
                           ELSE [row EXCEPT !.status = goal, !.resolved_by = u]

\* Mutation: old_state is taken after the columns have been assigned.
RecordedLate(q) ==
  LET n == State(Moved(q.seen, q.goal, q.user))
  IN [action |-> q.goal, by |-> q.user, prev |-> n, new |-> n]

\* The audit row is made from the alert as the handler has loaded it.
Recorded(q) ==
  [action |-> q.goal, by |-> q.user, prev |-> State(q.seen),
   new |-> State(Moved(q.seen, q.goal, q.user))]

\* Only the assigned columns are written, whatever the row has become.
MoveAlert(r) ==
  LET q == req[r]
      a == q.target
  IN /\ q.phase = "read"
     /\ MayRun(r)
     /\ alert' = [alert EXCEPT ![a] = Moved(@, q.goal, q.user)]
     /\ audits' = [audits EXCEPT ![a] = Append(@, Recorded(q))]
     /\ Answer(r, a, 200)
     /\ UNCHANGED faults

-----------------------------------------------------------------------------
DatabaseFault(r) ==
  /\ Active(r)
  /\ MayRun(r)
  /\ faults < MaxFaults
  /\ faults' = faults + 1
  /\ Answer(r, req[r].target, 500)
  /\ UNCHANGED <<alert, audits>>

\* Worker w dies and is restarted: its handlers end without an answer.
Crash(w) ==
  LET lost == {r \in Requests : Active(r) /\ req[r].worker = w} IN
  /\ lost # {}
  /\ faults < MaxFaults
  /\ faults' = faults + 1
  /\ req' = [r \in Requests |-> IF r \in lost THEN [req[r] EXCEPT !.phase = "done"] ELSE req[r]]
  /\ loop' = [loop EXCEPT ![w] = None]
  /\ UNCHANGED <<alert, audits>>

Rest == (\A r \in Requests : ~Active(r)) /\ UNCHANGED vars

Arrive(r, w) ==
  \/ r \in Generates /\ \E f \in Fingerprints : FindDuplicate(r, w, f) \/ BeginGenerate(r, w, f)
  \/ r \in Actions /\ \E u \in Officials, a \in Raised, goal \in Goals : Authorise(r, w, u, a, goal)

Proceed(r) ==
  \/ r \in Generates /\ InsertAlert(r)
  \/ r \in Actions /\ (ReadAlert(r) \/ MoveAlert(r))

Next ==
  \/ \E r \in Requests, w \in Workers : Arrive(r, w)
  \/ \E r \in Requests : Proceed(r) \/ DatabaseFault(r)
  \/ \E w \in Workers : Crash(w)
  \/ Rest

Spec == Init /\ [][Next]_vars

\* One worker process, as the container image starts it.
OneWorker == \E w \in Workers : Workers = {w}

-----------------------------------------------------------------------------
(* Properties                                                              *)

TrailState == [status : AlertStatus \cup {"absent"}, acknowledged : BOOLEAN, resolved : BOOLEAN]
AuditRow == [action : Goals \cup {"CREATED"}, by : Officials \cup {None},
             prev : TrailState, new : TrailState]

\* Every variable holds a value the program could hold.
TypeOK ==
  /\ alert \in [Generates -> Row]
  /\ audits \in [Generates -> Seq(AuditRow)]
  /\ req \in [Requests -> Handler]
  /\ loop \in [Workers -> Requests \cup {None}]
  /\ faults \in Nat

\* What a handler may rely on with any number of workers: a request that has not
\* been answered has not inserted its row, and an official's request names an
\* alert that exists.
HandlerInv ==
  \A r \in Requests :
    /\ req[r].phase = "idle" => req[r] = Idle
    /\ Active(r) => req[r].worker \in Workers
    /\ r \in Generates => req[r].phase \in {"idle", "looked", "done"}
    /\ r \in Generates /\ req[r].phase # "done" => alert[r] = NoRow
    /\ r \in Generates /\ req[r].phase = "looked" => req[r].fingerprint \in Fingerprints
    /\ r \in Actions => req[r].phase \in {"idle", "authorised", "read", "done"}
    /\ r \in Actions /\ req[r].phase # "idle" =>
         req[r].target \in Raised /\ req[r].user \in Officials /\ req[r].goal \in Goals

\* What a handler between two statements may rely on with one worker: it has the
\* loop, so what it has read is still so when it writes.
SectionInv ==
  \A r \in Requests :
    /\ req[r].phase \in {"looked", "read"} => loop[req[r].worker] = r
    /\ req[r].phase = "looked" => Admits(req[r].fingerprint)
    /\ req[r].phase = "read" => /\ req[r].seen = alert[req[r].target]
                               /\ MayMove(req[r].seen.status, req[r].goal)

\* The inductive invariant with one worker: nothing a handler has read without
\* an await since is stale when it writes.
IInv == TypeOK /\ HandlerInv /\ SectionInv

\* However many workers look for a duplicate at once, and whatever officials do
\* to the alert meanwhile, an emergency never has two ACTIVE alerts.
OneActivePerFingerprint ==
  \A a, b \in Raised :
    a # b /\ alert[a].status = "ACTIVE" /\ alert[b].status = "ACTIVE"
      => alert[a].fingerprint # alert[b].fingerprint

\* Generating is idempotent: unless a failure is injected, a request is answered
\* with an alert of its own fingerprint, never with an error.
GenerateAnswersAlert ==
  \A r \in Generates :
    req[r].phase = "done" /\ faults = 0 =>
      /\ req[r].reply = 201
      /\ req[r].target \in Raised
      /\ alert[req[r].target].fingerprint = req[r].fingerprint

\* The trail of an alert chains: it starts with the creation, every row's
\* previous state is the new state of the row before, and the last one is what
\* the alert's own columns say.
TrailMatchesRow ==
  \A a \in Raised :
    LET t == audits[a] IN
    /\ t # <<>> /\ t[1].action = "CREATED"
    /\ \A i \in 2..Len(t) : t[i].prev = t[i - 1].new
    /\ t[Len(t)].new = State(alert[a])

\* An alert is closed by one official at most, the one its columns credit, and
\* the official its columns credit with the acknowledgement has acknowledged it.
CreditMatchesTrail ==
  \A a \in Raised :
    LET t == audits[a]
        closings == {i \in DOMAIN t : t[i].action \in {"RESOLVED", "DISMISSED"}}
    IN /\ Cardinality(closings) <= 1
       /\ \A i \in closings : t[i].by = alert[a].resolved_by
       /\ alert[a].acknowledged_by # None =>
            \E i \in DOMAIN t : t[i].action = "ACKNOWLEDGED" /\ t[i].by = alert[a].acknowledged_by

\* Whatever other workers do, an official who was answered 200 is in the trail.
AnsweredIsAudited ==
  \A r \in Actions :
    req[r].reply = 200 => \E i \in DOMAIN audits[req[r].target] :
      LET row == audits[req[r].target][i] IN row.by = req[r].user /\ row.action = req[r].goal

\* An alert only moves along VALID_TRANSITIONS.
AlertMovesAlongTable ==
  [][\A a \in Raised : \/ alert'[a].status = alert[a].status
                       \/ alert'[a].status \in VALID_TRANSITIONS[alert[a].status]]_alert

\* The board this service implements when it has one worker.
Board == INSTANCE AlertBoard WITH
  Alerts    <- Generates,
  status    <- [a \in Generates |-> alert[a].status],
  emergency <- [a \in Generates |-> IF alert[a].status = "absent" THEN "none"
                                    ELSE alert[a].fingerprint]

BoardSpec == Board!Spec

=============================================================================
