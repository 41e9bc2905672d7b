----------------------------- MODULE SosNetwork -----------------------------
(***************************************************************************)
(* The SOS emergency network: POST /sos with its idempotent replay, risk   *)
(* snapshot, linked alert and live broadcast, and the acknowledge, resolve *)
(* and cancel handlers, over one PostgreSQL database.                      *)
(*                                                                         *)
(* The handlers are coroutines that call the database synchronously, so a  *)
(* worker process runs a handler without interruption from one await to    *)
(* the next, and handlers interleave only there; handlers of different     *)
(* worker processes interleave between any two statements.  loop[w] is the *)
(* handler worker w is in the middle of, None while its event loop is      *)
(* free.  Each action below is one database statement group (a read, or    *)
(* the writes up to a commit) with the Python code around it.              *)
(*                                                                         *)
(* Not covered: the content of a report, of an alert and of a payload; the *)
(* delivery of an event to sockets (an event is recorded when the handler  *)
(* hands it to publish_event); the later life of the linked alert.         *)
(***************************************************************************)
EXTENDS Naturals, Sequences, FiniteSets

CONSTANTS
  Workers,      \* worker processes
  Creates,      \* POST /sos requests; each brings the uuid of the row it may insert
  Actions,      \* acknowledge, resolve and cancel requests
  Citizens,     \* users with the role citizen
  Officials,    \* users with the role official or admin
  Verified,     \* users whose identity is verified
  Keys,         \* idempotency keys
  Evidence,     \* evidence uploads
  OwnerOf,      \* [Evidence -> the user who uploaded it]
  Severities,   \* severities a reporter may choose
  MaxFaults,    \* bound on crashes and database faults
  None          \* no key, no evidence, nobody

Requests == Creates \cup Actions
Users == Citizens \cup Officials

ASSUME SosAssumption ==
  /\ Creates \cap Actions = {}
  /\ None \notin Requests \cup Users \cup Keys \cup Evidence
  /\ OwnerOf \in [Evidence -> Users]
  /\ MaxFaults \in Nat

VARIABLES
  sos,          \* table sos_reports: [Creates -> row]
  held,         \* incident_evidence.sos_id: [Evidence -> report or None]
  alerts,       \* reports for which a linked-source alert row is committed
  audits,       \* table sos_audits per report, in commit order
  events,       \* events handed to publish_event, in order
  req,          \* the local state of every request's handler
  loop,         \* [Workers -> the request being run without interruption, or None]
  clock,        \* database transactions begun so far (now() is a transaction's start)
  faults        \* crashes and database faults so far

vars == <<sos, held, alerts, audits, events, req, loop, clock, faults>>

Status == {"ACTIVE", "ACKNOWLEDGED", "RESOLVED", "CANCELLED"}

\* Permitted transitions per current status.
SOS_VALID_TRANSITIONS ==
  [ACTIVE       |-> {"ACKNOWLEDGED", "RESOLVED", "CANCELLED"},
   ACKNOWLEDGED |-> {"RESOLVED", "CANCELLED"},
   RESOLVED     |-> {},
   CANCELLED    |-> {}]

\* Live risk of a report: not assessed; no score or one below the alert
\* threshold; a score at or above it.
Risk == {"unassessed", "low", "high"}

Row == [status : Status \cup {"absent"}, owner : Users \cup {None}, key : Keys \cup {None},
        severity : Severities \cup {None}, risk : Risk, linked : BOOLEAN,
        evidence : {0, 1}, stamps : SUBSET {"acknowledged", "resolved", "cancelled"}]

NoRow == [status |-> "absent", owner |-> None, key |-> None, severity |-> None,
          risk |-> "unassessed", linked |-> FALSE, evidence |-> 0, stamps |-> {}]

Filed == {c \in Creates : sos[c].status # "absent"}

Phases == {"idle", "keyed", "assessing", "assessed", "alerted", "linked",
           "authorised", "read", "moved", "done", "failed"}

Idle == [phase |-> "idle", worker |-> None, user |-> None, key |-> None, ev |-> None,
         severity |-> None, target |-> None, goal |-> None, seen |-> None, at |-> 0,
         reply |-> 0]

Handler == [phase : Phases, worker : Workers \cup {None}, user : Users \cup {None},
            key : Keys \cup {None}, ev : Evidence \cup {None},
            severity : Severities \cup {None}, target : Creates \cup {None},
            goal : Status \cup {None}, seen : Status \cup {None}, at : Nat,
            reply : {0, 200, 201, 403, 409, 500}]

AuditRow == [action : Status \cup {"CREATED", "EVIDENCE_ATTACHED", "RISK_ASSESSED",
                                   "ALERT_LINKED"},
             prev : Status \cup {None}, new : Status \cup {None}, at : Nat]

Event == [type : {"SOS_ALERT_CREATED", "SOS_STATUS_CHANGED"}, sos : Creates,
          status : Status \cup {None}]

Audit(action, prev, new, at) == [action |-> action, prev |-> prev, new |-> new, at |-> at]

Init ==
  /\ sos = [c \in Creates |-> NoRow]
  /\ held = [e \in Evidence |-> None]
  /\ alerts = {}
  /\ audits = [c \in Creates |-> <<>>]
  /\ events = <<>>
  /\ req = [r \in Requests |-> Idle]
  /\ loop = [w \in Workers |-> None]
  /\ clock = 0
  /\ faults = 0

Active(r) == req[r].phase \notin {"idle", "done", "failed"}

\* A handler of worker w returns: only its answer and its report are remembered.
Finish(w, c, phase, reply) ==
  [phase |-> phase, worker |-> w, user |-> None, key |-> None, ev |-> None,
   severity |-> None, target |-> c, goal |-> None, seen |-> None, at |-> 0,
   reply |-> reply]

\* The handler has committed and refreshes row c: its next transaction begins
\* and loads the status it will believe in from here on.
Refresh(q, phase, status) == [q EXCEPT !.phase = phase, !.seen = status, !.at = clock + 1]

\* The handler of r may run: its worker is free, or is already running it.
MayRun(r) == loop[req[r].worker] \in {None, r}

\* The handler of r goes on to its next step without an await.
Hold(r) == loop' = [loop EXCEPT ![req[r].worker] = r]

\* The handler of r awaits or returns, and its worker is free.
Yield(r) == loop' = [loop EXCEPT ![req[r].worker] = None]

-----------------------------------------------------------------------------
(* POST /sos                                                               *)

\* The rows the idempotency select finds; it is skipped without a key.
Claimed(u, k) ==
  IF k = None THEN {} ELSE {c \in Filed : sos[c].owner = u /\ sos[c].key = k}

\* Evidence is accepted only from a verified reporter.
MayAttach(u, e) == e = None \/ u \in Verified

\* The key is free: the handler goes on to insert.
BeginSos(r, w, u, k, e, sev) ==
  /\ req[r].phase = "idle"
  /\ loop[w] = None
  /\ MayAttach(u, e)
  /\ Claimed(u, k) = {}
  /\ req' = [req EXCEPT ![r] =
               [phase |-> "keyed", worker |-> w, user |-> u, key |-> k, ev |-> e,
                severity |-> sev, target |-> r, goal |-> None, seen |-> None,
                at |-> clock + 1, reply |-> 0]]
  /\ loop' = [loop EXCEPT ![w] = r]
  /\ clock' = clock + 1
  /\ UNCHANGED <<sos, held, alerts, audits, events, faults>>

\* The request ends at once: 403 for evidence without a verified identity, 200
\* with the row the key names, 500 when the select finds several rows.
AnswerSos(r, w, u, k, e) ==
  /\ req[r].phase = "idle"
  /\ loop[w] = None
  /\ \/ /\ ~MayAttach(u, e)
        /\ req' = [req EXCEPT ![r] = Finish(w, None, "done", 403)]
     \/ /\ MayAttach(u, e)
        /\ \E c \in Claimed(u, k) :
             req' = [req EXCEPT ![r] = IF Claimed(u, k) = {c}
                                         THEN Finish(w, c, "done", 200)
                                         ELSE Finish(w, None, "failed", 500)]
  /\ UNCHANGED <<sos, held, alerts, audits, events, loop, clock, faults>>

\* Mutation: any upload whose identifier is known is bound.
BindsAny(u, e) == e # None

\* Evidence is bound only when the reporter owns it.
Binds(u, e) == e # None /\ OwnerOf[e] = u

\* create_sos from the insert to the refresh, then the handler suspends in
\* engine.assess.  The refresh begins the transaction that stays open meanwhile
\* and loads the status the handler will still believe in when it resumes.
InsertSos(r) ==
  LET q == req[r]
      bound == Binds(q.user, q.ev)
      created == Audit("CREATED", None, "ACTIVE", q.at)
      attached == Audit("EVIDENCE_ATTACHED", "ACTIVE", "ACTIVE", q.at)
  IN /\ q.phase = "keyed"
     /\ MayRun(r)
     /\ sos' = [sos EXCEPT ![r] =
                  [status |-> "ACTIVE", owner |-> q.user, key |-> q.key,
                   severity |-> q.severity, risk |-> "unassessed", linked |-> FALSE,
                   evidence |-> IF bound THEN 1 ELSE 0, stamps |-> {}]]
     /\ held' = IF bound THEN [held EXCEPT ![q.ev] = r] ELSE held
     /\ audits' = [audits EXCEPT ![r] = IF bound THEN <<created, attached>> ELSE <<created>>]
     /\ req' = [req EXCEPT ![r] = Refresh(q, "assessing", "ACTIVE")]
     /\ clock' = clock + 1
     /\ Yield(r)
     /\ UNCHANGED <<alerts, events, faults>>

\* Mutation: the whole row is written back, as it was loaded before the await.
AttachWholeRow(row, seen, score) == [row EXCEPT !.risk = score, !.status = seen]

\* The columns attach_risk_context writes; the status is not among them.
AttachRisk(row, seen, score) == [row EXCEPT !.risk = score]

\* engine.assess has raised: the report keeps no risk snapshot.
AssessmentFails(r) ==
  /\ req[r].phase = "assessing"
  /\ MayRun(r)
  /\ req' = [req EXCEPT ![r].phase = "assessed"]
  /\ Hold(r)
  /\ UNCHANGED <<sos, held, alerts, audits, events, clock, faults>>

\* engine.assess has returned: attach_risk_context, with an audit row that
\* records the status loaded before the await, then commit and refresh.
AttachRiskContext(r, score) ==
  LET q == req[r] IN
  /\ q.phase = "assessing"
  /\ MayRun(r)
  /\ sos' = [sos EXCEPT ![r] = AttachRisk(sos[r], q.seen, score)]
  /\ audits' = [audits EXCEPT ![r] = Append(@, Audit("RISK_ASSESSED", q.seen, q.seen, q.at))]
  /\ req' = [req EXCEPT ![r] = Refresh(q, "assessed", sos[r].status)]
  /\ clock' = clock + 1
  /\ Hold(r)
  /\ UNCHANGED <<held, alerts, events, faults>>

\* The only condition maybe_generate_sos_alert tests.
ShouldAlert(row) == row.risk = "high"

\* generate_operational_alert commits the alert before the report refers to it;
\* the report is then loaded again to look at linked_alert_id.
RaiseAlert(r) ==
  /\ req[r].phase = "assessed"
  /\ ShouldAlert(sos[r])
  /\ MayRun(r)
  /\ alerts' = alerts \cup {r}
  /\ req' = [req EXCEPT ![r] = Refresh(req[r], "alerted", sos[r].status)]
  /\ clock' = clock + 1
  /\ Hold(r)
  /\ UNCHANGED <<sos, held, audits, events, faults>>

LinkAlert(r) ==
  LET q == req[r] IN
  /\ q.phase = "alerted"
  /\ MayRun(r)
  /\ sos' = [sos EXCEPT ![r].linked = TRUE]
  /\ audits' = [audits EXCEPT ![r] = Append(@, Audit("ALERT_LINKED", q.seen, q.seen, q.at))]
  /\ req' = [req EXCEPT ![r].phase = "linked"]
  /\ Hold(r)
  /\ UNCHANGED <<held, alerts, events, clock, faults>>

\* Mutation: the report is announced before it refers to its alert.
PastRaise(r) ==
  \/ req[r].phase \in {"alerted", "linked"}
  \/ req[r].phase = "assessed" /\ ~ShouldAlert(sos[r])

\* Mutation: the handler returns early when there is no alert to announce.
PastLinkOnly(r) == req[r].phase = "linked"

\* The handler is past the alert stage.
PastAlert(r) ==
  \/ req[r].phase = "linked"
  \/ req[r].phase = "assessed" /\ ~ShouldAlert(sos[r])

\* publish_event("SOS_ALERT_CREATED"), then the 201 answer.
AnnounceSos(r) ==
  /\ PastAlert(r)
  /\ MayRun(r)
  /\ events' = Append(events, [type |-> "SOS_ALERT_CREATED", sos |-> r, status |-> None])
  /\ req' = [req EXCEPT ![r] = Finish(req[r].worker, r, "done", 201)]
  /\ Yield(r)
  /\ UNCHANGED <<sos, held, alerts, audits, clock, faults>>

-----------------------------------------------------------------------------
(* POST /sos/{id}/acknowledge, /resolve and /cancel                        *)

\* Mutation: the target is checked, the current status is not.
MayReopen(from, to) == to # from

MayMove(from, to) == to \in SOS_VALID_TRANSITIONS[from]

\* What a handler knows after it has loaded row c: it goes on to write, or 409.
Loaded(q, c) ==
  IF MayMove(sos[c].status, q.goal)
    THEN [q EXCEPT !.phase = "read", !.seen = sos[c].status]
    ELSE Finish(q.worker, c, "done", 409)

\* A handler of worker w that has authenticated u and is about to load row c.
Ordered(w, u, c, goal) ==
  [phase |-> "authorised", worker |-> w, user |-> u, key |-> None, ev |-> None,
   severity |-> None, target |-> c, goal |-> goal, seen |-> None, at |-> clock + 1,
   reply |-> 0]

\* An official's acknowledge or resolve: get_current_user begins the
\* transaction, then role_checker runs in the thread pool and the loop is free.
Authorise(r, w, u, c, goal) ==
  /\ req[r].phase = "idle"
  /\ loop[w] = None
  /\ req' = [req EXCEPT ![r] = Ordered(w, u, c, goal)]
  /\ clock' = clock + 1
  /\ UNCHANGED <<sos, held, alerts, audits, events, loop, faults>>

\* transition_sos_status loads the row and consults the table.
ReadSos(r) ==
  /\ req[r].phase = "authorised"
  /\ MayRun(r)
  /\ req' = [req EXCEPT ![r] = Loaded(req[r], req[r].target)]
  /\ IF MayMove(sos[req[r].target].status, req[r].goal) THEN Hold(r) ELSE UNCHANGED loop
  /\ UNCHANGED <<sos, held, alerts, audits, events, clock, faults>>

\* A citizen cancels only their own report; an official cancels any.
MayCancel(u, c) == u \in Officials \/ sos[c].owner = u

\* cancel_sos_report up to the check of the table; no await precedes it.
BeginCancel(r, w, u, c) ==
  /\ req[r].phase = "idle"
  /\ loop[w] = None
  /\ req' = [req EXCEPT ![r] = IF MayCancel(u, c) THEN Loaded(Ordered(w, u, c, "CANCELLED"), c)
                               ELSE Finish(w, c, "done", 403)]
  /\ loop' = IF MayCancel(u, c) /\ MayMove(sos[c].status, "CANCELLED")
               THEN [loop EXCEPT ![w] = r] ELSE loop
  /\ clock' = clock + 1
  /\ UNCHANGED <<sos, held, alerts, audits, events, faults>>

\* The timestamp column a transition fills.
Stamp(goal) ==
  CASE goal = "ACKNOWLEDGED" -> "acknowledged"
    [] goal = "RESOLVED"     -> "resolved"
    [] OTHER                 -> "cancelled"

\* The columns a transition writes.
Moved(row, goal) == [row EXCEPT !.status = goal, !.stamps = @ \cup {Stamp(goal)}]

\* transition_sos_status writes the row and its audit in one transaction.
MoveSos(r) ==
  LET q == req[r]
      c == q.target
  IN /\ q.phase = "read"
     /\ MayRun(r)
     /\ sos' = [sos EXCEPT ![c] = Moved(sos[c], q.goal)]
     /\ audits' = [audits EXCEPT ![c] = Append(@, Audit(q.goal, q.seen, q.goal, q.at))]
     /\ req' = [req EXCEPT ![r].phase = "moved"]
     /\ Hold(r)
     /\ UNCHANGED <<held, alerts, events, clock, faults>>

\* Mutation: the event may go out as soon as the table has been consulted.
PastCheck(r) == req[r].phase \in {"read", "moved"}

\* The transition is committed.
PastMove(r) == req[r].phase = "moved"

\* publish_event("SOS_STATUS_CHANGED"), then the 200 answer.
AnnounceMove(r) ==
  LET q == req[r] IN
  /\ PastMove(r)
  /\ MayRun(r)
  /\ events' = Append(events, [type |-> "SOS_STATUS_CHANGED", sos |-> q.target, status |-> q.goal])
  /\ req' = [req EXCEPT ![r] = Finish(q.worker, q.target, "done", 200)]
  /\ Yield(r)
  /\ UNCHANGED <<sos, held, alerts, audits, clock, faults>>

-----------------------------------------------------------------------------
(* Failures                                                                *)

\* POST /sos swallows errors of the assessment and of the alert, so a report
\* whose columns are still loaded is announced even then; what fails last is
\* the read of its evidence.
AnnouncesAnyway(r) == r \in Creates /\ req[r].phase \in {"assessing", "assessed", "linked"}

\* A database statement of r's handler fails.  Its session is left needing a
\* rollback, so even the handlers that swallow the error end with a 500.
DatabaseFault(r) ==
  /\ Active(r)
  /\ MayRun(r)
  /\ faults < MaxFaults
  /\ faults' = faults + 1
  /\ req' = [req EXCEPT ![r] = Finish(req[r].worker, req[r].target, "failed", 500)]
  /\ \/ UNCHANGED events
     \/ /\ AnnouncesAnyway(r)
        /\ events' = Append(events, [type |-> "SOS_ALERT_CREATED", sos |-> r, status |-> None])
  /\ Yield(r)
  /\ UNCHANGED <<sos, held, alerts, audits, clock>>

\* Worker w dies and is restarted: its handlers end without an answer.
Crash(w) ==
  LET lost == {r \in Requests : Active(r) /\ req[r].worker = w} IN
  /\ lost # {}
  /\ faults < MaxFaults
  /\ faults' = faults + 1
  /\ req' = [r \in Requests |-> IF r \in lost THEN Finish(w, req[r].target, "failed", 0)
                                ELSE req[r]]
  /\ loop' = [loop EXCEPT ![w] = None]
  /\ UNCHANGED <<sos, held, alerts, audits, events, clock>>

\* Nothing is in flight: the service rests until the next request.
Rest == (\A r \in Requests : ~Active(r)) /\ UNCHANGED vars

\* What the handler of r does once it has started.
Proceed(r) ==
  \/ r \in Creates /\ \/ InsertSos(r)
                      \/ AssessmentFails(r)
                      \/ \E score \in {"low", "high"} : AttachRiskContext(r, score)
                      \/ RaiseAlert(r)
                      \/ LinkAlert(r)
                      \/ AnnounceSos(r)
  \/ r \in Actions /\ (ReadSos(r) \/ MoveSos(r) \/ AnnounceMove(r))

Arrive(r, w) ==
  \/ /\ r \in Creates
     /\ \E u \in Users, k \in Keys \cup {None}, e \in Evidence \cup {None} :
          \/ \E sev \in Severities : BeginSos(r, w, u, k, e, sev)
          \/ AnswerSos(r, w, u, k, e)
  \/ /\ r \in Actions
     /\ \E c \in Filed :
          \/ \E u \in Officials, goal \in {"ACKNOWLEDGED", "RESOLVED"} :
               Authorise(r, w, u, c, goal)
          \/ \E u \in Users : BeginCancel(r, w, u, c)

Next ==
  \/ \E r \in Requests, w \in Workers : Arrive(r, w)
  \/ \E r \in Requests : Proceed(r) \/ DatabaseFault(r)
  \/ \E w \in Workers : Crash(w)
  \/ Rest

Spec == Init /\ [][Next]_vars

\* The event loop runs every handler it has started: each await is on a thread
\* pool call, on engine.assess, which bounds its own waits, or on a send.
FairSpec == Spec /\ \A r \in Requests : WF_vars(Proceed(r))

\* One worker process, as the container image starts it.
OneWorker == \E w \in Workers : Workers = {w}

-----------------------------------------------------------------------------
(* Properties                                                              *)

\* Every variable holds a value the program could hold.
TypeOK ==
  /\ sos \in [Creates -> Row]
  /\ held \in [Evidence -> Creates \cup {None}]
  /\ alerts \subseteq Creates
  /\ audits \in [Creates -> Seq(AuditRow)]
  /\ events \in Seq(Event)
  /\ req \in [Requests -> Handler]
  /\ loop \in [Workers -> Requests \cup {None}]
  /\ clock \in Nat
  /\ faults \in Nat

\* A reporter's idempotency key names at most one report: the select-then-insert
\* of create_sos is never split between two requests with the same key.
OneSosPerKey ==
  \A c, d \in Filed :
    c # d /\ sos[c].key # None /\ sos[c].owner = sos[d].owner => sos[c].key # sos[d].key

\* A report moves only along SOS_VALID_TRANSITIONS, whatever other handlers
\* have done to it since the mover loaded it.
MovesAlongTable ==
  [][\A c \in Filed : \/ sos'[c].status = sos[c].status
                      \/ MayMove(sos[c].status, sos'[c].status)]_sos

\* Where the trail of report c records its creation and its moves.
Lifecycle(c) == {i \in DOMAIN audits[c] : audits[c][i].action \in Status \cup {"CREATED"}}

\* The audit trail is complete: creation first, every move from the status the
\* previous one led to, and the last one led to the status the row has now.
AuditChain ==
  \A c \in Filed :
    LET t == audits[c]
        moves == Lifecycle(c)
    IN /\ 1 \in moves /\ t[1].action = "CREATED"
       /\ \A i, j \in moves :
            i < j /\ (\A k \in moves : k <= i \/ j <= k) => t[j].prev = t[i].new
       /\ \A i \in moves : (\A k \in moves : k <= i) => t[i].new = sos[c].status

\* A report refers only to a committed alert, and an alert raised for a report
\* is left unreferenced only while its handler is between the two commits, or
\* died there.
AlertLinkSound ==
  \A c \in Creates :
    /\ sos[c].linked => c \in alerts
    /\ c \in alerts => c \in Filed /\ (sos[c].linked \/ req[c].phase \in {"alerted", "failed"})

\* What is broadcast has been committed: an announced report is in the table,
\* and an announced status is in the report's audit trail.
AnnouncedIsCommitted ==
  \A i \in DOMAIN events :
    LET e == events[i] IN
    /\ e.sos \in Filed
    /\ e.type = "SOS_STATUS_CHANGED" => \E j \in DOMAIN audits[e.sos] :
                                           audits[e.sos][j].action = e.status

\* Subscribers hear the moves of one report in the order they were committed,
\* so the last status they heard is never behind one they heard before.
StatusEventsInOrder ==
  \A i, j \in DOMAIN events :
    (/\ i < j /\ events[i].sos = events[j].sos
     /\ events[i].type = "SOS_STATUS_CHANGED" /\ events[j].type = "SOS_STATUS_CHANGED")
       => MayMove(events[i].status, events[j].status)

\* What subscribers hear is the committed history of the reports: nothing that
\* was rolled back or not yet written, and nothing out of its order.
EventsTellHistory == AnnouncedIsCommitted /\ StatusEventsInOrder

\* Evidence bound to a report belongs to its reporter, who was verified, and the
\* report counts it: no report shows evidence of another user.
EvidenceOfReporter ==
  \A e \in Evidence :
    held[e] # None =>
      LET row == sos[held[e]] IN
      row.owner = OwnerOf[e] /\ row.owner \in Verified /\ row.evidence = 1

Announced(c) == \E i \in DOMAIN events :
  events[i].type = "SOS_ALERT_CREATED" /\ events[i].sos = c

\* Every committed report is announced, whatever its risk assessment comes to,
\* unless its handler fails.
EverySosAnnounced ==
  \A c \in Creates : (c \in Filed) ~> (Announced(c) \/ req[c].phase = "failed")

\* What every handler may rely on, with any number of workers: which phases it
\* goes through, and what exists in the database at each of them.
HandlerInv ==
  /\ \A r \in Requests :
       /\ req[r].phase # "idle" => req[r].worker \in Workers
       /\ req[r].phase \in {"authorised", "read", "moved"} =>
            req[r].target \in Filed /\ req[r].goal \in Status
  /\ \A r \in Creates :
       /\ req[r].phase \notin {"authorised", "read", "moved"}
       /\ req[r].phase \in {"idle", "keyed"} => sos[r].status = "absent"
       /\ req[r].phase = "keyed" => req[r].user \in Users
       /\ req[r].phase \in {"assessing", "assessed", "alerted", "linked"} => r \in Filed
  /\ \A r \in Actions :
       req[r].phase \in {"idle", "authorised", "read", "moved", "done", "failed"}

\* What a handler may rely on between two awaits when it has the only worker:
\* nobody else is between awaits, the key it found free is still free, and the
\* status it loaded is still the status of the row.
SectionInv ==
  /\ \A r \in Requests :
       req[r].phase \in {"keyed", "assessed", "alerted", "linked", "read", "moved"} =>
         loop[req[r].worker] = r
  /\ \A r \in Creates : req[r].phase = "keyed" => Claimed(req[r].user, req[r].key) = {}
  /\ \A r \in Actions :
       req[r].phase = "read" => /\ req[r].seen = sos[req[r].target].status
                               /\ MayMove(req[r].seen, req[r].goal)

\* The inductive invariant behind OneSosPerKey and MovesAlongTable.
IInv == TypeOK /\ HandlerInv /\ SectionInv /\ OneSosPerKey

\* The abstract register this network implements when it has one worker.
Ledger == INSTANCE SosLedger WITH
  Reports <- Creates,
  Claims  <- Users \X Keys,
  NoClaim <- None,
  status  <- [c \in Creates |-> sos[c].status],
  claim   <- [c \in Creates |-> IF sos[c].key = None THEN None
                                ELSE <<sos[c].owner, sos[c].key>>]

LedgerSpec == Ledger!Spec

=============================================================================
