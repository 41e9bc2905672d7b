-------------------------- MODULE SosNetworkProofs ---------------------------
(***************************************************************************)
(* Proofs about SosNetwork for every set of requests, workers, users, keys *)
(* and uploads. With any number of worker processes: each variable keeps   *)
(* its type and each handler what it may rely on (HandlerInv), an alert is *)
(* linked as it was committed, evidence stays with its reporter, and what  *)
(* is announced has been committed. With one worker: an idempotency key    *)
(* names one report, a report moves along its table, the network           *)
(* implements SosLedger, the audit trail is the whole history of the       *)
(* status, and subscribers hear that history in its order. The runs with   *)
(* two workers show that OneWorker is needed.                              *)
(*                                                                         *)
(* The argument for one worker: a handler between two statements with no   *)
(* await between them holds the only event loop (SectionInv), so when it   *)
(* writes, what it has read - that its key is free, or the status of its   *)
(* report - is still so.                                                   *)
(***************************************************************************)
EXTENDS SosNetwork, TLAPS

(***************************************************************************)
(* The records a handler builds.                                           *)
(***************************************************************************)

(* A handler that returns keeps a well-typed record with its worker. *)
LEMMA FinishFields ==
  ASSUME NEW w \in Workers \cup {None}, NEW c \in Creates \cup {None},
         NEW p \in {"done", "failed"}, NEW n \in {0, 200, 201, 403, 409, 500}
  PROVE  /\ Finish(w, c, p, n) \in Handler
         /\ Finish(w, c, p, n).phase = p
         /\ Finish(w, c, p, n).worker = w
  BY DEF Finish, Handler, Phases, Status

(* A refreshed handler differs in its phase, its status and its transaction. *)
LEMMA RefreshFields ==
  ASSUME NEW q \in Handler, NEW p \in Phases, NEW s \in Status, clock \in Nat
  PROVE  /\ Refresh(q, p, s) \in Handler
         /\ Refresh(q, p, s).phase = p
         /\ Refresh(q, p, s).worker = q.worker
<1> DEFINE a == [q EXCEPT !.phase = p]
           b == [a EXCEPT !.seen = s]
           c == [b EXCEPT !.at = clock + 1]
<1>1. a \in Handler /\ a.phase = p /\ a.worker = q.worker
  BY DEF Handler
<1> HIDE DEF a
<1>2. b \in Handler /\ b.phase = p /\ b.worker = q.worker
  BY <1>1 DEF Handler
<1> HIDE DEF b
<1>3. c \in Handler /\ c.phase = p /\ c.worker = q.worker
  BY <1>2 DEF Handler
<1> QED
  BY <1>3 DEF a, b, Refresh

(* A handler that has loaded a row and may move it remembers the status. *)
LEMMA ReadFields ==
  ASSUME NEW q \in Handler, NEW s \in Status
  PROVE  LET n == [q EXCEPT !.phase = "read", !.seen = s] IN
         /\ n \in Handler
         /\ n.phase = "read"
         /\ n.worker = q.worker
         /\ n.target = q.target
         /\ n.goal = q.goal
         /\ n.seen = s
<1> DEFINE a == [q EXCEPT !.phase = "read"]
           b == [a EXCEPT !.seen = s]
<1>1. /\ a \in Handler /\ a.phase = "read" /\ a.worker = q.worker
      /\ a.target = q.target /\ a.goal = q.goal
  BY DEF Handler, Phases
<1> HIDE DEF a
<1>2. /\ b \in Handler /\ b.phase = "read" /\ b.worker = q.worker
      /\ b.target = q.target /\ b.goal = q.goal /\ b.seen = s
  BY <1>1 DEF Handler
<1> QED
  BY <1>2 DEF a

(* A handler that only changes phase keeps the rest of what it knows. *)
LEMMA PhaseFields ==
  ASSUME NEW q \in Handler, NEW p \in Phases
  PROVE  LET n == [q EXCEPT !.phase = p] IN
         /\ n \in Handler
         /\ n.phase = p
         /\ n.worker = q.worker
         /\ n.target = q.target
         /\ n.goal = q.goal
         /\ n.seen = q.seen
  BY DEF Handler

(* A moved row keeps its type, its owner and its key. *)
LEMMA MovedFields ==
  ASSUME NEW row \in Row, NEW goal \in Status
  PROVE  /\ Moved(row, goal) \in Row
         /\ Moved(row, goal).status = goal
         /\ Moved(row, goal).owner = row.owner
         /\ Moved(row, goal).key = row.key
<1> DEFINE a == [row EXCEPT !.status = goal]
           b == [a EXCEPT !.stamps = a.stamps \cup {Stamp(goal)}]
<1>1. a \in Row /\ a.status = goal /\ a.owner = row.owner /\ a.key = row.key
  BY DEF Row
<1> HIDE DEF a
<1>2. Stamp(goal) \in {"acknowledged", "resolved", "cancelled"}
  BY DEF Stamp
<1>3. b \in Row /\ b.status = goal /\ b.owner = row.owner /\ b.key = row.key
  BY <1>1, <1>2 DEF Row
<1> QED
  BY <1>3 DEF a, Moved

(* The new row of InsertSos, and the same row with a risk snapshot or a link. *)
LEMMA RowFields ==
  ASSUME NEW row \in Row, NEW seen \in Status, NEW score \in {"low", "high"}
  PROVE  /\ AttachRisk(row, seen, score) \in Row
         /\ AttachRisk(row, seen, score).status = row.status
         /\ AttachRisk(row, seen, score).owner = row.owner
         /\ AttachRisk(row, seen, score).key = row.key
         /\ [row EXCEPT !.linked = TRUE] \in Row
         /\ [row EXCEPT !.linked = TRUE].status = row.status
         /\ [row EXCEPT !.linked = TRUE].owner = row.owner
         /\ [row EXCEPT !.linked = TRUE].key = row.key
<1>1. LET n == [row EXCEPT !.risk = score] IN
        n \in Row /\ n.status = row.status /\ n.owner = row.owner /\ n.key = row.key
  BY DEF Row, Risk
<1>2. LET n == [row EXCEPT !.linked = TRUE] IN
        n \in Row /\ n.status = row.status /\ n.owner = row.owner /\ n.key = row.key
  BY DEF Row
<1> QED
  BY <1>1, <1>2 DEF AttachRisk

(***************************************************************************)
(* Types.                                                                  *)
(***************************************************************************)

(* What a step of one handler must keep for HandlerInv to hold after it. *)
LEMMA HandlerStep ==
  ASSUME TypeOK, HandlerInv, NEW r \in Requests, NEW q \in Handler,
         req' = [req EXCEPT ![r] = q],
         q.worker \in Workers,
         \A c \in Creates : (sos'[c].status = "absent") <=>
                             (sos[c].status = "absent" /\ ~(c = r /\ q.phase = "assessing")),
         q.phase \in {"authorised", "read", "moved"} => q.target \in Filed /\ q.goal \in Status,
         r \in Creates =>
           /\ q.phase \notin {"authorised", "read", "moved"}
           /\ q.phase \in {"idle", "keyed"} => sos[r].status = "absent"
           /\ q.phase = "keyed" => q.user \in Users
           /\ q.phase \in {"assessed", "alerted", "linked"} => r \in Filed,
         r \in Actions => q.phase \in {"idle", "authorised", "read", "moved", "done", "failed"}
  PROVE  req' \in [Requests -> Handler] /\ HandlerInv'
<1>1. req' \in [Requests -> Handler]
  BY DEF TypeOK
<1>2. req'[r] = q /\ \A x \in Requests : x # r => req'[x] = req[x]
  BY DEF TypeOK
<1>3. Creates \subseteq Requests /\ Actions \subseteq Requests
  BY DEF Requests
<1>4. Filed \subseteq Filed'
  BY DEF Filed
<1>5. ASSUME NEW x \in Requests
      PROVE  /\ req'[x].phase # "idle" => req'[x].worker \in Workers
             /\ req'[x].phase \in {"authorised", "read", "moved"} =>
                  req'[x].target \in Filed' /\ req'[x].goal \in Status
  BY <1>2, <1>4 DEF HandlerInv
<1>6. ASSUME NEW x \in Creates
      PROVE  /\ req'[x].phase \notin {"authorised", "read", "moved"}
             /\ req'[x].phase \in {"idle", "keyed"} => sos'[x].status = "absent"
             /\ req'[x].phase = "keyed" => req'[x].user \in Users
             /\ req'[x].phase \in {"assessing", "assessed", "alerted", "linked"} => x \in Filed'
  BY <1>2, <1>3, <1>4 DEF HandlerInv, Filed
<1>7. ASSUME NEW x \in Actions
      PROVE  req'[x].phase \in {"idle", "authorised", "read", "moved", "done", "failed"}
  BY <1>2, <1>3 DEF HandlerInv
<1> QED
  BY <1>1, <1>5, <1>6, <1>7 DEF HandlerInv

(* A handler that ends without touching a row keeps HandlerInv. *)
LEMMA FinishStep ==
  ASSUME TypeOK, HandlerInv, NEW r \in Requests, NEW q \in Handler,
         q.worker \in Workers, q.phase \in {"done", "failed"},
         req' = [req EXCEPT ![r] = q], UNCHANGED sos
  PROVE  req' \in [Requests -> Handler] /\ HandlerInv'
<1>1. \A x \in Creates : (sos'[x].status = "absent") <=>
                          (sos[x].status = "absent" /\ ~(x = r /\ q.phase = "assessing"))
  OBVIOUS
<1> QED
  BY <1>1, HandlerStep

(* The loop variable stays typed whoever holds or yields it. *)
LEMMA LoopTyped ==
  ASSUME TypeOK, NEW r \in Requests, Hold(r) \/ Yield(r) \/ UNCHANGED loop
  PROVE  loop' \in [Workers -> Requests \cup {None}]
  BY DEF TypeOK, Hold, Yield

(* A started handler of r has a worker, and loads rows of filed reports only. *)
LEMMA HandlerFacts ==
  ASSUME TypeOK, HandlerInv, NEW r \in Requests, req[r].phase # "idle"
  PROVE  /\ req[r] \in Handler
         /\ req[r].worker \in Workers
         /\ req[r].target \in Creates \cup {None}
         /\ req[r].phase \in {"authorised", "read", "moved"} =>
              /\ req[r].target \in Filed
              /\ req[r].target \in Creates
              /\ req[r].goal \in Status
              /\ sos[req[r].target] \in Row
              /\ sos[req[r].target].status \in Status
  BY DEF TypeOK, HandlerInv, Handler, Filed, Row

(* The same for a handler of POST /sos and its own row. *)
LEMMA CreateFacts ==
  ASSUME TypeOK, HandlerInv, NEW r \in Creates,
         req[r].phase \in {"assessing", "assessed", "alerted", "linked"}
  PROVE  r \in Filed /\ sos[r] \in Row /\ sos[r].status \in Status
  BY DEF TypeOK, HandlerInv, Filed, Row

LEMMA BeginSosTyped ==
  ASSUME TypeOK, HandlerInv, NEW r \in Creates, NEW w \in Workers, NEW u \in Users,
         NEW k \in Keys \cup {None}, NEW e \in Evidence \cup {None}, NEW sev \in Severities,
         BeginSos(r, w, u, k, e, sev)
  PROVE  TypeOK' /\ HandlerInv'
<1> DEFINE q == [phase |-> "keyed", worker |-> w, user |-> u, key |-> k, ev |-> e,
                 severity |-> sev, target |-> r, goal |-> None, seen |-> None,
                 at |-> clock + 1, reply |-> 0]
<1>1. q \in Handler /\ q.phase = "keyed" /\ q.worker = w /\ q.user \in Users
  BY DEF TypeOK, Handler, Phases
<1>2. req' = [req EXCEPT ![r] = q] /\ UNCHANGED sos
  BY DEF BeginSos
<1>3. sos[r].status = "absent" /\ r \in Requests /\ r \notin Actions
  BY SosAssumption DEF BeginSos, HandlerInv, Requests
<1> HIDE DEF q
<1>4. req' \in [Requests -> Handler] /\ HandlerInv'
  BY <1>1, <1>2, <1>3, HandlerStep
<1>5. loop' \in [Workers -> Requests \cup {None}]
  BY <1>3 DEF BeginSos, TypeOK
<1> QED
  BY <1>4, <1>5 DEF BeginSos, TypeOK

LEMMA AnswerSosTyped ==
  ASSUME TypeOK, HandlerInv, NEW r \in Creates, NEW w \in Workers, NEW u \in Users,
         NEW k \in Keys \cup {None}, NEW e \in Evidence \cup {None},
         AnswerSos(r, w, u, k, e)
  PROVE  TypeOK' /\ HandlerInv'
<1>1. PICK q \in Handler : /\ q.phase \in {"done", "failed"} /\ q.worker = w
                          /\ req' = [req EXCEPT ![r] = q]
  <2> DEFINE q1 == Finish(w, None, "done", 403)
             q2(c) == Finish(w, c, "done", 200)
             q3 == Finish(w, None, "failed", 500)
  <2>1. q1 \in Handler /\ q1.phase = "done" /\ q1.worker = w
    BY FinishFields
  <2>2. \A c \in Creates : q2(c) \in Handler /\ q2(c).phase = "done" /\ q2(c).worker = w
    BY FinishFields
  <2>3. q3 \in Handler /\ q3.phase = "failed" /\ q3.worker = w
    BY FinishFields
  <2>4. \/ req' = [req EXCEPT ![r] = q1]
        \/ \E c \in Creates : req' = [req EXCEPT ![r] = q2(c)]
        \/ req' = [req EXCEPT ![r] = q3]
    BY DEF AnswerSos, Claimed, Filed
  <2> HIDE DEF q1, q2, q3
  <2> QED
    BY <2>1, <2>2, <2>3, <2>4
<1>2. UNCHANGED sos /\ r \in Requests
  BY DEF AnswerSos, Requests
<1>3. req' \in [Requests -> Handler] /\ HandlerInv'
  BY <1>1, <1>2, FinishStep
<1> QED
  BY <1>3 DEF AnswerSos, TypeOK

LEMMA InsertSosTyped ==
  ASSUME TypeOK, HandlerInv, NEW r \in Creates, InsertSos(r)
  PROVE  TypeOK' /\ HandlerInv'
<1>1. /\ r \in Requests /\ r \notin Actions /\ req[r] \in Handler /\ req[r].worker \in Workers
  BY SosAssumption, HandlerFacts DEF Requests, InsertSos
<1>2. /\ Refresh(req[r], "assessing", "ACTIVE") \in Handler
      /\ Refresh(req[r], "assessing", "ACTIVE").phase = "assessing"
      /\ Refresh(req[r], "assessing", "ACTIVE").worker = req[r].worker
  BY <1>1, RefreshFields DEF TypeOK, Phases, Status
<1> DEFINE bound == Binds(req[r].user, req[r].ev)
           row == [status |-> "ACTIVE", owner |-> req[r].user, key |-> req[r].key,
                   severity |-> req[r].severity, risk |-> "unassessed", linked |-> FALSE,
                   evidence |-> IF bound THEN 1 ELSE 0, stamps |-> {}]
<1>3. row \in Row /\ row.status = "ACTIVE"
  BY <1>1 DEF Handler, Row, Status, Risk
<1>4. sos' = [sos EXCEPT ![r] = row]
  BY DEF InsertSos
<1> HIDE DEF row
<1>5. sos' \in [Creates -> Row]
  BY <1>3, <1>4 DEF TypeOK
<1>6. req' \in [Requests -> Handler] /\ HandlerInv'
  <2>1. \A c \in Creates : (sos'[c].status = "absent") <=> (sos[c].status = "absent" /\ c # r)
    BY <1>3, <1>4 DEF TypeOK
  <2> QED
    BY <1>1, <1>2, <2>1, HandlerStep DEF InsertSos
<1>7. held' \in [Evidence -> Creates \cup {None}]
  BY <1>1 DEF InsertSos, TypeOK, Binds, Handler
<1>8. audits' \in [Creates -> Seq(AuditRow)]
  <2>1. Audit("CREATED", None, "ACTIVE", req[r].at) \in AuditRow
    BY <1>1 DEF Audit, AuditRow, Handler, Status
  <2>2. Audit("EVIDENCE_ATTACHED", "ACTIVE", "ACTIVE", req[r].at) \in AuditRow
    BY <1>1 DEF Audit, AuditRow, Handler, Status
  <2> QED
    BY <2>1, <2>2 DEF InsertSos, TypeOK
<1>9. loop' \in [Workers -> Requests \cup {None}]
  BY <1>1, LoopTyped DEF InsertSos
<1> QED
  BY <1>5, <1>6, <1>7, <1>8, <1>9 DEF InsertSos, TypeOK

LEMMA AssessmentFailsTyped ==
  ASSUME TypeOK, HandlerInv, NEW r \in Creates, AssessmentFails(r)
  PROVE  TypeOK' /\ HandlerInv'
<1> DEFINE q == [req[r] EXCEPT !.phase = "assessed"]
<1>1. /\ r \in Requests /\ r \notin Actions /\ req[r] \in Handler /\ req[r].worker \in Workers
      /\ r \in Filed
  BY SosAssumption, HandlerFacts, CreateFacts DEF Requests, AssessmentFails
<1>2. req' = [req EXCEPT ![r] = q]
  BY <1>1 DEF AssessmentFails, TypeOK
<1>3. q \in Handler /\ q.phase = "assessed" /\ q.worker = req[r].worker
  BY <1>1, PhaseFields DEF Phases
<1> HIDE DEF q
<1>4. req' \in [Requests -> Handler] /\ HandlerInv'
  BY <1>1, <1>2, <1>3, HandlerStep DEF AssessmentFails
<1>5. loop' \in [Workers -> Requests \cup {None}]
  BY <1>1, LoopTyped DEF AssessmentFails
<1> QED
  BY <1>4, <1>5 DEF AssessmentFails, TypeOK

LEMMA AttachRiskContextTyped ==
  ASSUME TypeOK, HandlerInv, NEW r \in Creates, NEW score \in {"low", "high"},
         AttachRiskContext(r, score)
  PROVE  TypeOK' /\ HandlerInv'
<1> DEFINE q == Refresh(req[r], "assessed", sos[r].status)
           row == AttachRisk(sos[r], req[r].seen, score)
<1>1. /\ r \in Requests /\ r \notin Actions /\ req[r] \in Handler /\ req[r].worker \in Workers
      /\ r \in Filed /\ sos[r] \in Row /\ sos[r].status \in Status
  BY SosAssumption, HandlerFacts, CreateFacts DEF Requests, AttachRiskContext
<1>2. req' = [req EXCEPT ![r] = q] /\ sos' = [sos EXCEPT ![r] = row]
  BY DEF AttachRiskContext
<1>3. q \in Handler /\ q.phase = "assessed" /\ q.worker = req[r].worker
  <2>1. clock \in Nat /\ "assessed" \in Phases
    BY DEF TypeOK, Phases
  <2> QED
    BY <1>1, <2>1, RefreshFields
<1>4. row \in Row /\ row.status = sos[r].status
  <2>1. PICK seen \in Status : TRUE
    BY DEF Status
  <2> QED
    BY <1>1, <2>1, RowFields DEF AttachRisk
<1> HIDE DEF q, row
<1>5. sos' \in [Creates -> Row]
  BY <1>2, <1>4 DEF TypeOK
<1>6. \A c \in Creates : sos'[c].status = sos[c].status
  BY <1>2, <1>4 DEF TypeOK
<1>7. req' \in [Requests -> Handler] /\ HandlerInv'
  BY <1>1, <1>2, <1>3, <1>6, HandlerStep
<1>8. audits' \in [Creates -> Seq(AuditRow)]
  <2>1. Audit("RISK_ASSESSED", req[r].seen, req[r].seen, req[r].at) \in AuditRow
    BY <1>1 DEF Audit, AuditRow, Handler
  <2> QED
    BY <2>1 DEF AttachRiskContext, TypeOK
<1>9. loop' \in [Workers -> Requests \cup {None}]
  BY <1>1, LoopTyped DEF AttachRiskContext
<1> QED
  BY <1>5, <1>7, <1>8, <1>9 DEF AttachRiskContext, TypeOK

LEMMA RaiseAlertTyped ==
  ASSUME TypeOK, HandlerInv, NEW r \in Creates, RaiseAlert(r)
  PROVE  TypeOK' /\ HandlerInv'
<1> DEFINE q == Refresh(req[r], "alerted", sos[r].status)
<1>1. /\ r \in Requests /\ r \notin Actions /\ req[r] \in Handler /\ req[r].worker \in Workers
      /\ r \in Filed /\ sos[r].status \in Status
  BY SosAssumption, HandlerFacts, CreateFacts DEF Requests, RaiseAlert
<1>2. req' = [req EXCEPT ![r] = q] /\ UNCHANGED sos
  BY DEF RaiseAlert
<1>3. q \in Handler /\ q.phase = "alerted" /\ q.worker = req[r].worker
  <2>1. clock \in Nat /\ "alerted" \in Phases
    BY DEF TypeOK, Phases
  <2> QED
    BY <1>1, <2>1, RefreshFields
<1> HIDE DEF q
<1>4. req' \in [Requests -> Handler] /\ HandlerInv'
  BY <1>1, <1>2, <1>3, HandlerStep
<1>5. loop' \in [Workers -> Requests \cup {None}]
  BY <1>1, LoopTyped DEF RaiseAlert
<1> QED
  BY <1>4, <1>5 DEF RaiseAlert, TypeOK

LEMMA LinkAlertTyped ==
  ASSUME TypeOK, HandlerInv, NEW r \in Creates, LinkAlert(r)
  PROVE  TypeOK' /\ HandlerInv'
<1> DEFINE q == [req[r] EXCEPT !.phase = "linked"]
           row == [sos[r] EXCEPT !.linked = TRUE]
<1>1. /\ r \in Requests /\ r \notin Actions /\ req[r] \in Handler /\ req[r].worker \in Workers
      /\ r \in Filed /\ sos[r] \in Row
  BY SosAssumption, HandlerFacts, CreateFacts DEF Requests, LinkAlert
<1>2. req' = [req EXCEPT ![r] = q] /\ sos' = [sos EXCEPT ![r] = row]
  BY <1>1 DEF LinkAlert, TypeOK
<1>3. q \in Handler /\ q.phase = "linked" /\ q.worker = req[r].worker
  BY <1>1, PhaseFields DEF Phases
<1>4. row \in Row /\ row.status = sos[r].status
  <2>1. "ACTIVE" \in Status
    BY DEF Status
  <2> QED
    BY <1>1, <2>1, RowFields
<1> HIDE DEF q, row
<1>5. sos' \in [Creates -> Row]
  BY <1>2, <1>4 DEF TypeOK
<1>6. \A c \in Creates : sos'[c].status = sos[c].status
  BY <1>2, <1>4 DEF TypeOK
<1>7. req' \in [Requests -> Handler] /\ HandlerInv'
  BY <1>1, <1>2, <1>3, <1>6, HandlerStep
<1>8. audits' \in [Creates -> Seq(AuditRow)]
  <2>1. Audit("ALERT_LINKED", req[r].seen, req[r].seen, req[r].at) \in AuditRow
    BY <1>1 DEF Audit, AuditRow, Handler
  <2> QED
    BY <2>1 DEF LinkAlert, TypeOK
<1>9. loop' \in [Workers -> Requests \cup {None}]
  BY <1>1, LoopTyped DEF LinkAlert
<1> QED
  BY <1>5, <1>7, <1>8, <1>9 DEF LinkAlert, TypeOK

LEMMA AnnounceSosTyped ==
  ASSUME TypeOK, HandlerInv, NEW r \in Creates, AnnounceSos(r)
  PROVE  TypeOK' /\ HandlerInv'
<1>1. r \in Requests /\ req[r].worker \in Workers
  BY HandlerFacts DEF Requests, AnnounceSos, PastAlert
<1>2. req' \in [Requests -> Handler] /\ HandlerInv'
  <2> DEFINE q == Finish(req[r].worker, r, "done", 201)
  <2>1. q \in Handler /\ q.phase = "done" /\ q.worker = req[r].worker
    BY <1>1, FinishFields
  <2>2. req' = [req EXCEPT ![r] = q] /\ UNCHANGED sos
    BY DEF AnnounceSos
  <2> HIDE DEF q
  <2> QED
    BY <1>1, <2>1, <2>2, FinishStep
<1>3. events' \in Seq(Event)
  BY DEF AnnounceSos, TypeOK, Event
<1>4. loop' \in [Workers -> Requests \cup {None}]
  BY <1>1, LoopTyped DEF AnnounceSos
<1> QED
  BY <1>2, <1>3, <1>4 DEF AnnounceSos, TypeOK

(* A handler about to load row c. *)
LEMMA OrderedFields ==
  ASSUME NEW w \in Workers, NEW u \in Users, NEW c \in Creates, NEW goal \in Status, clock \in Nat
  PROVE  LET q == Ordered(w, u, c, goal) IN
         /\ q \in Handler
         /\ q.phase = "authorised"
         /\ q.worker = w
         /\ q.target = c
         /\ q.goal = goal
  BY DEF Ordered, Handler, Phases

(* What a handler is after it has loaded the row of a filed report. *)
LEMMA LoadedFields ==
  ASSUME TypeOK, NEW q \in Handler, NEW c \in Filed, q.worker \in Workers, q.goal \in Status,
         q.target = c
  PROVE  LET n == Loaded(q, c) IN
         /\ n \in Handler
         /\ n.worker = q.worker
         /\ n.phase \in {"read", "done"}
         /\ n.phase = "read" => /\ n.target = c /\ n.goal = q.goal
                                /\ n.seen = sos[c].status
                                /\ MayMove(sos[c].status, q.goal)
<1>1. c \in Creates /\ sos[c].status \in Status
  BY DEF TypeOK, Filed, Row
<1>2. CASE MayMove(sos[c].status, q.goal)
  <2> DEFINE n == [q EXCEPT !.phase = "read", !.seen = sos[c].status]
  <2>1. /\ n \in Handler /\ n.phase = "read" /\ n.worker = q.worker
        /\ n.target = q.target /\ n.goal = q.goal /\ n.seen = sos[c].status
    BY <1>1, ReadFields
  <2>2. Loaded(q, c) = n
    BY <1>2 DEF Loaded
  <2> HIDE DEF n
  <2> QED
    BY <1>2, <2>1, <2>2
<1>3. CASE ~MayMove(sos[c].status, q.goal)
  <2> DEFINE n == Finish(q.worker, c, "done", 409)
  <2>1. n \in Handler /\ n.phase = "done" /\ n.worker = q.worker
    BY <1>1, FinishFields
  <2>2. Loaded(q, c) = n
    BY <1>3 DEF Loaded
  <2> HIDE DEF n
  <2> QED
    BY <2>1, <2>2
<1> QED
  BY <1>2, <1>3

(* A handler that gives up or loads a row keeps HandlerInv. *)
LEMMA OrderStep ==
  ASSUME TypeOK, HandlerInv, NEW r \in Actions, NEW q \in Handler, q.worker \in Workers,
         q.phase \in {"authorised", "read", "moved", "done"},
         q.phase # "done" => q.target \in Filed /\ q.goal \in Status,
         req' = [req EXCEPT ![r] = q],
         \A c \in Creates : (sos'[c].status = "absent") <=> (sos[c].status = "absent")
  PROVE  req' \in [Requests -> Handler] /\ HandlerInv'
<1>1. r \in Requests /\ r \notin Creates
  BY SosAssumption DEF Requests
<1>2. \A c \in Creates : (sos'[c].status = "absent") <=>
                          (sos[c].status = "absent" /\ ~(c = r /\ q.phase = "assessing"))
  OBVIOUS
<1> QED
  BY <1>1, <1>2, HandlerStep

LEMMA AuthoriseTyped ==
  ASSUME TypeOK, HandlerInv, NEW r \in Actions, NEW w \in Workers, NEW u \in Officials,
         NEW c \in Filed, NEW goal \in {"ACKNOWLEDGED", "RESOLVED"}, Authorise(r, w, u, c, goal)
  PROVE  TypeOK' /\ HandlerInv'
<1> DEFINE q == Ordered(w, u, c, goal)
<1>1. c \in Creates /\ goal \in Status /\ u \in Users /\ clock \in Nat
  BY DEF Filed, Status, Users, TypeOK
<1>2. q \in Handler /\ q.phase = "authorised" /\ q.worker = w /\ q.target = c /\ q.goal = goal
  BY <1>1, OrderedFields
<1>3. req' = [req EXCEPT ![r] = q] /\ UNCHANGED sos
  BY DEF Authorise
<1> HIDE DEF q
<1>4. req' \in [Requests -> Handler] /\ HandlerInv'
  BY <1>1, <1>2, <1>3, OrderStep
<1> QED
  BY <1>4 DEF Authorise, TypeOK

LEMMA ReadSosTyped ==
  ASSUME TypeOK, HandlerInv, NEW r \in Actions, ReadSos(r)
  PROVE  TypeOK' /\ HandlerInv'
<1> DEFINE q == Loaded(req[r], req[r].target)
<1>1. /\ r \in Requests /\ req[r] \in Handler /\ req[r].worker \in Workers
      /\ req[r].target \in Filed /\ req[r].goal \in Status
  BY HandlerFacts DEF Requests, ReadSos
<1>2. /\ q \in Handler /\ q.worker = req[r].worker /\ q.phase \in {"read", "done"}
      /\ q.phase = "read" => q.target = req[r].target /\ q.goal = req[r].goal
  BY <1>1, LoadedFields
<1>3. req' = [req EXCEPT ![r] = q] /\ UNCHANGED sos
  BY DEF ReadSos
<1> HIDE DEF q
<1>4. req' \in [Requests -> Handler] /\ HandlerInv'
  BY <1>1, <1>2, <1>3, OrderStep
<1>5. loop' \in [Workers -> Requests \cup {None}]
  BY <1>1, LoopTyped DEF ReadSos
<1> QED
  BY <1>4, <1>5 DEF ReadSos, TypeOK

LEMMA BeginCancelTyped ==
  ASSUME TypeOK, HandlerInv, NEW r \in Actions, NEW w \in Workers, NEW u \in Users,
         NEW c \in Filed, BeginCancel(r, w, u, c)
  PROVE  TypeOK' /\ HandlerInv'
<1> DEFINE o == Ordered(w, u, c, "CANCELLED")
           l == Loaded(o, c)
           f == Finish(w, c, "done", 403)
<1>1. c \in Creates /\ "CANCELLED" \in Status /\ clock \in Nat /\ r \in Requests
  BY DEF Filed, Status, TypeOK, Requests
<1>2. o \in Handler /\ o.worker = w /\ o.goal = "CANCELLED" /\ o.target = c
  BY <1>1, OrderedFields
<1>3. f \in Handler /\ f.phase = "done" /\ f.worker = w
  BY <1>1, FinishFields
<1>4. UNCHANGED sos /\ (req' = [req EXCEPT ![r] = l] \/ req' = [req EXCEPT ![r] = f])
  BY DEF BeginCancel
<1>5. loop' \in [Workers -> Requests \cup {None}]
  BY <1>1 DEF BeginCancel, TypeOK
<1> HIDE DEF o, f
<1>6. /\ l \in Handler /\ l.worker = w /\ l.phase \in {"read", "done"}
      /\ l.phase = "read" => l.target = c /\ l.goal = "CANCELLED"
  BY <1>1, <1>2, LoadedFields
<1> HIDE DEF l
<1>7. req' \in [Requests -> Handler] /\ HandlerInv'
  BY <1>1, <1>3, <1>4, <1>6, OrderStep
<1> QED
  BY <1>5, <1>7 DEF BeginCancel, TypeOK

LEMMA MoveSosTyped ==
  ASSUME TypeOK, HandlerInv, NEW r \in Actions, MoveSos(r)
  PROVE  TypeOK' /\ HandlerInv'
<1> DEFINE q == [req[r] EXCEPT !.phase = "moved"]
           c == req[r].target
           row == Moved(sos[c], req[r].goal)
<1>1. /\ r \in Requests /\ req[r] \in Handler /\ req[r].worker \in Workers
      /\ c \in Filed /\ c \in Creates /\ req[r].goal \in Status /\ sos[c] \in Row
  BY HandlerFacts DEF Requests, MoveSos
<1>2. req' = [req EXCEPT ![r] = q] /\ sos' = [sos EXCEPT ![c] = row]
  BY <1>1 DEF MoveSos, TypeOK
<1>3. /\ q \in Handler /\ q.phase = "moved" /\ q.worker = req[r].worker
      /\ q.target = c /\ q.goal = req[r].goal
  BY <1>1, PhaseFields DEF Phases
<1>4. row \in Row /\ row.status = req[r].goal
  BY <1>1, MovedFields
<1>5. audits' \in [Creates -> Seq(AuditRow)]
  <2> DEFINE a == Audit(req[r].goal, req[r].seen, req[r].goal, req[r].at)
  <2>1. a \in AuditRow
    BY <1>1 DEF Audit, AuditRow, Handler
  <2>2. audits' = [audits EXCEPT ![c] = Append(@, a)]
    BY DEF MoveSos
  <2> HIDE DEF a, c
  <2>3. audits[c] \in Seq(AuditRow)
    BY <1>1 DEF TypeOK
  <2>4. Append(audits[c], a) \in Seq(AuditRow)
    BY <2>1, <2>3
  <2>5. audits \in [Creates -> Seq(AuditRow)]
    BY DEF TypeOK
  <2> QED
    BY <2>2, <2>4, <2>5
<1>6. loop' \in [Workers -> Requests \cup {None}]
  BY <1>1, LoopTyped DEF MoveSos
<1>7. UNCHANGED <<held, alerts, events, clock, faults>>
  BY DEF MoveSos
<1> HIDE DEF q, row, c
<1>8. sos' \in [Creates -> Row]
  BY <1>2, <1>4 DEF TypeOK
<1>9. \A d \in Creates : (sos'[d].status = "absent") <=> (sos[d].status = "absent")
  BY <1>1, <1>2, <1>4 DEF TypeOK, Filed, Status
<1>10. req' \in [Requests -> Handler] /\ HandlerInv'
  BY <1>1, <1>2, <1>3, <1>9, OrderStep
<1> QED
  BY <1>5, <1>6, <1>7, <1>8, <1>10 DEF TypeOK

LEMMA AnnounceMoveTyped ==
  ASSUME TypeOK, HandlerInv, NEW r \in Actions, AnnounceMove(r)
  PROVE  TypeOK' /\ HandlerInv'
<1>1. /\ r \in Requests /\ req[r].worker \in Workers
      /\ req[r].target \in Creates /\ req[r].goal \in Status
  BY HandlerFacts DEF Requests, AnnounceMove, PastMove
<1>2. req' \in [Requests -> Handler] /\ HandlerInv'
  <2> DEFINE q == Finish(req[r].worker, req[r].target, "done", 200)
  <2>1. q \in Handler /\ q.phase = "done" /\ q.worker = req[r].worker
    BY <1>1, FinishFields
  <2>2. req' = [req EXCEPT ![r] = q] /\ UNCHANGED sos
    BY DEF AnnounceMove
  <2> HIDE DEF q
  <2> QED
    BY <1>1, <2>1, <2>2, FinishStep
<1>3. events' \in Seq(Event)
  BY <1>1 DEF AnnounceMove, TypeOK, Event
<1>4. loop' \in [Workers -> Requests \cup {None}]
  BY <1>1, LoopTyped DEF AnnounceMove
<1> QED
  BY <1>2, <1>3, <1>4 DEF AnnounceMove, TypeOK

LEMMA DatabaseFaultTyped ==
  ASSUME TypeOK, HandlerInv, NEW r \in Requests, DatabaseFault(r)
  PROVE  TypeOK' /\ HandlerInv'
<1>1. req[r].worker \in Workers /\ req[r].target \in Creates \cup {None}
  BY HandlerFacts DEF DatabaseFault, Active
<1>2. req' \in [Requests -> Handler] /\ HandlerInv'
  <2> DEFINE q == Finish(req[r].worker, req[r].target, "failed", 500)
  <2>1. q \in Handler /\ q.phase = "failed" /\ q.worker = req[r].worker
    BY <1>1, FinishFields
  <2>2. req' = [req EXCEPT ![r] = q] /\ UNCHANGED sos
    BY DEF DatabaseFault
  <2> HIDE DEF q
  <2> QED
    BY <1>1, <2>1, <2>2, FinishStep
<1>3. loop' \in [Workers -> Requests \cup {None}]
  BY LoopTyped DEF DatabaseFault
<1>4. events' \in Seq(Event)
  <2>1. CASE UNCHANGED events
    BY <2>1 DEF TypeOK
  <2>2. CASE /\ r \in Creates
             /\ events' = Append(events, [type |-> "SOS_ALERT_CREATED", sos |-> r, status |-> None])
    BY <2>2 DEF TypeOK, Event
  <2> QED
    BY <2>1, <2>2 DEF DatabaseFault, AnnouncesAnyway
<1> QED
  BY <1>2, <1>3, <1>4 DEF DatabaseFault, TypeOK

LEMMA CrashTyped ==
  ASSUME TypeOK, HandlerInv, NEW w \in Workers, Crash(w)
  PROVE  TypeOK' /\ HandlerInv'
<1> DEFINE lost == {r \in Requests : Active(r) /\ req[r].worker = w}
           q(r) == Finish(w, req[r].target, "failed", 0)
<1>1. req' = [r \in Requests |-> IF r \in lost THEN q(r) ELSE req[r]]
  BY DEF Crash
<1>2. \A r \in lost : q(r) \in Handler /\ q(r).phase = "failed" /\ q(r).worker = w
  <2> SUFFICES ASSUME NEW r \in lost
               PROVE  q(r) \in Handler /\ q(r).phase = "failed" /\ q(r).worker = w
    OBVIOUS
  <2>1. req[r].target \in Creates \cup {None}
    BY DEF TypeOK, Handler
  <2> QED
    BY <2>1, FinishFields
<1>3. UNCHANGED <<sos, held, alerts, audits, events, clock>> /\ faults' = faults + 1
  BY DEF Crash
<1>4. loop' \in [Workers -> Requests \cup {None}]
  BY DEF Crash, TypeOK
<1> HIDE DEF q, lost
<1>5. req' \in [Requests -> Handler]
  BY <1>1, <1>2 DEF TypeOK
<1>6. \A r \in Requests : req'[r] = req[r] \/ (req'[r].phase = "failed" /\ req'[r].worker = w)
  BY <1>1, <1>2
<1>7. Creates \subseteq Requests /\ Actions \subseteq Requests /\ Filed' = Filed
  BY <1>3 DEF Requests, Filed
<1>8. HandlerInv'
  <2>1. ASSUME NEW r \in Requests
        PROVE  /\ req'[r].phase # "idle" => req'[r].worker \in Workers
               /\ req'[r].phase \in {"authorised", "read", "moved"} =>
                    req'[r].target \in Filed' /\ req'[r].goal \in Status
    BY <1>6, <1>7 DEF HandlerInv
  <2>2. ASSUME NEW r \in Creates
        PROVE  /\ req'[r].phase \notin {"authorised", "read", "moved"}
               /\ req'[r].phase \in {"idle", "keyed"} => sos'[r].status = "absent"
               /\ req'[r].phase = "keyed" => req'[r].user \in Users
               /\ req'[r].phase \in {"assessing", "assessed", "alerted", "linked"} => r \in Filed'
    BY <1>3, <1>6, <1>7 DEF HandlerInv
  <2>3. ASSUME NEW r \in Actions
        PROVE  req'[r].phase \in {"idle", "authorised", "read", "moved", "done", "failed"}
    BY <1>6, <1>7 DEF HandlerInv
  <2> QED
    BY <2>1, <2>2, <2>3 DEF HandlerInv
<1> QED
  BY <1>3, <1>4, <1>5, <1>8 DEF TypeOK

(* The initial state is typed and no handler has started. *)
LEMMA InitTyped == Init => TypeOK /\ HandlerInv
  BY SosAssumption DEF Init, TypeOK, HandlerInv, Row, NoRow, Handler, Idle, Filed, Phases,
     Status, Risk, Requests, AuditRow, Event

(* Every step keeps the types and what handlers rely on. *)
LEMMA NextTyped ==
  ASSUME TypeOK, HandlerInv, [Next]_vars
  PROVE  TypeOK' /\ HandlerInv'
<1>1. CASE \E r \in Requests, w \in Workers : Arrive(r, w)
  <2>1. PICK r \in Requests, w \in Workers : Arrive(r, w)
    BY <1>1
  <2> QED
    BY <2>1, BeginSosTyped, AnswerSosTyped, AuthoriseTyped, BeginCancelTyped DEF Arrive
<1>2. CASE \E r \in Requests : Proceed(r)
  BY <1>2, InsertSosTyped, AssessmentFailsTyped, AttachRiskContextTyped, RaiseAlertTyped,
     LinkAlertTyped, AnnounceSosTyped, ReadSosTyped, MoveSosTyped, AnnounceMoveTyped DEF Proceed
<1>3. CASE \E r \in Requests : DatabaseFault(r)
  BY <1>3, DatabaseFaultTyped
<1>4. CASE \E w \in Workers : Crash(w)
  BY <1>4, CrashTyped
<1>5. CASE Rest \/ UNCHANGED vars
  BY <1>5 DEF Rest, vars, TypeOK, HandlerInv, Filed
<1> QED
  BY <1>1, <1>2, <1>3, <1>4, <1>5 DEF Next

(* With any number of workers, every variable holds a value the program could hold. *)
THEOREM TypeCorrect == Spec => []TypeOK
<1>1. Init => TypeOK /\ HandlerInv
  BY InitTyped
<1>2. TypeOK /\ HandlerInv /\ [Next]_vars => (TypeOK /\ HandlerInv)'
  BY NextTyped
<1> QED
  BY <1>1, <1>2, PTL DEF Spec

-----------------------------------------------------------------------------
(* One worker: keys, the table, the ledger.                                *)

\* A handler that is between two statements with no await between them.
InSection(q) == q.phase \in {"keyed", "assessed", "alerted", "linked", "read", "moved"}

\* A step that leaves every report's status, reporter and key alone.
SameRegister ==
  \A c \in Creates : /\ sos'[c].status = sos[c].status
                     /\ sos'[c].owner = sos[c].owner
                     /\ sos'[c].key = sos[c].key

\* No report in the next state is u's under key k.
StaysFree(u, k) ==
  k # None => \A c \in Creates : ~(/\ sos'[c].status # "absent"
                                   /\ sos'[c].owner = u /\ sos'[c].key = k)

\* What SectionInv says of a handler of r that has become q.
SectionKept(r, q) ==
  /\ InSection(q) => loop'[q.worker] = r
  /\ r \in Creates /\ q.phase = "keyed" => StaysFree(q.user, q.key)
  /\ r \in Actions /\ q.phase = "read" => /\ q.seen = sos'[q.target].status
                                          /\ MayMove(q.seen, q.goal)

(* While one handler may run, no other handler is in a section. *)
LEMMA OthersOutside ==
  ASSUME OneWorker, TypeOK, HandlerInv, SectionInv, NEW r \in Requests, NEW w \in Workers,
         loop[w] \in {None, r}
  PROVE  \A x \in Requests : x # r => ~InSection(req[x])
<1> SUFFICES ASSUME NEW x \in Requests, x # r, InSection(req[x])
             PROVE  FALSE
  OBVIOUS
<1>1. req[x].worker = w
  BY DEF OneWorker, HandlerInv, InSection
<1>2. loop[w] = x
  BY <1>1 DEF SectionInv, InSection
<1> QED
  BY <1>2, SosAssumption

(* A step of one handler, taken while no other is in a section, keeps SectionInv. *)
LEMMA SectionStep ==
  ASSUME TypeOK, NEW r \in Requests, NEW q,
         \A x \in Requests : x # r => ~InSection(req[x]),
         req' = [req EXCEPT ![r] = q], SectionKept(r, q)
  PROVE  SectionInv'
<1>1. req'[r] = q /\ \A x \in Requests : x # r => req'[x] = req[x] /\ ~InSection(req'[x])
  BY DEF TypeOK
<1>2. ASSUME NEW x \in Requests, InSection(req'[x])
      PROVE  loop'[req'[x].worker] = x
  BY <1>1, <1>2 DEF SectionKept
<1>3. ASSUME NEW x \in Creates, req'[x].phase = "keyed"
      PROVE  StaysFree(req'[x].user, req'[x].key)
  <2>1. x = r
    BY <1>1, <1>3 DEF InSection, Requests
  <2> QED
    BY <1>1, <1>3, <2>1 DEF SectionKept
<1>4. ASSUME NEW x \in Actions, req'[x].phase = "read"
      PROVE  /\ req'[x].seen = sos'[req'[x].target].status
             /\ MayMove(req'[x].seen, req'[x].goal)
  <2>1. x = r
    BY <1>1, <1>4 DEF InSection, Requests
  <2> QED
    BY <1>1, <1>4, <2>1 DEF SectionKept
<1>5. ASSUME NEW x \in Creates, (req[x].phase = "keyed")'
      PROVE  (Claimed(req[x].user, req[x].key) = {})'
  BY <1>3, <1>5 DEF StaysFree, Claimed, Filed
<1>6. ASSUME NEW x \in Requests,
             (req[x].phase \in {"keyed", "assessed", "alerted", "linked", "read", "moved"})'
      PROVE  (loop[req[x].worker] = x)'
  BY <1>2, <1>6 DEF InSection
<1> QED
  BY <1>4, <1>5, <1>6 DEF SectionInv

(* A handler that holds the loop is the one its worker runs. *)
LEMMA HoldsLoop ==
  ASSUME TypeOK, NEW r \in Requests, req[r].worker \in Workers, Hold(r)
  PROVE  loop'[req[r].worker] = r
  BY DEF TypeOK, Hold

(* A handler that leaves the section keeps SectionInv. *)
LEMMA LeavesSection ==
  ASSUME OneWorker, TypeOK, HandlerInv, SectionInv, NEW r \in Requests, NEW w \in Workers,
         loop[w] \in {None, r}, NEW q \in Handler, ~InSection(q), req' = [req EXCEPT ![r] = q]
  PROVE  SectionInv'
<1>1. SectionKept(r, q)
  BY DEF SectionKept, InSection
<1> QED
  BY <1>1, OthersOutside, SectionStep

(* A handler of POST /sos that goes on without an await keeps SectionInv. *)
LEMMA CreateHolds ==
  ASSUME OneWorker, TypeOK, HandlerInv, SectionInv, NEW r \in Creates, MayRun(r),
         req[r].phase # "idle", Hold(r), NEW q \in Handler, q.worker = req[r].worker,
         q.phase \in {"assessed", "alerted", "linked"}, req' = [req EXCEPT ![r] = q]
  PROVE  SectionInv'
<1>1. r \in Requests /\ r \notin Actions /\ req[r].worker \in Workers
  BY SosAssumption, HandlerFacts DEF Requests
<1>2. \A x \in Requests : x # r => ~InSection(req[x])
  BY <1>1, OthersOutside DEF MayRun
<1>3. SectionKept(r, q)
  BY <1>1, HoldsLoop DEF SectionKept
<1> QED
  BY <1>1, <1>2, <1>3, SectionStep

LEMMA ArriveSection ==
  ASSUME OneWorker, TypeOK, HandlerInv, SectionInv, NEW r \in Requests, NEW w \in Workers,
         Arrive(r, w)
  PROVE  SectionInv'
<1>1. loop[w] = None
  BY DEF Arrive, BeginSos, AnswerSos, Authorise, BeginCancel
<1>2. \A x \in Requests : x # r => ~InSection(req[x])
  BY <1>1, OthersOutside
<1>3. ASSUME r \in Creates, NEW u \in Users, NEW k \in Keys \cup {None},
             NEW e \in Evidence \cup {None}, NEW sev \in Severities, BeginSos(r, w, u, k, e, sev)
      PROVE  SectionInv'
  <2> DEFINE q == [phase |-> "keyed", worker |-> w, user |-> u, key |-> k, ev |-> e,
                   severity |-> sev, target |-> r, goal |-> None, seen |-> None,
                   at |-> clock + 1, reply |-> 0]
  <2>1. req' = [req EXCEPT ![r] = q] /\ loop'[w] = r
    BY <1>3 DEF BeginSos, TypeOK
  <2>2. StaysFree(u, k)
    BY <1>3 DEF BeginSos, Claimed, Filed, StaysFree
  <2>3. q.phase = "keyed" /\ q.worker = w /\ q.user = u /\ q.key = k /\ r \notin Actions
    BY <1>3, SosAssumption
  <2> HIDE DEF q
  <2>4. SectionKept(r, q)
    BY <2>1, <2>2, <2>3 DEF SectionKept
  <2> QED
    BY <1>2, <2>1, <2>4, SectionStep
<1>4. ASSUME r \in Creates, NEW u \in Users, NEW k \in Keys \cup {None},
             NEW e \in Evidence \cup {None}, AnswerSos(r, w, u, k, e)
      PROVE  SectionInv'
  <2>1. PICK q \in Handler : ~InSection(q) /\ req' = [req EXCEPT ![r] = q]
    <3> DEFINE q1 == Finish(w, None, "done", 403)
               q2(c) == Finish(w, c, "done", 200)
               q3 == Finish(w, None, "failed", 500)
    <3>1. q1 \in Handler /\ q1.phase = "done"
      BY FinishFields
    <3>2. \A c \in Creates : q2(c) \in Handler /\ q2(c).phase = "done"
      BY FinishFields
    <3>3. q3 \in Handler /\ q3.phase = "failed"
      BY FinishFields
    <3>4. \/ req' = [req EXCEPT ![r] = q1]
          \/ \E c \in Creates : req' = [req EXCEPT ![r] = q2(c)]
          \/ req' = [req EXCEPT ![r] = q3]
      BY <1>4 DEF AnswerSos, Claimed, Filed
    <3> HIDE DEF q1, q2, q3
    <3> QED
      BY <3>1, <3>2, <3>3, <3>4 DEF InSection
  <2> QED
    BY <1>1, <2>1, LeavesSection
<1>5. ASSUME r \in Actions, NEW c \in Filed, NEW u \in Officials,
             NEW goal \in {"ACKNOWLEDGED", "RESOLVED"}, Authorise(r, w, u, c, goal)
      PROVE  SectionInv'
  <2> DEFINE q == Ordered(w, u, c, goal)
  <2>1. c \in Creates /\ u \in Users /\ goal \in Status /\ clock \in Nat
    BY DEF Filed, Users, Status, TypeOK
  <2>2. q \in Handler /\ q.phase = "authorised"
    BY <2>1, OrderedFields
  <2>3. req' = [req EXCEPT ![r] = q]
    BY <1>5 DEF Authorise
  <2> HIDE DEF q
  <2>4. ~InSection(q)
    BY <2>2 DEF InSection
  <2> QED
    BY <1>1, <2>2, <2>3, <2>4, LeavesSection
<1>6. ASSUME r \in Actions, NEW c \in Filed, NEW u \in Users, BeginCancel(r, w, u, c)
      PROVE  SectionInv'
  <2> DEFINE o == Ordered(w, u, c, "CANCELLED")
             l == Loaded(o, c)
             f == Finish(w, c, "done", 403)
  <2>1. c \in Creates /\ "CANCELLED" \in Status /\ clock \in Nat /\ r \notin Creates
    BY <1>6, SosAssumption DEF Filed, Status, TypeOK
  <2>2. o \in Handler /\ o.worker = w /\ o.goal = "CANCELLED" /\ o.target = c
    BY <2>1, OrderedFields
  <2>3. f \in Handler /\ f.phase = "done"
    BY <2>1, FinishFields
  <2>4. CASE MayCancel(u, c)
    <3>1. req' = [req EXCEPT ![r] = l] /\ UNCHANGED sos
      BY <1>6, <2>4 DEF BeginCancel
    <3>2. MayMove(sos[c].status, "CANCELLED") => loop'[w] = r
      BY <1>6, <2>4 DEF BeginCancel, TypeOK
    <3> HIDE DEF o
    <3>3. /\ l \in Handler /\ l.worker = w /\ l.phase \in {"read", "done"}
          /\ l.phase = "read" => /\ l.target = c /\ l.goal = "CANCELLED"
                                 /\ l.seen = sos[c].status
                                 /\ MayMove(sos[c].status, "CANCELLED")
      BY <2>1, <2>2, LoadedFields
    <3> HIDE DEF l
    <3>4. SectionKept(r, l)
      BY <2>1, <3>1, <3>2, <3>3 DEF SectionKept, InSection
    <3> QED
      BY <1>2, <3>1, <3>4, SectionStep
  <2>5. CASE ~MayCancel(u, c)
    <3>1. req' = [req EXCEPT ![r] = f]
      BY <1>6, <2>5 DEF BeginCancel
    <3> HIDE DEF f
    <3>2. ~InSection(f)
      BY <2>3 DEF InSection
    <3> QED
      BY <1>1, <2>3, <3>1, <3>2, LeavesSection
  <2> QED
    BY <2>4, <2>5
<1> QED
  BY <1>3, <1>4, <1>5, <1>6 DEF Arrive

LEMMA CreateSection ==
  ASSUME OneWorker, TypeOK, HandlerInv, SectionInv, NEW r \in Creates, Proceed(r)
  PROVE  SectionInv'
<1>1. r \in Requests /\ r \notin Actions
  BY SosAssumption DEF Requests
<1>2. req[r].phase # "idle" /\ MayRun(r)
  BY <1>1 DEF Proceed, InsertSos, AssessmentFails, AttachRiskContext, RaiseAlert, LinkAlert,
     AnnounceSos, PastAlert
<1>3. req[r] \in Handler /\ req[r].worker \in Workers /\ loop[req[r].worker] \in {None, r}
  BY <1>1, <1>2, HandlerFacts DEF MayRun
<1>4. clock \in Nat /\ {"assessing", "assessed", "alerted", "linked"} \subseteq Phases
  BY DEF TypeOK, Phases
<1>5. CASE InsertSos(r)
  <2> DEFINE q == Refresh(req[r], "assessing", "ACTIVE")
  <2>1. q \in Handler /\ q.phase = "assessing"
    BY <1>3, <1>4, RefreshFields DEF Status
  <2>2. req' = [req EXCEPT ![r] = q]
    BY <1>5 DEF InsertSos
  <2> HIDE DEF q
  <2>3. ~InSection(q)
    BY <2>1 DEF InSection
  <2> QED
    BY <1>1, <1>3, <2>1, <2>2, <2>3, LeavesSection
<1>6. CASE AssessmentFails(r)
  <2> DEFINE q == [req[r] EXCEPT !.phase = "assessed"]
  <2>1. q \in Handler /\ q.phase = "assessed" /\ q.worker = req[r].worker
    BY <1>3, <1>4, PhaseFields
  <2>2. req' = [req EXCEPT ![r] = q] /\ Hold(r)
    BY <1>1, <1>6 DEF AssessmentFails, TypeOK
  <2> HIDE DEF q
  <2> QED
    BY <1>2, <2>1, <2>2, CreateHolds
<1>7. ASSUME NEW score \in {"low", "high"}, AttachRiskContext(r, score)
      PROVE  SectionInv'
  <2> DEFINE q == Refresh(req[r], "assessed", sos[r].status)
  <2>1. sos[r].status \in Status
    BY <1>7, CreateFacts DEF AttachRiskContext
  <2>2. q \in Handler /\ q.phase = "assessed" /\ q.worker = req[r].worker
    BY <1>3, <1>4, <2>1, RefreshFields
  <2>3. req' = [req EXCEPT ![r] = q] /\ Hold(r)
    BY <1>7 DEF AttachRiskContext
  <2> HIDE DEF q
  <2> QED
    BY <1>2, <2>2, <2>3, CreateHolds
<1>8. CASE RaiseAlert(r)
  <2> DEFINE q == Refresh(req[r], "alerted", sos[r].status)
  <2>1. sos[r].status \in Status
    BY <1>8, CreateFacts DEF RaiseAlert
  <2>2. q \in Handler /\ q.phase = "alerted" /\ q.worker = req[r].worker
    BY <1>3, <1>4, <2>1, RefreshFields
  <2>3. req' = [req EXCEPT ![r] = q] /\ Hold(r)
    BY <1>8 DEF RaiseAlert
  <2> HIDE DEF q
  <2> QED
    BY <1>2, <2>2, <2>3, CreateHolds
<1>9. CASE LinkAlert(r)
  <2> DEFINE q == [req[r] EXCEPT !.phase = "linked"]
  <2>1. q \in Handler /\ q.phase = "linked" /\ q.worker = req[r].worker
    BY <1>3, <1>4, PhaseFields
  <2>2. req' = [req EXCEPT ![r] = q] /\ Hold(r)
    BY <1>1, <1>9 DEF LinkAlert, TypeOK
  <2> HIDE DEF q
  <2> QED
    BY <1>2, <2>1, <2>2, CreateHolds
<1>10. CASE AnnounceSos(r)
  <2> DEFINE q == Finish(req[r].worker, r, "done", 201)
  <2>1. q \in Handler /\ q.phase = "done"
    BY <1>3, FinishFields
  <2>2. req' = [req EXCEPT ![r] = q]
    BY <1>10 DEF AnnounceSos
  <2> HIDE DEF q
  <2>3. ~InSection(q)
    BY <2>1 DEF InSection
  <2> QED
    BY <1>1, <1>3, <2>1, <2>2, <2>3, LeavesSection
<1> QED
  BY <1>1, <1>5, <1>6, <1>7, <1>8, <1>9, <1>10 DEF Proceed

LEMMA ActionSection ==
  ASSUME OneWorker, TypeOK, HandlerInv, SectionInv, NEW r \in Actions, Proceed(r)
  PROVE  SectionInv'
<1>1. r \in Requests /\ r \notin Creates
  BY SosAssumption DEF Requests
<1>2. req[r].phase # "idle" /\ MayRun(r)
  BY <1>1 DEF Proceed, ReadSos, MoveSos, AnnounceMove, PastMove
<1>3. req[r] \in Handler /\ req[r].worker \in Workers /\ loop[req[r].worker] \in {None, r}
  BY <1>1, <1>2, HandlerFacts DEF MayRun
<1>4. \A x \in Requests : x # r => ~InSection(req[x])
  BY <1>1, <1>3, OthersOutside
<1>5. CASE ReadSos(r)
  <2> DEFINE c == req[r].target
             q == Loaded(req[r], c)
  <2>1. c \in Filed /\ req[r].goal \in Status
    BY <1>1, <1>5, HandlerFacts DEF ReadSos
  <2>2. /\ q \in Handler /\ q.worker = req[r].worker /\ q.phase \in {"read", "done"}
        /\ q.phase = "read" => /\ q.target = c /\ q.goal = req[r].goal
                               /\ q.seen = sos[c].status
                               /\ MayMove(sos[c].status, req[r].goal)
    BY <1>3, <2>1, LoadedFields
  <2>3. req' = [req EXCEPT ![r] = q] /\ UNCHANGED sos
    BY <1>5 DEF ReadSos
  <2>4. MayMove(sos[c].status, req[r].goal) => loop'[req[r].worker] = r
    BY <1>1, <1>3, <1>5, HoldsLoop DEF ReadSos
  <2> HIDE DEF q, c
  <2>5. SectionKept(r, q)
    BY <1>1, <2>2, <2>3, <2>4 DEF SectionKept, InSection
  <2> QED
    BY <1>1, <1>4, <2>3, <2>5, SectionStep
<1>6. CASE MoveSos(r)
  <2> DEFINE q == [req[r] EXCEPT !.phase = "moved"]
  <2>1. q \in Handler /\ q.phase = "moved" /\ q.worker = req[r].worker
    BY <1>3, PhaseFields DEF Phases
  <2>2. req' = [req EXCEPT ![r] = q] /\ Hold(r)
    BY <1>1, <1>6 DEF MoveSos, TypeOK
  <2>3. loop'[req[r].worker] = r
    BY <1>1, <1>3, <2>2, HoldsLoop
  <2> HIDE DEF q
  <2>4. SectionKept(r, q)
    BY <1>1, <2>1, <2>3 DEF SectionKept
  <2> QED
    BY <1>1, <1>4, <2>2, <2>4, SectionStep
<1>7. CASE AnnounceMove(r)
  <2> DEFINE q == Finish(req[r].worker, req[r].target, "done", 200)
  <2>1. req[r].target \in Creates \cup {None}
    BY <1>1, <1>2, HandlerFacts
  <2>2. q \in Handler /\ q.phase = "done"
    BY <1>3, <2>1, FinishFields
  <2>3. req' = [req EXCEPT ![r] = q]
    BY <1>7 DEF AnnounceMove
  <2> HIDE DEF q
  <2>4. ~InSection(q)
    BY <2>2 DEF InSection
  <2> QED
    BY <1>1, <1>3, <2>2, <2>3, <2>4, LeavesSection
<1> QED
  BY <1>1, <1>5, <1>6, <1>7 DEF Proceed

LEMMA FailureSection ==
  ASSUME OneWorker, TypeOK, HandlerInv, SectionInv,
         (\E r \in Requests : DatabaseFault(r)) \/ (\E w \in Workers : Crash(w))
  PROVE  SectionInv'
<1>1. ASSUME NEW r \in Requests, DatabaseFault(r)
      PROVE  SectionInv'
  <2> DEFINE q == Finish(req[r].worker, req[r].target, "failed", 500)
  <2>1. req[r].worker \in Workers /\ req[r].target \in Creates \cup {None}
    BY <1>1, HandlerFacts DEF DatabaseFault, Active
  <2>2. q \in Handler /\ q.phase = "failed"
    BY <2>1, FinishFields
  <2>3. req' = [req EXCEPT ![r] = q] /\ loop[req[r].worker] \in {None, r}
    BY <1>1 DEF DatabaseFault, MayRun
  <2> HIDE DEF q
  <2>4. ~InSection(q)
    BY <2>2 DEF InSection
  <2> QED
    BY <2>1, <2>2, <2>3, <2>4, LeavesSection
<1>2. ASSUME NEW w \in Workers, Crash(w)
      PROVE  SectionInv'
  <2> SUFFICES \A r \in Requests : ~InSection(req'[r])
    BY DEF InSection, SectionInv, Requests
  <2> TAKE r \in Requests
  <2>1. CASE Active(r) /\ req[r].worker = w
    <3>1. req'[r].phase = "failed"
      BY <1>2, <2>1 DEF Crash, Finish
    <3> QED
      BY <3>1 DEF InSection
  <2>2. CASE ~Active(r)
    BY <1>2, <2>2 DEF Crash, Active, InSection
  <2>3. Active(r) => req[r].worker = w
    BY DEF OneWorker, HandlerInv, Active
  <2> QED
    BY <2>1, <2>2, <2>3
<1> QED
  BY <1>1, <1>2

(* Every step keeps SectionInv. *)
LEMMA SectionNext ==
  ASSUME OneWorker, TypeOK, HandlerInv, SectionInv, [Next]_vars
  PROVE  SectionInv'
<1>1. CASE Rest \/ UNCHANGED vars
  BY <1>1 DEF Rest, vars, SectionInv, Claimed, Filed
<1> QED
  BY <1>1, ArriveSection, CreateSection, ActionSection, FailureSection DEF Next, Requests

(***************************************************************************)
(* What a step does to the table of reports.                               *)
(***************************************************************************)

\* r files its report, under a key that is free.
Files(r) ==
  LET u == req[r].user
      k == req[r].key
  IN /\ sos[r].status = "absent"
     /\ u \in Users /\ k \in Keys \cup {None}
     /\ Claimed(u, k) = {}
     /\ sos'[r].status = "ACTIVE" /\ sos'[r].owner = u /\ sos'[r].key = k
     /\ \A c \in Creates : c # r => sos'[c] = sos[c]

\* Report c moves along the table.
Advances(c) ==
  /\ sos[c].status \in Status /\ sos'[c].status \in Status
  /\ MayMove(sos[c].status, sos'[c].status)
  /\ sos'[c].owner = sos[c].owner /\ sos'[c].key = sos[c].key
  /\ \A d \in Creates : d # c => sos'[d] = sos[d]

(* A step files one report, moves one report along the table, or does neither. *)
LEMMA RegisterStep ==
  ASSUME OneWorker, TypeOK, HandlerInv, SectionInv, [Next]_vars
  PROVE  \/ \E r \in Creates : Files(r)
         \/ \E c \in Creates : Advances(c)
         \/ SameRegister
<1>1. CASE Rest \/ UNCHANGED vars
  BY <1>1 DEF Rest, vars, SameRegister
<1>2. CASE \E r \in Requests, w \in Workers : Arrive(r, w)
  BY <1>2 DEF Arrive, BeginSos, AnswerSos, Authorise, BeginCancel, SameRegister
<1>3. CASE \/ \E r \in Requests : DatabaseFault(r)
           \/ \E w \in Workers : Crash(w)
  BY <1>3 DEF DatabaseFault, Crash, SameRegister
<1>4. ASSUME NEW r \in Creates, InsertSos(r)
      PROVE  Files(r)
  <2>1. r \in Requests /\ req[r] \in Handler
    BY DEF Requests, TypeOK
  <2>2. sos[r].status = "absent" /\ req[r].user \in Users
    BY <1>4 DEF InsertSos, HandlerInv
  <2>3. Claimed(req[r].user, req[r].key) = {}
    BY <1>4 DEF InsertSos, SectionInv
  <2>4. req[r].key \in Keys \cup {None}
    BY <2>1 DEF Handler
  <2>5. /\ sos'[r].status = "ACTIVE" /\ sos'[r].owner = req[r].user /\ sos'[r].key = req[r].key
        /\ \A c \in Creates : c # r => sos'[c] = sos[c]
    BY <1>4 DEF InsertSos, TypeOK
  <2> QED
    BY <2>2, <2>3, <2>4, <2>5 DEF Files
<1>5. ASSUME NEW r \in Actions, MoveSos(r)
      PROVE  \E c \in Creates : Advances(c)
  <2> DEFINE c == req[r].target
             row == Moved(sos[c], req[r].goal)
  <2>1. /\ r \in Requests /\ c \in Creates /\ req[r].goal \in Status
        /\ sos[c] \in Row /\ sos[c].status \in Status
    BY <1>5, HandlerFacts DEF Requests, MoveSos
  <2>2. MayMove(sos[c].status, req[r].goal)
    BY <1>5 DEF MoveSos, SectionInv
  <2>3. /\ row.status = req[r].goal
        /\ row.owner = sos[c].owner /\ row.key = sos[c].key
    BY <2>1, MovedFields
  <2>4. sos' = [sos EXCEPT ![c] = row]
    BY <1>5 DEF MoveSos
  <2> HIDE DEF c, row
  <2> QED
    BY <2>1, <2>2, <2>3, <2>4 DEF Advances, TypeOK
<1>6. ASSUME NEW r \in Creates, NEW score \in {"low", "high"}, AttachRiskContext(r, score)
      PROVE  SameRegister
  <2> DEFINE row == AttachRisk(sos[r], req[r].seen, score)
  <2>1. row.status = sos[r].status /\ row.owner = sos[r].owner /\ row.key = sos[r].key
    <3>1. sos[r] \in Row /\ "ACTIVE" \in Status
      BY DEF TypeOK, Status
    <3>2. LET n == AttachRisk(sos[r], "ACTIVE", score) IN
            n.status = sos[r].status /\ n.owner = sos[r].owner /\ n.key = sos[r].key
      BY <3>1, RowFields
    <3> QED
      BY <3>2 DEF AttachRisk
  <2>2. sos' = [sos EXCEPT ![r] = row]
    BY <1>6 DEF AttachRiskContext
  <2> HIDE DEF row
  <2> QED
    BY <2>1, <2>2 DEF SameRegister, TypeOK
<1>7. ASSUME NEW r \in Creates, LinkAlert(r)
      PROVE  SameRegister
  <2> DEFINE row == [sos[r] EXCEPT !.linked = TRUE]
  <2>1. row.status = sos[r].status /\ row.owner = sos[r].owner /\ row.key = sos[r].key
    BY DEF TypeOK, Row
  <2>2. sos' = [sos EXCEPT ![r] = row]
    BY <1>7 DEF LinkAlert, TypeOK
  <2> HIDE DEF row
  <2> QED
    BY <2>1, <2>2 DEF SameRegister, TypeOK
<1>8. ASSUME NEW r \in Requests,
             \/ AssessmentFails(r) \/ RaiseAlert(r) \/ AnnounceSos(r)
             \/ ReadSos(r) \/ AnnounceMove(r)
      PROVE  SameRegister
  BY <1>8 DEF AssessmentFails, RaiseAlert, AnnounceSos, ReadSos, AnnounceMove, SameRegister
<1>9. CASE \E r \in Requests : Proceed(r)
  BY <1>4, <1>5, <1>6, <1>7, <1>8, <1>9 DEF Proceed
<1> QED
  BY <1>1, <1>2, <1>3, <1>9 DEF Next

(* Filing under a free key, and nothing else, brings a new claim. *)
LEMMA KeyNext ==
  ASSUME OneWorker, TypeOK, HandlerInv, SectionInv, OneSosPerKey, [Next]_vars
  PROVE  OneSosPerKey'
<1>1. ASSUME NEW r \in Creates, Files(r)
      PROVE  OneSosPerKey'
  <2> SUFFICES ASSUME NEW c \in Filed', NEW d \in Filed', c # d, sos'[c].key # None,
                      sos'[c].owner = sos'[d].owner, sos'[c].key = sos'[d].key
               PROVE  FALSE
    BY DEF OneSosPerKey
  <2>1. c \in Creates /\ d \in Creates /\ sos'[c].status # "absent" /\ sos'[d].status # "absent"
    BY DEF Filed
  <2>2. CASE c # r /\ d # r
    BY <1>1, <2>1, <2>2 DEF Files, OneSosPerKey, Filed
  <2>3. CASE c = r
    BY <1>1, <2>1, <2>3 DEF Files, Claimed, Filed
  <2>4. CASE d = r
    BY <1>1, <2>1, <2>4 DEF Files, Claimed, Filed
  <2> QED
    BY <2>2, <2>3, <2>4
<1>2. ASSUME NEW c \in Creates, Advances(c)
      PROVE  OneSosPerKey'
  <2>1. "absent" \notin Status
    BY DEF Status
  <2>2. \A d \in Creates : /\ sos'[d].owner = sos[d].owner /\ sos'[d].key = sos[d].key
                           /\ (sos'[d].status = "absent") <=> (sos[d].status = "absent")
    BY <1>2, <2>1 DEF Advances
  <2> QED
    BY <2>2 DEF OneSosPerKey, Filed
<1>3. ASSUME SameRegister
      PROVE  OneSosPerKey'
  BY <1>3 DEF SameRegister, OneSosPerKey, Filed
<1> QED
  BY <1>1, <1>2, <1>3, RegisterStep

(***************************************************************************)
(* The theorems.                                                           *)
(***************************************************************************)

(* With one worker, IInv is inductive: handlers keep what they rely on between awaits. *)
THEOREM Inductive == ASSUME OneWorker PROVE Spec => []IInv
<1>1. Init => IInv
  <2>1. Init => TypeOK /\ HandlerInv
    BY InitTyped
  <2>2. Init => SectionInv
    BY DEF Init, SectionInv, Idle, Requests
  <2>3. Init => OneSosPerKey
    BY DEF Init, OneSosPerKey, Filed, NoRow
  <2> QED
    BY <2>1, <2>2, <2>3 DEF IInv
<1>2. IInv /\ [Next]_vars => IInv'
  BY NextTyped, SectionNext, KeyNext DEF IInv
<1> QED
  BY <1>1, <1>2, PTL DEF Spec

(* With one worker, the select-then-insert of create_sos never files two     *)
(* reports under one reporter's key.                                         *)
THEOREM KeyNamesOneReport == ASSUME OneWorker PROVE Spec => []OneSosPerKey
<1>1. IInv => OneSosPerKey
  BY DEF IInv
<1> QED
  BY <1>1, Inductive, PTL

(* With one worker, no interleaving of acknowledge, resolve, cancel and the  *)
(* creating handler takes a report off SOS_VALID_TRANSITIONS.                *)
THEOREM MovesAreLegal == ASSUME OneWorker PROVE Spec => MovesAlongTable
<1>1. IInv /\ [Next]_vars =>
        [\A c \in Filed : \/ sos'[c].status = sos[c].status
                          \/ MayMove(sos[c].status, sos'[c].status)]_sos
  <2> SUFFICES ASSUME IInv, [Next]_vars, NEW c \in Filed
               PROVE  sos'[c].status = sos[c].status \/ MayMove(sos[c].status, sos'[c].status)
    OBVIOUS
  <2>1. c \in Creates /\ sos[c].status # "absent"
    BY DEF Filed
  <2>2. (\E r \in Creates : Files(r)) \/ (\E d \in Creates : Advances(d)) \/ SameRegister
    BY RegisterStep DEF IInv
  <2> QED
    BY <2>1, <2>2 DEF Files, Advances, SameRegister
<1> QED
  BY <1>1, Inductive, PTL DEF Spec, MovesAlongTable

\* The register as SosLedger sees it.
StatusOf == [c \in Creates |-> sos[c].status]
ClaimOf == [c \in Creates |-> IF sos[c].key = None THEN None ELSE <<sos[c].owner, sos[c].key>>]

(* Filing a report is a File step of the ledger. *)
LEMMA FilesIsFile ==
  ASSUME TypeOK, NEW r \in Creates, Files(r)
  PROVE  Ledger!Next
<1> DEFINE u == req[r].user
           k == req[r].key
           claim == IF k = None THEN None ELSE <<u, k>>
<1>1. claim \in (Users \X Keys) \cup {None}
  BY DEF Files
<1>2. StatusOf[r] = "absent"
  BY DEF StatusOf, Files
<1>3. ASSUME claim # None, NEW q \in Creates, StatusOf[q] # "absent"
      PROVE  ClaimOf[q] # claim
  BY <1>3 DEF StatusOf, ClaimOf, Files, Claimed, Filed
<1>4. StatusOf' = [StatusOf EXCEPT ![r] = "ACTIVE"]
  BY DEF StatusOf, Files
<1>5. ClaimOf' = [ClaimOf EXCEPT ![r] = claim]
  BY DEF ClaimOf, Files
<1> HIDE DEF claim
<1>6. PICK x \in (Users \X Keys) \cup {None} : x = claim
  BY <1>1
<1>7. Ledger!File(r, x)
  BY <1>2, <1>3, <1>4, <1>5, <1>6 DEF Ledger!File, StatusOf, ClaimOf
<1> QED
  BY <1>7 DEF Ledger!Next

(* Moving a report is an Advance step of the ledger. *)
LEMMA AdvancesIsAdvance ==
  ASSUME TypeOK, NEW c \in Creates, Advances(c)
  PROVE  Ledger!Next
<1> DEFINE to == sos'[c].status
<1>1. to \in Status /\ Ledger!Status = Status
  BY DEF Advances, Ledger!Status, Status
<1>2. StatusOf[c] \in Ledger!Status
  BY DEF StatusOf, Advances, Ledger!Status, Status
<1>3. to \in Ledger!SOS_VALID_TRANSITIONS[StatusOf[c]]
  BY DEF StatusOf, Advances, MayMove, SOS_VALID_TRANSITIONS, Ledger!SOS_VALID_TRANSITIONS
<1>4. StatusOf' = [StatusOf EXCEPT ![c] = to]
  BY DEF StatusOf, Advances
<1>5. ClaimOf' = ClaimOf
  BY DEF ClaimOf, Advances
<1>6. PICK x \in Ledger!Status : x = to
  BY <1>1
<1> HIDE DEF to
<1>7. Ledger!Advance(c, x)
  BY <1>2, <1>3, <1>4, <1>5, <1>6 DEF Ledger!Advance, StatusOf, ClaimOf
<1> QED
  BY <1>7 DEF Ledger!Next

(* With one worker, the network implements the ledger: every step of a       *)
(* handler files a report under a free claim, advances one report along the  *)
(* lifecycle, or changes nothing the ledger shows.                           *)
THEOREM ImplementsLedger == ASSUME OneWorker PROVE Spec => LedgerSpec
<1>1. Init => Ledger!Init
  BY DEF Init, Ledger!Init, NoRow
<1>2. IInv /\ [Next]_vars => [Ledger!Next]_(Ledger!ledger)
  <2> SUFFICES ASSUME IInv, [Next]_vars
               PROVE  Ledger!Next \/ UNCHANGED Ledger!ledger
    OBVIOUS
  <2>1. SameRegister => UNCHANGED Ledger!ledger
    BY DEF SameRegister, Ledger!ledger
  <2> QED
    BY <2>1, RegisterStep, FilesIsFile, AdvancesIsAdvance DEF IInv
<1> QED
  BY <1>1, <1>2, Inductive, PTL DEF Spec, LedgerSpec, Ledger!Spec

-----------------------------------------------------------------------------
(* What the tables say of one another.                                     *)

(***************************************************************************)
(* What a step does to one report and to the handler that creates it.      *)
(***************************************************************************)

(* A transition and a risk snapshot leave alone who reported, with what. *)
LEMMA MovedKeeps ==
  ASSUME NEW row \in Row, NEW goal \in Status
  PROVE  /\ Moved(row, goal).linked = row.linked
         /\ Moved(row, goal).evidence = row.evidence
         /\ Moved(row, goal).owner = row.owner
<1> DEFINE a == [row EXCEPT !.status = goal]
           b == [a EXCEPT !.stamps = a.stamps \cup {Stamp(goal)}]
<1>1. a \in Row /\ a.linked = row.linked /\ a.evidence = row.evidence /\ a.owner = row.owner
  BY DEF Row
<1> HIDE DEF a
<1>2. b.linked = row.linked /\ b.evidence = row.evidence /\ b.owner = row.owner
  BY <1>1 DEF Row
<1> QED
  BY <1>2 DEF a, Moved

\* A step that leaves the handler of POST /sos of c to others: it stands where
\* it stood, or ends, and the report keeps its reporter, evidence and link.
LeavesCreate(c) ==
  /\ \/ req'[c] = req[c]
     \/ req[c].phase = "idle" /\ req'[c].phase = "done"
     \/ req'[c].phase = "failed"
  /\ (c \in alerts') <=> (c \in alerts)
  /\ sos'[c].linked = sos[c].linked /\ sos'[c].owner = sos[c].owner
  /\ sos'[c].evidence = sos[c].evidence

\* The handler of c takes a step of its own.
StepsCreate(c) ==
  \/ \E w \in Workers, u \in Users, k \in Keys \cup {None}, e \in Evidence \cup {None},
        sev \in Severities : BeginSos(c, w, u, k, e, sev)
  \/ InsertSos(c) \/ AssessmentFails(c)
  \/ \E score \in {"low", "high"} : AttachRiskContext(c, score)
  \/ RaiseAlert(c) \/ LinkAlert(c) \/ AnnounceSos(c)

(* A step of another handler of POST /sos does not touch c. *)
LEMMA OtherCreate ==
  ASSUME TypeOK, NEW r \in Creates, NEW c \in Creates, c # r, StepsCreate(r)
  PROVE  LeavesCreate(c)
<1>1. r \in Requests /\ c \in Requests
  BY DEF Requests
<1>2. CASE \E w \in Workers, u \in Users, k \in Keys \cup {None}, e \in Evidence \cup {None},
              sev \in Severities : BeginSos(r, w, u, k, e, sev)
  BY <1>1, <1>2 DEF BeginSos, TypeOK, LeavesCreate
<1>3. CASE InsertSos(r)
  BY <1>1, <1>3 DEF InsertSos, TypeOK, LeavesCreate
<1>4. CASE AssessmentFails(r)
  BY <1>1, <1>4 DEF AssessmentFails, TypeOK, LeavesCreate
<1>5. ASSUME NEW score \in {"low", "high"}, AttachRiskContext(r, score)
      PROVE  LeavesCreate(c)
  BY <1>1, <1>5 DEF AttachRiskContext, TypeOK, LeavesCreate
<1>6. CASE RaiseAlert(r)
  BY <1>1, <1>6 DEF RaiseAlert, TypeOK, LeavesCreate
<1>7. CASE LinkAlert(r)
  BY <1>1, <1>7 DEF LinkAlert, TypeOK, LeavesCreate
<1>8. CASE AnnounceSos(r)
  BY <1>1, <1>8 DEF AnnounceSos, TypeOK, LeavesCreate
<1> QED
  BY <1>2, <1>3, <1>4, <1>5, <1>6, <1>7, <1>8 DEF StepsCreate

(* A step of an official's or canceller's handler does not touch c's handler. *)
LEMMA ActionLeaves ==
  ASSUME TypeOK, HandlerInv, NEW r \in Actions, NEW c \in Creates,
         \/ ReadSos(r) \/ MoveSos(r) \/ AnnounceMove(r)
         \/ \E w \in Workers : Arrive(r, w)
  PROVE  LeavesCreate(c)
<1>1. r \in Requests /\ c \in Requests /\ c # r /\ r \notin Creates
  BY SosAssumption DEF Requests
<1>2. CASE ReadSos(r) \/ AnnounceMove(r)
  BY <1>1, <1>2 DEF ReadSos, AnnounceMove, TypeOK, LeavesCreate
<1>3. CASE MoveSos(r)
  <2> DEFINE d == req[r].target
             row == Moved(sos[d], req[r].goal)
  <2>1. req' = [req EXCEPT ![r].phase = "moved"] /\ UNCHANGED alerts
        /\ sos' = [sos EXCEPT ![d] = row]
    BY <1>3 DEF MoveSos
  <2>2. d \in Creates /\ sos[d] \in Row /\ req[r].goal \in Status
    BY <1>1, <1>3, HandlerFacts DEF MoveSos
  <2>3. row.linked = sos[d].linked /\ row.owner = sos[d].owner /\ row.evidence = sos[d].evidence
    BY <2>2, MovedKeeps
  <2> HIDE DEF d, row
  <2> QED
    BY <1>1, <2>1, <2>2, <2>3 DEF TypeOK, LeavesCreate
<1>4. CASE \E w \in Workers : Arrive(r, w)
  BY <1>1, <1>4 DEF Arrive, Authorise, BeginCancel, TypeOK, LeavesCreate
<1> QED
  BY <1>2, <1>3, <1>4

(* A step is one of the creating handler of c, or leaves it to others. *)
LEMMA CreateStep ==
  ASSUME TypeOK, HandlerInv, [Next]_vars, NEW c \in Creates
  PROVE  StepsCreate(c) \/ LeavesCreate(c)
<1>1. c \in Requests /\ c \notin Actions
  BY SosAssumption DEF Requests
<1>2. ASSUME NEW r \in Creates, StepsCreate(r)
      PROVE  StepsCreate(c) \/ LeavesCreate(c)
  BY <1>2, OtherCreate
<1>3. ASSUME NEW r \in Creates, NEW w \in Workers, NEW u \in Users, NEW k \in Keys \cup {None},
             NEW e \in Evidence \cup {None}, AnswerSos(r, w, u, k, e)
      PROVE  LeavesCreate(c)
  <2>1. UNCHANGED <<sos, alerts>>
    BY <1>3 DEF AnswerSos
  <2>2. req'[c] = req[c] \/ (req[c].phase = "idle" /\ req'[c].phase \in {"done", "failed"})
    BY <1>1, <1>3 DEF AnswerSos, TypeOK, Finish
  <2> QED
    BY <2>1, <2>2 DEF LeavesCreate
<1>4. ASSUME NEW r \in Requests, NEW w \in Workers, Arrive(r, w)
      PROVE  StepsCreate(c) \/ LeavesCreate(c)
  <2>1. CASE r \in Creates
    BY <1>2, <1>3, <1>4, <2>1, SosAssumption DEF Arrive, StepsCreate
  <2>2. CASE r \in Actions
    BY <1>4, <2>2, ActionLeaves
  <2> QED
    BY <2>1, <2>2 DEF Requests
<1>5. ASSUME NEW r \in Requests, Proceed(r)
      PROVE  StepsCreate(c) \/ LeavesCreate(c)
  BY <1>2, <1>5, ActionLeaves DEF Proceed, StepsCreate
<1>6. ASSUME NEW r \in Requests, DatabaseFault(r)
      PROVE  LeavesCreate(c)
  BY <1>1, <1>6 DEF DatabaseFault, TypeOK, Finish, LeavesCreate
<1>7. ASSUME NEW w \in Workers, Crash(w)
      PROVE  LeavesCreate(c)
  BY <1>1, <1>7 DEF Crash, Finish, LeavesCreate
<1>8. Rest \/ UNCHANGED vars => LeavesCreate(c)
  BY DEF Rest, vars, LeavesCreate
<1> QED
  BY <1>4, <1>5, <1>6, <1>7, <1>8 DEF Next

(* A report that is filed stays filed. *)
LEMMA FiledKept ==
  ASSUME TypeOK, HandlerInv, [Next]_vars
  PROVE  Filed \subseteq Filed'
<1> SUFFICES ASSUME NEW c \in Creates, sos[c].status # "absent"
             PROVE  sos'[c].status # "absent"
  BY DEF Filed
<1>1. ASSUME NEW r \in Actions, MoveSos(r)
      PROVE  sos'[c].status # "absent"
  <2> DEFINE d == req[r].target
             row == Moved(sos[d], req[r].goal)
  <2>1. sos' = [sos EXCEPT ![d] = row]
    BY <1>1 DEF MoveSos
  <2>2. r \in Requests /\ d \in Creates /\ sos[d] \in Row /\ req[r].goal \in Status
    BY <1>1, HandlerFacts DEF MoveSos, Requests
  <2>3. row.status # "absent"
    BY <2>2, MovedFields DEF Status
  <2> HIDE DEF d, row
  <2> QED
    BY <2>1, <2>2, <2>3 DEF TypeOK
<1>2. ASSUME NEW r \in Creates, NEW score \in {"low", "high"}, AttachRiskContext(r, score)
      PROVE  sos'[c].status # "absent"
  <2>1. sos[r] \in Row
    BY DEF TypeOK
  <2>2. [sos[r] EXCEPT !.risk = score].status = sos[r].status
    BY <2>1 DEF Row
  <2> QED
    BY <1>2, <2>2 DEF AttachRiskContext, AttachRisk, TypeOK
<1>3. ASSUME NEW r \in Creates, LinkAlert(r)
      PROVE  sos'[c].status # "absent"
  <2>1. sos[r] \in Row
    BY DEF TypeOK
  <2>2. [sos[r] EXCEPT !.linked = TRUE].status = sos[r].status
    BY <2>1 DEF Row
  <2> QED
    BY <1>3, <2>2 DEF LinkAlert, TypeOK
<1>4. ASSUME NEW r \in Creates, InsertSos(r)
      PROVE  sos'[c].status # "absent"
  BY <1>4 DEF InsertSos, TypeOK
<1>5. ASSUME NEW r \in Requests,
             \/ AssessmentFails(r) \/ RaiseAlert(r) \/ AnnounceSos(r)
             \/ ReadSos(r) \/ AnnounceMove(r) \/ DatabaseFault(r)
             \/ \E w \in Workers : Arrive(r, w)
      PROVE  sos' = sos
  BY <1>5 DEF AssessmentFails, RaiseAlert, AnnounceSos, ReadSos, AnnounceMove, DatabaseFault,
     Arrive, BeginSos, AnswerSos, Authorise, BeginCancel
<1>6. (\E w \in Workers : Crash(w)) \/ Rest \/ UNCHANGED vars => sos' = sos
  BY DEF Crash, Rest, vars
<1> QED
  BY <1>1, <1>2, <1>3, <1>4, <1>5, <1>6 DEF Next, Proceed, Requests

(***************************************************************************)
(* The linked alert and the bound evidence, with any number of workers.    *)
(***************************************************************************)

\* What the row of c, its alert and its handler say of one another.
LinkFact(c) ==
  /\ sos[c].linked => c \in alerts
  /\ c \in alerts => c \in Filed /\ (sos[c].linked \/ req[c].phase \in {"alerted", "failed"})
  /\ req[c].phase = "alerted" => c \in alerts

(* A step that leaves the link and the alert, and does not pass the alert    *)
(* stage, keeps what they say of one another.                                *)
LEMMA LinkKept ==
  ASSUME NEW c \in Creates, LinkFact(c), Filed \subseteq Filed',
         sos'[c].linked = sos[c].linked, (c \in alerts') <=> (c \in alerts),
         req[c].phase \in {"alerted", "failed"} => req'[c].phase \in {"alerted", "failed"},
         req'[c].phase = "alerted" => req[c].phase = "alerted"
  PROVE  LinkFact(c)'
  BY DEF LinkFact

LEMMA LinkStep ==
  ASSUME TypeOK, HandlerInv, [Next]_vars, NEW c \in Creates, LinkFact(c)
  PROVE  LinkFact(c)'
<1>1. c \in Requests /\ req \in [Requests -> Handler] /\ req[c] \in Handler /\ sos[c] \in Row
  BY DEF TypeOK, Requests
<1>2. Filed \subseteq Filed'
  BY FiledKept
<1>3. CASE LeavesCreate(c)
  <2>1. req[c].phase # "idle" \/ c \notin alerts
    BY DEF HandlerInv, LinkFact, Filed
  <2>2. CASE req'[c].phase = "done" /\ req[c].phase = "idle"
    BY <1>2, <1>3, <2>1, <2>2, LinkKept DEF LeavesCreate
  <2>3. CASE req'[c] = req[c] \/ req'[c].phase = "failed"
    BY <1>2, <1>3, <2>3, LinkKept DEF LeavesCreate
  <2> QED
    BY <1>3, <2>2, <2>3 DEF LeavesCreate
<1>4. ASSUME NEW w \in Workers, NEW u \in Users, NEW k \in Keys \cup {None},
             NEW e \in Evidence \cup {None}, NEW sev \in Severities,
             BeginSos(c, w, u, k, e, sev)
      PROVE  LinkFact(c)'
  <2>1. req[c].phase = "idle" /\ req'[c].phase = "keyed" /\ UNCHANGED <<sos, alerts>>
    BY <1>1, <1>4 DEF BeginSos
  <2> QED
    BY <1>2, <2>1, LinkKept
<1>5. CASE InsertSos(c)
  <2>1. c \notin alerts
    BY <1>5 DEF InsertSos, HandlerInv, LinkFact, Filed
  <2>2. c \notin alerts' /\ sos'[c].linked = FALSE
    BY <1>5, <2>1 DEF InsertSos, TypeOK
  <2>3. req'[c].phase = "assessing"
    <3>1. req'[c] = Refresh(req[c], "assessing", "ACTIVE")
      BY <1>1, <1>5 DEF InsertSos
    <3> QED
      BY <1>1, <3>1, RefreshFields DEF TypeOK, Phases, Status
  <2> QED
    BY <2>2, <2>3 DEF LinkFact
<1>6. CASE AssessmentFails(c)
  <2>1. req[c].phase = "assessing" /\ UNCHANGED <<sos, alerts>>
    BY <1>6 DEF AssessmentFails
  <2>2. req'[c].phase = "assessed"
    BY <1>1, <1>6 DEF AssessmentFails, Handler
  <2> QED
    BY <1>2, <2>1, <2>2, LinkKept
<1>7. ASSUME NEW score \in {"low", "high"}, AttachRiskContext(c, score)
      PROVE  LinkFact(c)'
  <2>1. req[c].phase = "assessing" /\ UNCHANGED alerts
    BY <1>7 DEF AttachRiskContext
  <2>2. req'[c].phase = "assessed"
    <3>1. req'[c] = Refresh(req[c], "assessed", sos[c].status)
      BY <1>1, <1>7 DEF AttachRiskContext
    <3>2. sos[c].status \in Status /\ clock \in Nat /\ "assessed" \in Phases
      BY <2>1, CreateFacts DEF TypeOK, Phases
    <3> QED
      BY <1>1, <3>1, <3>2, RefreshFields
  <2>3. sos'[c].linked = sos[c].linked
    <3>1. [sos[c] EXCEPT !.risk = score].linked = sos[c].linked
      BY <1>1 DEF Row
    <3> QED
      BY <1>7, <3>1 DEF AttachRiskContext, AttachRisk, TypeOK
  <2> QED
    BY <1>2, <2>1, <2>2, <2>3, LinkKept
<1>8. CASE RaiseAlert(c)
  <2>1. req'[c].phase = "alerted"
    <3>1. req'[c] = Refresh(req[c], "alerted", sos[c].status)
      BY <1>1, <1>8 DEF RaiseAlert
    <3>2. sos[c].status \in Status /\ clock \in Nat /\ "alerted" \in Phases
      BY <1>8, CreateFacts DEF RaiseAlert, TypeOK, Phases
    <3> QED
      BY <1>1, <3>1, <3>2, RefreshFields
  <2>2. c \in Filed'
    BY <1>2, <1>8, CreateFacts DEF RaiseAlert
  <2>3. c \in alerts'
    BY <1>8 DEF RaiseAlert
  <2> QED
    BY <2>1, <2>2, <2>3 DEF LinkFact
<1>9. CASE LinkAlert(c)
  <2>1. c \in alerts /\ alerts' = alerts
    BY <1>9 DEF LinkAlert, LinkFact
  <2>2. c \in Filed'
    BY <1>2, <2>1 DEF LinkFact
  <2>3. sos'[c].linked
    BY <1>1, <1>9 DEF LinkAlert, TypeOK, Row
  <2>4. req'[c].phase = "linked"
    BY <1>1, <1>9 DEF LinkAlert, Handler
  <2> QED
    BY <2>1, <2>2, <2>3, <2>4 DEF LinkFact
<1>10. CASE AnnounceSos(c)
  <2>1. UNCHANGED <<sos, alerts>> /\ req[c].phase \in {"linked", "assessed"}
    BY <1>10 DEF AnnounceSos, PastAlert
  <2>2. req'[c].phase = "done"
    BY <1>1, <1>10 DEF AnnounceSos, Finish
  <2> QED
    BY <1>2, <2>1, <2>2, LinkKept
<1> QED
  BY <1>3, <1>4, <1>5, <1>6, <1>7, <1>8, <1>9, <1>10, CreateStep DEF StepsCreate

(* With any number of workers a report refers only to a committed alert, and *)
(* an alert is unreferenced only between the two commits or after a failure. *)
THEOREM LinkIsSound == Spec => []AlertLinkSound
<1> DEFINE Linked == \A c \in Creates : LinkFact(c)
           I == TypeOK /\ HandlerInv /\ Linked
<1>1. Init => I
  <2>1. Init => Linked
    BY DEF Init, LinkFact, NoRow, Idle, Requests
  <2> QED
    BY <2>1, InitTyped
<1>2. I /\ [Next]_vars => I'
  <2> SUFFICES ASSUME TypeOK, HandlerInv, Linked, [Next]_vars
               PROVE  I'
    OBVIOUS
  <2>1. \A c \in Creates : LinkFact(c)'
    BY LinkStep
  <2> QED
    BY <2>1, NextTyped
<1>3. I => AlertLinkSound
  BY DEF AlertLinkSound, LinkFact
<1> QED
  BY <1>1, <1>2, <1>3, PTL DEF Spec

\* Evidence e is held by a report of its verified owner, which counts it.
HeldFact(e) ==
  held[e] # None =>
    /\ held[e] \in Creates
    /\ sos[held[e]].status # "absent"
    /\ sos[held[e]].owner = OwnerOf[e]
    /\ sos[held[e]].owner \in Verified
    /\ sos[held[e]].evidence = 1

\* The identity check precedes the insert.
CheckedFact(c) == req[c].phase = "keyed" => MayAttach(req[c].user, req[c].ev)

LEMMA CheckedStep ==
  ASSUME TypeOK, HandlerInv, [Next]_vars, NEW c \in Creates, CheckedFact(c)
  PROVE  CheckedFact(c)'
<1>1. c \in Requests /\ req \in [Requests -> Handler] /\ req[c] \in Handler
  BY DEF TypeOK, Requests
<1>2. CASE LeavesCreate(c)
  BY <1>2 DEF LeavesCreate, CheckedFact, MayAttach
<1>3. ASSUME NEW w \in Workers, NEW u \in Users, NEW k \in Keys \cup {None},
             NEW e \in Evidence \cup {None}, NEW sev \in Severities,
             BeginSos(c, w, u, k, e, sev)
      PROVE  CheckedFact(c)'
  BY <1>1, <1>3 DEF BeginSos, CheckedFact, MayAttach
<1>4. ASSUME \/ InsertSos(c) \/ AssessmentFails(c)
             \/ \E score \in {"low", "high"} : AttachRiskContext(c, score)
             \/ RaiseAlert(c) \/ LinkAlert(c) \/ AnnounceSos(c)
      PROVE  req'[c].phase # "keyed"
  <2>1. clock \in Nat
    BY DEF TypeOK
  <2>2. \A p \in {"assessing", "assessed", "alerted"}, s \in Status :
          Refresh(req[c], p, s).phase = p
    <3>1. {"assessing", "assessed", "alerted"} \subseteq Phases
      BY DEF Phases
    <3> QED
      BY <1>1, <2>1, <3>1, RefreshFields
  <2>3. CASE InsertSos(c)
    BY <1>1, <2>2, <2>3 DEF InsertSos, Status
  <2>4. CASE AssessmentFails(c)
    BY <1>1, <2>4 DEF AssessmentFails, Handler
  <2>5. ASSUME NEW score \in {"low", "high"}, AttachRiskContext(c, score)
        PROVE  req'[c].phase # "keyed"
    <3>1. sos[c].status \in Status
      BY <2>5, CreateFacts DEF AttachRiskContext
    <3> QED
      BY <1>1, <2>2, <2>5, <3>1 DEF AttachRiskContext
  <2>6. CASE RaiseAlert(c)
    <3>1. sos[c].status \in Status
      BY <2>6, CreateFacts DEF RaiseAlert
    <3> QED
      BY <1>1, <2>2, <2>6, <3>1 DEF RaiseAlert
  <2>7. CASE LinkAlert(c)
    BY <1>1, <2>7 DEF LinkAlert, Handler
  <2>8. CASE AnnounceSos(c)
    BY <1>1, <2>8 DEF AnnounceSos, Finish
  <2> QED
    BY <1>4, <2>3, <2>4, <2>5, <2>6, <2>7, <2>8
<1> QED
  BY <1>2, <1>3, <1>4, CreateStep DEF StepsCreate, CheckedFact

(* A report that is filed keeps its reporter and the count of its evidence. *)
LEMMA ReporterKept ==
  ASSUME TypeOK, HandlerInv, [Next]_vars, NEW c \in Filed
  PROVE  sos'[c].owner = sos[c].owner /\ sos'[c].evidence = sos[c].evidence
<1>1. c \in Creates /\ sos[c] \in Row /\ sos[c].status # "absent"
  BY DEF Filed, TypeOK
<1>2. CASE StepsCreate(c)
  <2>1. ~InsertSos(c)
    BY <1>1 DEF InsertSos, HandlerInv
  <2>2. ASSUME NEW score \in {"low", "high"}, AttachRiskContext(c, score)
        PROVE  sos'[c].owner = sos[c].owner /\ sos'[c].evidence = sos[c].evidence
    <3>1. LET n == [sos[c] EXCEPT !.risk = score] IN
            n.owner = sos[c].owner /\ n.evidence = sos[c].evidence
      BY <1>1 DEF Row
    <3> QED
      BY <1>1, <2>2, <3>1 DEF AttachRiskContext, AttachRisk, TypeOK
  <2>3. CASE LinkAlert(c)
    <3>1. LET n == [sos[c] EXCEPT !.linked = TRUE] IN
            n.owner = sos[c].owner /\ n.evidence = sos[c].evidence
      BY <1>1 DEF Row
    <3> QED
      BY <1>1, <2>3, <3>1 DEF LinkAlert, TypeOK
  <2> QED
    BY <1>2, <2>1, <2>2, <2>3 DEF StepsCreate, BeginSos, AssessmentFails, RaiseAlert, AnnounceSos
<1>3. CASE LeavesCreate(c)
  BY <1>3 DEF LeavesCreate
<1> QED
  BY <1>1, <1>2, <1>3, CreateStep

LEMMA HeldStep ==
  ASSUME TypeOK, HandlerInv, [Next]_vars, NEW e \in Evidence, HeldFact(e),
         \A c \in Creates : CheckedFact(c)
  PROVE  HeldFact(e)'
<1>1. CASE held'[e] = held[e]
  <2> SUFFICES ASSUME held[e] # None
               PROVE  HeldFact(e)'
    BY <1>1 DEF HeldFact
  <2>1. held[e] \in Filed
    BY DEF HeldFact, Filed
  <2>2. sos'[held[e]].status # "absent"
    BY <2>1, FiledKept DEF Filed
  <2> QED
    BY <1>1, <2>1, <2>2, ReporterKept DEF HeldFact
<1>2. ASSUME NEW r \in Creates, InsertSos(r), Binds(req[r].user, req[r].ev), req[r].ev = e
      PROVE  HeldFact(e)'
  <2>1. held'[e] = r
    BY <1>2 DEF InsertSos, TypeOK
  <2>2. sos'[r].owner = req[r].user /\ sos'[r].evidence = 1 /\ sos'[r].status = "ACTIVE"
    BY <1>2 DEF InsertSos, TypeOK
  <2>3. req[r].user = OwnerOf[e] /\ req[r].user \in Verified
    BY <1>2 DEF Binds, InsertSos, CheckedFact, MayAttach
  <2> QED
    BY <2>1, <2>2, <2>3 DEF HeldFact
<1>3. ASSUME NEW r \in Creates, InsertSos(r), ~(Binds(req[r].user, req[r].ev) /\ req[r].ev = e)
      PROVE  held'[e] = held[e]
  BY <1>3 DEF InsertSos, TypeOK
<1>4. ASSUME NEW r \in Requests,
             \/ \E w \in Workers : Arrive(r, w)
             \/ DatabaseFault(r)
             \/ Proceed(r) /\ ~(r \in Creates /\ InsertSos(r))
      PROVE  held' = held
  BY <1>4 DEF Arrive, BeginSos, AnswerSos, Authorise, BeginCancel, DatabaseFault, Proceed,
     AssessmentFails, AttachRiskContext, RaiseAlert, LinkAlert, AnnounceSos, ReadSos, MoveSos,
     AnnounceMove
<1>5. (\E w \in Workers : Crash(w)) \/ Rest \/ UNCHANGED vars => held' = held
  BY DEF Crash, Rest, vars
<1> QED
  BY <1>1, <1>2, <1>3, <1>4, <1>5 DEF Next

(* With any number of workers evidence that is bound to a report belongs to  *)
(* its verified reporter, and the report counts it.                          *)
THEOREM EvidenceStaysWithReporter == Spec => []EvidenceOfReporter
<1> DEFINE Held == (\A c \in Creates : CheckedFact(c)) /\ (\A e \in Evidence : HeldFact(e))
           I == TypeOK /\ HandlerInv /\ Held
<1>1. Init => I
  <2>1. Init => Held
    BY DEF Init, CheckedFact, HeldFact, Idle, Requests
  <2> QED
    BY <2>1, InitTyped
<1>2. I /\ [Next]_vars => I'
  <2> SUFFICES ASSUME TypeOK, HandlerInv, Held, [Next]_vars
               PROVE  I'
    OBVIOUS
  <2>1. \A c \in Creates : CheckedFact(c)'
    BY CheckedStep
  <2>2. \A e \in Evidence : HeldFact(e)'
    BY HeldStep
  <2> QED
    BY <2>1, <2>2, NextTyped
<1>3. I => EvidenceOfReporter
  BY DEF EvidenceOfReporter, HeldFact
<1> QED
  BY <1>1, <1>2, <1>3, PTL DEF Spec

(***************************************************************************)
(* The audit trail.                                                        *)
(***************************************************************************)

\* The entry a handler with the facts q records of its transition.
MoveEntry(q) == Audit(q.goal, q.seen, q.goal, q.at)

\* A step that leaves the trail and the status of c alone.
QuietOn(c) ==
  /\ audits'[c] = audits[c]
  /\ sos'[c].status = sos[c].status

\* A step that notes something about c without moving it.
NotesOn(c) ==
  /\ \E e \in AuditRow : /\ e.action \notin Status \cup {"CREATED"}
                         /\ audits'[c] = Append(audits[c], e)
  /\ sos'[c].status = sos[c].status

\* The handler of r moves c.
MovesOn(r, c) ==
  /\ MoveSos(r) /\ req[r].target = c
  /\ MoveEntry(req[r]) \in AuditRow
  /\ audits'[c] = Append(audits[c], MoveEntry(req[r]))
  /\ sos'[c].status = req[r].goal

(* What a step does to the trail of a report. *)
LEMMA TrailStep ==
  ASSUME TypeOK, HandlerInv, [Next]_vars, NEW c \in Creates
  PROVE  QuietOn(c) \/ InsertSos(c) \/ NotesOn(c) \/ \E r \in Actions : MovesOn(r, c)
<1>1. ASSUME NEW r \in Creates, InsertSos(r)
      PROVE  QuietOn(c) \/ InsertSos(c)
  BY <1>1 DEF InsertSos, TypeOK, QuietOn
<1>2. ASSUME NEW r \in Creates, NEW score \in {"low", "high"}, AttachRiskContext(r, score)
      PROVE  QuietOn(c) \/ NotesOn(c)
  <2> DEFINE e == Audit("RISK_ASSESSED", req[r].seen, req[r].seen, req[r].at)
             row == AttachRisk(sos[r], req[r].seen, score)
  <2>1. r \in Requests /\ req[r] \in Handler /\ sos[r] \in Row
    BY DEF TypeOK, Requests
  <2>2. e \in AuditRow /\ e.action = "RISK_ASSESSED"
    BY <2>1 DEF Audit, AuditRow, Handler
  <2>3. row.status = sos[r].status
    BY <2>1 DEF AttachRisk, Row
  <2>4. audits' = [audits EXCEPT ![r] = Append(audits[r], e)] /\ sos' = [sos EXCEPT ![r] = row]
    BY <1>2 DEF AttachRiskContext
  <2> HIDE DEF e, row
  <2>5. e.action \notin Status \cup {"CREATED"}
    BY <2>2 DEF Status
  <2> QED
    BY <2>2, <2>3, <2>4, <2>5 DEF TypeOK, QuietOn, NotesOn
<1>3. ASSUME NEW r \in Creates, LinkAlert(r)
      PROVE  QuietOn(c) \/ NotesOn(c)
  <2> DEFINE e == Audit("ALERT_LINKED", req[r].seen, req[r].seen, req[r].at)
             row == [sos[r] EXCEPT !.linked = TRUE]
  <2>1. r \in Requests /\ req[r] \in Handler /\ sos[r] \in Row
    BY DEF TypeOK, Requests
  <2>2. e \in AuditRow /\ e.action = "ALERT_LINKED"
    BY <2>1 DEF Audit, AuditRow, Handler
  <2>3. row.status = sos[r].status
    BY <2>1 DEF Row
  <2>4. audits' = [audits EXCEPT ![r] = Append(audits[r], e)] /\ sos' = [sos EXCEPT ![r] = row]
    BY <1>3 DEF LinkAlert, TypeOK
  <2> HIDE DEF e, row
  <2>5. e.action \notin Status \cup {"CREATED"}
    BY <2>2 DEF Status
  <2> QED
    BY <2>2, <2>3, <2>4, <2>5 DEF TypeOK, QuietOn, NotesOn
<1>4. ASSUME NEW r \in Actions, MoveSos(r)
      PROVE  QuietOn(c) \/ MovesOn(r, c)
  <2> DEFINE d == req[r].target
             e == MoveEntry(req[r])
             row == Moved(sos[d], req[r].goal)
  <2>1. /\ r \in Requests /\ req[r] \in Handler /\ d \in Creates /\ sos[d] \in Row
        /\ req[r].goal \in Status
    BY <1>4, HandlerFacts DEF MoveSos, Requests
  <2>2. e \in AuditRow
    BY <2>1 DEF MoveEntry, Audit, AuditRow, Handler
  <2>3. row.status = req[r].goal
    BY <2>1, MovedFields
  <2>4. audits' = [audits EXCEPT ![d] = Append(audits[d], e)] /\ sos' = [sos EXCEPT ![d] = row]
    BY <1>4 DEF MoveSos, MoveEntry
  <2> HIDE DEF e, row
  <2>5. CASE c = d
    BY <1>4, <2>1, <2>2, <2>3, <2>4, <2>5 DEF TypeOK, MovesOn, e
  <2>6. CASE c # d
    BY <2>1, <2>4, <2>6 DEF TypeOK, QuietOn
  <2> QED
    BY <2>5, <2>6
<1>5. ASSUME NEW r \in Requests,
             \/ AssessmentFails(r) \/ RaiseAlert(r) \/ AnnounceSos(r)
             \/ ReadSos(r) \/ AnnounceMove(r) \/ DatabaseFault(r)
             \/ \E w \in Workers : Arrive(r, w)
      PROVE  QuietOn(c)
  BY <1>5 DEF AssessmentFails, RaiseAlert, AnnounceSos, ReadSos, AnnounceMove, DatabaseFault,
     Arrive, BeginSos, AnswerSos, Authorise, BeginCancel, QuietOn
<1>6. (\E w \in Workers : Crash(w)) \/ Rest \/ UNCHANGED vars => QuietOn(c)
  BY DEF Crash, Rest, vars, QuietOn
<1> QED
  BY <1>1, <1>2, <1>3, <1>4, <1>5, <1>6 DEF Next, Proceed, Requests

\* Where a trail records the creation and the moves.
MovesOf(t) == {i \in DOMAIN t : t[i].action \in Status \cup {"CREATED"}}

\* A trail that chains from the creation to status s.
ChainsTo(t, s) ==
  /\ 1 \in MovesOf(t) /\ t[1].action = "CREATED"
  /\ \A i, j \in MovesOf(t) :
       i < j /\ (\A k \in MovesOf(t) : k <= i \/ j <= k) => t[j].prev = t[i].new
  /\ \A i \in MovesOf(t) : (\A k \in MovesOf(t) : k <= i) => t[i].new = s

(* An entry that records no move does not break the chain. *)
LEMMA ChainNotes ==
  ASSUME NEW t \in Seq(AuditRow), NEW s, ChainsTo(t, s),
         NEW e \in AuditRow, e.action \notin Status \cup {"CREATED"}
  PROVE  ChainsTo(Append(t, e), s)
<1> DEFINE u == Append(t, e)
<1>1. /\ DOMAIN t = 1..Len(t) /\ Len(t) \in Nat /\ DOMAIN u = 1..(Len(t) + 1)
      /\ u[Len(t) + 1] = e /\ \A i \in 1..Len(t) : u[i] = t[i]
  OBVIOUS
<1> HIDE DEF u
<1>2. MovesOf(u) = MovesOf(t) /\ \A i \in MovesOf(t) : u[i] = t[i]
  BY <1>1 DEF MovesOf
<1>3. 1 \in MovesOf(u) /\ u[1].action = "CREATED"
  BY <1>2 DEF ChainsTo
<1>4. ChainsTo(u, s)
  BY <1>2, <1>3 DEF ChainsTo
<1> QED
  BY <1>4 DEF u

(* An entry that records the move from the last status keeps the chain. *)
LEMMA ChainMoves ==
  ASSUME NEW t \in Seq(AuditRow), NEW s, NEW goal \in Status, ChainsTo(t, s),
         NEW e \in AuditRow, e.action = goal, e.prev = s, e.new = goal
  PROVE  ChainsTo(Append(t, e), goal)
<1> DEFINE u == Append(t, e)
           n == Len(t) + 1
<1>1. /\ DOMAIN t = 1..Len(t) /\ Len(t) \in Nat /\ DOMAIN u = 1..n /\ n = Len(t) + 1
      /\ u[n] = e /\ \A i \in 1..Len(t) : u[i] = t[i]
  OBVIOUS
<1> HIDE DEF u, n
<1>2. /\ MovesOf(u) = MovesOf(t) \cup {n} /\ MovesOf(t) \subseteq 1..Len(t)
      /\ \A i \in MovesOf(t) : u[i] = t[i]
  BY <1>1 DEF MovesOf
<1>3. 1 \in MovesOf(u) /\ u[1].action = "CREATED"
  BY <1>2 DEF ChainsTo
<1>4. ASSUME NEW i \in MovesOf(u), NEW j \in MovesOf(u), i < j,
             \A k \in MovesOf(u) : k <= i \/ j <= k
      PROVE  u[j].prev = u[i].new
  <2>1. i \in MovesOf(t) /\ i # n
    BY <1>1, <1>2, <1>4
  <2>2. CASE j = n
    <3>1. \A k \in MovesOf(t) : k <= i
      BY <1>1, <1>2, <1>4, <2>2
    <3>2. t[i].new = s
      BY <2>1, <3>1 DEF ChainsTo
    <3> QED
      BY <1>1, <1>2, <2>1, <2>2, <3>2
  <2>3. CASE j # n
    <3>1. j \in MovesOf(t)
      BY <1>2, <2>3
    <3>2. t[j].prev = t[i].new
      BY <1>2, <1>4, <2>1, <3>1 DEF ChainsTo
    <3> QED
      BY <1>2, <2>1, <3>1, <3>2
  <2> QED
    BY <2>2, <2>3
<1>5. ASSUME NEW i \in MovesOf(u), \A k \in MovesOf(u) : k <= i
      PROVE  u[i].new = goal
  <2>1. i = n
    BY <1>1, <1>2, <1>5
  <2> QED
    BY <1>1, <2>1
<1>6. ChainsTo(u, goal)
  BY <1>3, <1>4, <1>5 DEF ChainsTo
<1> QED
  BY <1>6 DEF u

(* With one worker the trail of a report is the whole history of its status: *)
(* creation first, every move from where the previous one led, to the row.   *)
THEOREM TrailIsHistory == ASSUME OneWorker PROVE Spec => []AuditChain
<1> DEFINE Chained == \A c \in Filed : ChainsTo(audits[c], sos[c].status)
<1>1. Init => Chained
  BY DEF Init, Filed, NoRow
<1>2. IInv /\ Chained /\ [Next]_vars => Chained'
  <2> SUFFICES ASSUME IInv, Chained, [Next]_vars, NEW c \in Creates, sos'[c].status # "absent"
               PROVE  ChainsTo(audits'[c], sos'[c].status)
    BY DEF Filed
  <2>1. TypeOK /\ HandlerInv /\ SectionInv
    BY DEF IInv
  <2>2. audits[c] \in Seq(AuditRow)
    BY <2>1 DEF TypeOK
  <2>3. sos[c].status # "absent" => ChainsTo(audits[c], sos[c].status)
    BY DEF Filed
  <2>4. CASE QuietOn(c)
    BY <2>3, <2>4 DEF QuietOn
  <2>5. CASE InsertSos(c)
    <3> DEFINE created == Audit("CREATED", None, "ACTIVE", req[c].at)
               attached == Audit("EVIDENCE_ATTACHED", "ACTIVE", "ACTIVE", req[c].at)
    <3>1. created.action = "CREATED" /\ created.new = "ACTIVE"
      BY DEF Audit
    <3>2. attached.action = "EVIDENCE_ATTACHED"
      BY DEF Audit
    <3>3. sos'[c].status = "ACTIVE" /\ (audits'[c] = <<created, attached>> \/ audits'[c] = <<created>>)
      BY <2>1, <2>5 DEF InsertSos, TypeOK
    <3> HIDE DEF created, attached
    <3>4. MovesOf(audits'[c]) = {1} /\ audits'[c][1] = created
      BY <3>1, <3>2, <3>3 DEF MovesOf, Status
    <3> QED
      BY <3>1, <3>3, <3>4 DEF ChainsTo
  <2>6. CASE NotesOn(c)
    <3>1. PICK e \in AuditRow : /\ e.action \notin Status \cup {"CREATED"}
                                /\ audits'[c] = Append(audits[c], e)
      BY <2>6 DEF NotesOn
    <3>2. sos'[c].status = sos[c].status
      BY <2>6 DEF NotesOn
    <3>3. ChainsTo(Append(audits[c], e), sos[c].status)
      BY <2>2, <2>3, <3>1, <3>2, ChainNotes
    <3> QED
      BY <3>1, <3>2, <3>3
  <2>7. ASSUME NEW r \in Actions, MovesOn(r, c)
        PROVE  ChainsTo(audits'[c], sos'[c].status)
    <3> DEFINE e == MoveEntry(req[r])
               goal == req[r].goal
    <3>1. /\ e \in AuditRow /\ audits'[c] = Append(audits[c], e) /\ sos'[c].status = goal
          /\ req[r].phase = "read" /\ req[r].target = c
      BY <2>7 DEF MovesOn, MoveSos
    <3>2. req[r].seen = sos[c].status
      BY <2>1, <3>1 DEF SectionInv
    <3>3. e.action = goal /\ e.prev = sos[c].status /\ e.new = goal
      BY <3>2 DEF MoveEntry, Audit
    <3>4. goal \in Status /\ c \in Filed
      BY <2>1, <3>1, HandlerFacts DEF Requests
    <3>5. ChainsTo(audits[c], sos[c].status)
      BY <3>4
    <3> HIDE DEF e, goal
    <3>6. ChainsTo(Append(audits[c], e), goal)
      BY <2>2, <3>1, <3>3, <3>4, <3>5, ChainMoves
    <3> QED
      BY <3>1, <3>6
  <2> QED
    BY <2>1, <2>4, <2>5, <2>6, <2>7, TrailStep
<1>3. Chained => AuditChain
  BY DEF AuditChain, ChainsTo, MovesOf, Lifecycle
<1> QED
  BY <1>1, <1>2, <1>3, Inductive, PTL DEF Spec

(***************************************************************************)
(* What subscribers hear.                                                  *)
(***************************************************************************)

\* The events a step may hand to publish_event.
Created(c) == [type |-> "SOS_ALERT_CREATED", sos |-> c, status |-> None]
Changed(c, status) == [type |-> "SOS_STATUS_CHANGED", sos |-> c, status |-> status]

(* A step announces nothing, or a filed report, or a committed move. *)
LEMMA EventStep ==
  ASSUME TypeOK, HandlerInv, [Next]_vars
  PROVE  \/ events' = events
         \/ \E c \in Filed : events' = Append(events, Created(c))
         \/ \E r \in Actions : AnnounceMove(r)
<1>1. ASSUME NEW r \in Creates, AnnounceSos(r)
      PROVE  \E c \in Filed : events' = Append(events, Created(c))
  <2>1. r \in Filed
    BY <1>1, CreateFacts DEF AnnounceSos, PastAlert
  <2> QED
    BY <1>1, <2>1 DEF AnnounceSos, Created
<1>2. ASSUME NEW r \in Requests, DatabaseFault(r)
      PROVE  events' = events \/ \E c \in Filed : events' = Append(events, Created(c))
  <2>1. AnnouncesAnyway(r) => r \in Filed
    BY CreateFacts DEF AnnouncesAnyway
  <2> QED
    BY <1>2, <2>1 DEF DatabaseFault, Created
<1>3. ASSUME NEW r \in Creates,
             \/ InsertSos(r) \/ AssessmentFails(r)
             \/ \E score \in {"low", "high"} : AttachRiskContext(r, score)
             \/ RaiseAlert(r) \/ LinkAlert(r)
      PROVE  events' = events
  BY <1>3 DEF InsertSos, AssessmentFails, AttachRiskContext, RaiseAlert, LinkAlert
<1>4. ASSUME NEW r \in Requests, ReadSos(r) \/ MoveSos(r) \/ \E w \in Workers : Arrive(r, w)
      PROVE  events' = events
  BY <1>4 DEF ReadSos, MoveSos, Arrive, BeginSos, AnswerSos, Authorise, BeginCancel
<1>5. (\E w \in Workers : Crash(w)) \/ Rest \/ UNCHANGED vars => events' = events
  BY DEF Crash, Rest, vars
<1> QED
  BY <1>1, <1>2, <1>3, <1>4, <1>5 DEF Next, Proceed, Requests

(* Only MoveSos brings a handler to the point of announcing a move. *)
LEMMA MovedOnlyByMove ==
  ASSUME TypeOK, HandlerInv, [Next]_vars, NEW r \in Actions
  PROVE  req'[r] = req[r] \/ req'[r].phase # "moved" \/ MoveSos(r)
<1>1. r \in Requests /\ r \notin Creates /\ req \in [Requests -> Handler]
  BY SosAssumption DEF Requests, TypeOK
<1>2. ASSUME NEW w \in Workers, NEW u \in Users, NEW c \in Filed, BeginCancel(r, w, u, c)
      PROVE  req'[r].phase # "moved"
  BY <1>1, <1>2 DEF BeginCancel, Loaded, Ordered, Finish
<1>3. ASSUME NEW w \in Workers, NEW u \in Users, NEW c \in Filed,
             NEW goal \in Status, Authorise(r, w, u, c, goal)
      PROVE  req'[r].phase # "moved"
  BY <1>1, <1>3 DEF Authorise, Ordered
<1>4. CASE ReadSos(r)
  <2>1. req'[r] = Loaded(req[r], req[r].target)
    BY <1>1, <1>4 DEF ReadSos
  <2>2. Loaded(req[r], req[r].target).phase \in {"read", "done"}
    <3>1. req[r].phase # "idle" /\ req[r].target \in Filed /\ req[r].goal \in Status
          /\ req[r] \in Handler /\ req[r].worker \in Workers
      BY <1>1, <1>4, HandlerFacts DEF ReadSos
    <3> QED
      BY <3>1, LoadedFields
  <2> QED
    BY <2>1, <2>2
<1>5. CASE AnnounceMove(r)
  BY <1>1, <1>5 DEF AnnounceMove, Finish
<1>6. CASE DatabaseFault(r)
  BY <1>1, <1>6 DEF DatabaseFault, Finish
<1>7. ASSUME NEW w \in Workers, Crash(w)
      PROVE  req'[r] = req[r] \/ req'[r].phase # "moved"
  BY <1>1, <1>7 DEF Crash, Finish
<1>8. ASSUME NEW x \in Requests, x # r,
             (\E w \in Workers : Arrive(x, w)) \/ Proceed(x) \/ DatabaseFault(x)
      PROVE  req'[r] = req[r]
  <2>1. \E q : req' = [req EXCEPT ![x] = q]
    <3>1. CASE \E w \in Workers : Arrive(x, w)
      BY <3>1 DEF Arrive, BeginSos, AnswerSos, Authorise, BeginCancel
    <3>2. CASE DatabaseFault(x)
      BY <3>2 DEF DatabaseFault
    <3>3. CASE Proceed(x)
      BY <3>3 DEF Proceed, InsertSos, AssessmentFails, AttachRiskContext, RaiseAlert,
         LinkAlert, AnnounceSos, ReadSos, MoveSos, AnnounceMove
    <3> QED
      BY <1>8, <3>1, <3>2, <3>3
  <2> QED
    BY <1>1, <1>8, <2>1
<1>9. Rest \/ UNCHANGED vars => req'[r] = req[r]
  BY DEF Rest, vars
<1>10. ASSUME NEW w \in Workers, Arrive(r, w)
       PROVE  req'[r].phase # "moved"
  <2>1. r \in Actions /\ r \notin Creates /\ {"ACKNOWLEDGED", "RESOLVED"} \subseteq Status
        /\ Officials \subseteq Users
    BY <1>1 DEF Status, Users
  <2>2. \E c \in Filed, u \in Users :
          (\E goal \in Status : Authorise(r, w, u, c, goal)) \/ BeginCancel(r, w, u, c)
    BY <1>10, <2>1 DEF Arrive
  <2> QED
    BY <1>2, <1>3, <2>2
<1>11. Proceed(r) => req'[r] = req[r] \/ req'[r].phase # "moved" \/ MoveSos(r)
  <2>1. r \notin Creates
    BY <1>1
  <2>2. Proceed(r) => ReadSos(r) \/ MoveSos(r) \/ AnnounceMove(r)
    BY <2>1 DEF Proceed
  <2> QED
    BY <1>4, <1>5, <2>2
<1> QED
  BY <1>6, <1>7, <1>8, <1>9, <1>10, <1>11 DEF Next

(* The trail of a filed report only grows. *)
LEMMA TrailGrows ==
  ASSUME TypeOK, HandlerInv, [Next]_vars, NEW c \in Filed, NEW j \in DOMAIN audits[c]
  PROVE  j \in DOMAIN audits'[c] /\ audits'[c][j] = audits[c][j]
<1>1. c \in Creates /\ audits[c] \in Seq(AuditRow) /\ sos[c].status # "absent"
  BY DEF Filed, TypeOK
<1>2. ~InsertSos(c)
  BY <1>1 DEF InsertSos, HandlerInv
<1>3. ASSUME NEW e \in AuditRow, audits'[c] = Append(audits[c], e)
      PROVE  j \in DOMAIN audits'[c] /\ audits'[c][j] = audits[c][j]
  BY <1>1, <1>3
<1>4. CASE NotesOn(c)
  BY <1>3, <1>4 DEF NotesOn
<1>5. CASE \E r \in Actions : MovesOn(r, c)
  BY <1>3, <1>5 DEF MovesOn
<1> QED
  BY <1>1, <1>2, <1>4, <1>5, TrailStep DEF QuietOn

\* Report c has been moved to the given status.
WasMoved(c, status) == \E j \in DOMAIN audits[c] : audits[c][j].action = status

\* What a handler is about to announce is in the trail.
MovedFact(r) == req[r].phase = "moved" => WasMoved(req[r].target, req[r].goal)

LEMMA MovedStep ==
  ASSUME TypeOK, HandlerInv, [Next]_vars, NEW r \in Actions, MovedFact(r)
  PROVE  MovedFact(r)'
<1> SUFFICES ASSUME req'[r].phase = "moved"
             PROVE  \E j \in DOMAIN audits'[req'[r].target] :
                      audits'[req'[r].target][j].action = req'[r].goal
  BY DEF MovedFact, WasMoved
<1>1. r \in Requests /\ req \in [Requests -> Handler]
  BY DEF Requests, TypeOK
<1>2. CASE req'[r] = req[r]
  <2>1. req[r].target \in Filed
    BY <1>1, <1>2, HandlerFacts
  <2>2. PICK j \in DOMAIN audits[req[r].target] : audits[req[r].target][j].action = req[r].goal
    BY <1>2 DEF MovedFact, WasMoved
  <2> QED
    BY <1>2, <2>1, <2>2, TrailGrows
<1>3. CASE MoveSos(r)
  <2> DEFINE d == req[r].target
             e == MoveEntry(req[r])
             n == Len(audits[d]) + 1
  <2>1. d \in Creates /\ audits[d] \in Seq(AuditRow) /\ e.action = req[r].goal
    BY <1>1, <1>3, HandlerFacts DEF MoveSos, MoveEntry, Audit, TypeOK
  <2>2. req'[r].target = d /\ req'[r].goal = req[r].goal
    BY <1>1, <1>3 DEF MoveSos, Handler
  <2>3. audits'[d] = Append(audits[d], e)
    BY <1>3, <2>1 DEF MoveSos, MoveEntry, TypeOK
  <2> HIDE DEF d, e
  <2>4. n \in DOMAIN audits'[d] /\ audits'[d][n] = e
    BY <2>1, <2>3
  <2> QED
    BY <2>1, <2>2, <2>4
<1> QED
  BY <1>2, <1>3, MovedOnlyByMove

\* An event tells of a filed report, and of a move that is in its trail.
Told(e) == e.sos \in Filed /\ (e.type = "SOS_STATUS_CHANGED" => WasMoved(e.sos, e.status))

LEMMA ToldKept ==
  ASSUME TypeOK, HandlerInv, [Next]_vars, NEW e, Told(e)
  PROVE  /\ e.sos \in Filed'
         /\ e.type = "SOS_STATUS_CHANGED" =>
              \E j \in DOMAIN audits'[e.sos] : audits'[e.sos][j].action = e.status
<1>1. e.sos \in Filed /\ e.sos \in Filed'
  BY FiledKept DEF Told
<1>2. ASSUME e.type = "SOS_STATUS_CHANGED"
      PROVE  \E j \in DOMAIN audits'[e.sos] : audits'[e.sos][j].action = e.status
  <2>1. PICK j \in DOMAIN audits[e.sos] : audits[e.sos][j].action = e.status
    BY <1>2 DEF Told, WasMoved
  <2> QED
    BY <1>1, <2>1, TrailGrows
<1> QED
  BY <1>1, <1>2

LEMMA ToldStep ==
  ASSUME TypeOK, HandlerInv, [Next]_vars, \A r \in Actions : MovedFact(r),
         \A i \in DOMAIN events : Told(events[i])
  PROVE  (\A i \in DOMAIN events : Told(events[i]))'
<1> DEFINE Tells(e) == /\ e.sos \in Filed'
                       /\ e.type = "SOS_STATUS_CHANGED" =>
                            \E j \in DOMAIN audits'[e.sos] : audits'[e.sos][j].action = e.status
<1> SUFFICES \A i \in DOMAIN events' : Tells(events'[i])
  BY DEF Told, WasMoved
<1>1. events \in Seq(Event)
  BY DEF TypeOK
<1>2. \A e : Told(e) => Tells(e)
  BY ToldKept
<1> HIDE DEF Tells
<1>3. CASE events' = events
  BY <1>2, <1>3
<1>4. ASSUME NEW e, events' = Append(events, e), Tells(e)
      PROVE  \A i \in DOMAIN events' : Tells(events'[i])
  <2> TAKE i \in DOMAIN events'
  <2>1. (i \in DOMAIN events /\ events'[i] = events[i]) \/ events'[i] = e
    BY <1>1, <1>4
  <2> QED
    BY <1>2, <1>4, <2>1
<1>5. ASSUME NEW c \in Filed, events' = Append(events, Created(c))
      PROVE  \A i \in DOMAIN events' : Tells(events'[i])
  <2>1. Told(Created(c))
    BY DEF Told, Created
  <2> QED
    BY <1>2, <1>4, <1>5, <2>1
<1>6. ASSUME NEW r \in Actions, AnnounceMove(r)
      PROVE  \A i \in DOMAIN events' : Tells(events'[i])
  <2> DEFINE e == Changed(req[r].target, req[r].goal)
  <2>1. req[r].phase = "moved" /\ events' = Append(events, e)
    BY <1>6 DEF AnnounceMove, PastMove, Changed
  <2>2. req[r].target \in Filed
    BY <2>1, HandlerFacts DEF Requests
  <2>3. Told(e)
    BY <2>1, <2>2 DEF MovedFact, Told, Changed
  <2> HIDE DEF e
  <2> QED
    BY <1>2, <1>4, <2>1, <2>3
<1> QED
  BY <1>3, <1>5, <1>6, EventStep

(* With any number of workers what is announced has been committed: a report *)
(* that is in the table, a status that is in the trail.                      *)
THEOREM WhatIsHeardIsCommitted == Spec => []AnnouncedIsCommitted
<1> DEFINE Moving == \A r \in Actions : MovedFact(r)
           Telling == \A i \in DOMAIN events : Told(events[i])
           I == TypeOK /\ HandlerInv /\ Moving /\ Telling
<1>1. Init => I
  <2>1. Init => Moving /\ Telling
    BY DEF Init, MovedFact, Idle, Requests
  <2> QED
    BY <2>1, InitTyped
<1>2. I /\ [Next]_vars => I'
  <2> SUFFICES ASSUME TypeOK, HandlerInv, Moving, Telling, [Next]_vars
               PROVE  I'
    OBVIOUS
  <2>1. \A r \in Actions : MovedFact(r)'
    BY MovedStep
  <2>2. Telling'
    BY ToldStep
  <2> QED
    BY <2>1, <2>2, NextTyped
<1>3. I => AnnouncedIsCommitted
  BY DEF AnnouncedIsCommitted, Told, WasMoved
<1> QED
  BY <1>1, <1>2, <1>3, PTL DEF Spec

\* Every status of c that has been announced is its status or one it has left
\* since: from each of them the table leads to goal.
LeadsTo(c, goal) ==
  \A i \in DOMAIN events :
    events[i].sos = c /\ events[i].type = "SOS_STATUS_CHANGED" =>
      events[i].status \in Status /\ MayMove(events[i].status, goal)

\* Every announced status of c is its status, or one the table leads from.
Heard(c) ==
  \A i \in DOMAIN events :
    events[i].sos = c /\ events[i].type = "SOS_STATUS_CHANGED" =>
      /\ events[i].status \in Status
      /\ events[i].status = sos[c].status \/ MayMove(events[i].status, sos[c].status)

\* A move that is about to be announced is the last one of its report.
Pending(r) ==
  req[r].phase = "moved" => /\ sos[req[r].target].status = req[r].goal
                            /\ LeadsTo(req[r].target, req[r].goal)

(* The table leads on from where it led. *)
LEMMA TableTransitive ==
  ASSUME NEW a \in Status, NEW b \in Status, NEW c, MayMove(a, b), MayMove(b, c)
  PROVE  MayMove(a, c)
  BY DEF MayMove, SOS_VALID_TRANSITIONS, Status

(* An announced status of a report leads to every status the report may move to. *)
LEMMA HeardLeads ==
  ASSUME NEW c, Heard(c), sos[c].status \in Status, NEW goal, MayMove(sos[c].status, goal)
  PROVE  LeadsTo(c, goal)
<1> SUFFICES ASSUME NEW i \in DOMAIN events, events[i].sos = c,
                    events[i].type = "SOS_STATUS_CHANGED"
             PROVE  events[i].status \in Status /\ MayMove(events[i].status, goal)
  BY DEF LeadsTo
<1>1. events[i].status \in Status
  BY DEF Heard
<1>2. events[i].status = sos[c].status \/ MayMove(events[i].status, sos[c].status)
  BY DEF Heard
<1> QED
  BY <1>1, <1>2, TableTransitive

(* While a handler runs, no other handler is about to announce a move. *)
LEMMA OnlyPending ==
  ASSUME OneWorker, TypeOK, HandlerInv, SectionInv, NEW r \in Actions, MayRun(r),
         req[r].phase # "idle", NEW x \in Actions, x # r
  PROVE  req[x].phase # "moved"
<1>1. r \in Requests /\ x \in Requests
  BY DEF Requests
<1>2. req[r].worker \in Workers
  BY <1>1, HandlerFacts
<1> QED
  BY <1>1, <1>2, OthersOutside DEF MayRun, InSection

\* A step that moves no report and announces no move.
Elsewhere ==
  /\ events' = events \/ \E c \in Filed : events' = Append(events, Created(c))
  /\ \A c \in Filed : sos'[c].status = sos[c].status

(* A step moves a report, announces a move, or does neither. *)
LEMMA SpeakingStep ==
  ASSUME TypeOK, HandlerInv, [Next]_vars
  PROVE  \/ \E r \in Actions : MoveSos(r)
         \/ \E r \in Actions : AnnounceMove(r)
         \/ Elsewhere
<1> SUFFICES ASSUME ~\E r \in Actions : MoveSos(r), ~\E r \in Actions : AnnounceMove(r)
             PROVE  Elsewhere
  OBVIOUS
<1>1. ASSUME NEW c \in Filed
      PROVE  sos'[c].status = sos[c].status
  <2>1. c \in Creates /\ sos[c].status # "absent"
    BY DEF Filed
  <2>2. ~InsertSos(c) /\ ~\E r \in Actions : MovesOn(r, c)
    BY <2>1 DEF InsertSos, HandlerInv, MovesOn
  <2> QED
    BY <2>1, <2>2, TrailStep DEF QuietOn, NotesOn
<1> QED
  BY <1>1, EventStep DEF Elsewhere

\* Subscribers have heard every report's moves in their order so far.
Speaking ==
  /\ \A c \in Filed : Heard(c)
  /\ \A r \in Actions : Pending(r)
  /\ StatusEventsInOrder

(* What has been heard, event by event. *)
LEMMA HeardIn ==
  ASSUME NEW c, Heard(c), NEW i \in DOMAIN events, events[i].sos = c,
         events[i].type = "SOS_STATUS_CHANGED"
  PROVE  /\ events[i].status \in Status
         /\ events[i].status = sos[c].status \/ MayMove(events[i].status, sos[c].status)
  BY DEF Heard

(* A step that moves no report and announces no move changes nothing heard. *)
LEMMA SpeaksElsewhere ==
  ASSUME TypeOK, HandlerInv, [Next]_vars, Speaking, Elsewhere, ~\E r \in Actions : MoveSos(r),
         \A i \in DOMAIN events : Told(events[i])
  PROVE  Speaking'
<1>1. events \in Seq(Event)
  BY DEF TypeOK
<1>2. \A i \in DOMAIN events' :
        events'[i].type = "SOS_STATUS_CHANGED" => i \in DOMAIN events /\ events'[i] = events[i]
  <2>1. CASE events' = events
    BY <2>1
  <2>2. ASSUME NEW c \in Filed, events' = Append(events, Created(c))
        PROVE  \A i \in DOMAIN events' :
                 events'[i].type = "SOS_STATUS_CHANGED" => i \in DOMAIN events /\ events'[i] = events[i]
    <3>1. Created(c).type # "SOS_STATUS_CHANGED"
      BY DEF Created
    <3> TAKE i \in DOMAIN events'
    <3>2. (i \in DOMAIN events /\ events'[i] = events[i]) \/ events'[i] = Created(c)
      BY <1>1, <2>2
    <3> QED
      BY <3>1, <3>2
  <2> QED
    BY <2>1, <2>2 DEF Elsewhere
<1>3. ASSUME NEW i \in DOMAIN events', events'[i].type = "SOS_STATUS_CHANGED"
      PROVE  LET c == events'[i].sos IN
             /\ c \in Filed /\ Heard(c) /\ i \in DOMAIN events /\ events'[i] = events[i]
             /\ sos'[c].status = sos[c].status
  <2>1. i \in DOMAIN events /\ events'[i] = events[i]
    BY <1>2, <1>3
  <2>2. events[i].sos \in Filed
    BY <2>1 DEF Told
  <2> QED
    BY <2>1, <2>2 DEF Speaking, Elsewhere
<1>4. ASSUME NEW c \in Filed', NEW i \in DOMAIN events', events'[i].sos = c,
             events'[i].type = "SOS_STATUS_CHANGED"
      PROVE  /\ events'[i].status \in Status
             /\ events'[i].status = sos'[c].status \/ MayMove(events'[i].status, sos'[c].status)
  BY <1>3, <1>4, HeardIn
<1>5. (\A c \in Filed : Heard(c))'
  BY <1>4 DEF Heard
<1>6. ASSUME NEW r \in Actions
      PROVE  Pending(r)'
  <2> SUFFICES ASSUME req'[r].phase = "moved"
               PROVE  Pending(r)'
    BY DEF Pending
  <2>1. req'[r] = req[r] /\ r \in Requests
    BY MovedOnlyByMove DEF Requests
  <2>2. req[r].target \in Filed
    BY <2>1, HandlerFacts
  <2>3. sos'[req[r].target].status = req[r].goal /\ LeadsTo(req[r].target, req[r].goal)
    BY <2>1, <2>2 DEF Speaking, Pending, Elsewhere
  <2>4. \A i \in DOMAIN events' :
          events'[i].sos = req[r].target /\ events'[i].type = "SOS_STATUS_CHANGED" =>
            events'[i].status \in Status /\ MayMove(events'[i].status, req[r].goal)
    BY <1>2, <2>3 DEF LeadsTo
  <2> QED
    BY <2>1, <2>3, <2>4 DEF Pending, LeadsTo
<1>7. StatusEventsInOrder'
  BY <1>2 DEF StatusEventsInOrder, Speaking
<1> QED
  BY <1>5, <1>6, <1>7 DEF Speaking

(* A move leads on from everything heard of its report. *)
LEMMA SpeaksMove ==
  ASSUME OneWorker, TypeOK, HandlerInv, SectionInv, [Next]_vars, Speaking,
         NEW r \in Actions, MoveSos(r), ~(\E x \in Actions : AnnounceMove(x))
  PROVE  Speaking'
<1> DEFINE d == req[r].target
           goal == req[r].goal
<1>1. /\ r \in Requests /\ req[r].phase = "read" /\ MayRun(r)
      /\ events' = events
  BY DEF MoveSos, Requests
<1>2. d \in Filed /\ d \in Creates /\ goal \in Status /\ sos[d] \in Row
  BY <1>1, HandlerFacts
<1>3. req[r].seen = sos[d].status /\ MayMove(sos[d].status, goal) /\ sos[d].status \in Status
  BY <1>1, <1>2 DEF SectionInv, Row, Filed
<1>4. LeadsTo(d, goal)
  BY <1>2, <1>3, HeardLeads DEF Speaking
<1>5. sos'[d].status = goal /\ \A c \in Filed' : c # d => c \in Filed /\ sos'[c] = sos[c]
  <2>1. sos' = [sos EXCEPT ![d] = Moved(sos[d], goal)]
    BY DEF MoveSos
  <2>2. Moved(sos[d], goal).status = goal
    BY <1>2, MovedFields
  <2> HIDE DEF d, goal
  <2> QED
    BY <1>2, <2>1, <2>2 DEF TypeOK, Filed
<1>6. req'[r].target = d /\ req'[r].goal = goal
  BY <1>1 DEF MoveSos, TypeOK, Handler
<1> HIDE DEF d, goal
<1>7. \A i \in DOMAIN events' :
        events'[i].sos = d /\ events'[i].type = "SOS_STATUS_CHANGED" =>
          events'[i].status \in Status /\ MayMove(events'[i].status, goal)
  BY <1>1, <1>4 DEF LeadsTo
<1>8. ASSUME NEW c \in Filed', NEW i \in DOMAIN events', events'[i].sos = c,
             events'[i].type = "SOS_STATUS_CHANGED"
      PROVE  /\ events'[i].status \in Status
             /\ events'[i].status = sos'[c].status \/ MayMove(events'[i].status, sos'[c].status)
  <2>1. CASE c = d
    BY <1>5, <1>7, <1>8, <2>1
  <2>2. CASE c # d
    <3>1. Heard(c) /\ sos'[c] = sos[c]
      BY <1>5, <2>2 DEF Speaking
    <3> QED
      BY <1>1, <1>8, <3>1, HeardIn
  <2> QED
    BY <2>1, <2>2
<1>9. (\A c \in Filed : Heard(c))'
  BY <1>8 DEF Heard
<1>10. ASSUME NEW x \in Actions
       PROVE  Pending(x)'
  <2>1. CASE x = r
    BY <1>5, <1>6, <1>7, <2>1 DEF Pending, LeadsTo
  <2>2. CASE x # r
    <3>1. req[x].phase # "moved"
      BY <1>1, <2>2, OnlyPending
    <3>2. req'[x] = req[x]
      BY <1>1, <2>2 DEF MoveSos, TypeOK
    <3> QED
      BY <3>1, <3>2 DEF Pending
  <2> QED
    BY <2>1, <2>2
<1>11. StatusEventsInOrder'
  BY <1>1 DEF StatusEventsInOrder, Speaking
<1> QED
  BY <1>9, <1>10, <1>11 DEF Speaking

(* The announcement of a move follows everything heard of its report. *)
LEMMA SpeaksAnnounce ==
  ASSUME OneWorker, TypeOK, HandlerInv, SectionInv, Speaking, NEW r \in Actions,
         AnnounceMove(r)
  PROVE  Speaking'
<1> DEFINE d == req[r].target
           goal == req[r].goal
           e == Changed(d, goal)
<1>1. /\ r \in Requests /\ req[r].phase = "moved" /\ MayRun(r)
      /\ sos' = sos /\ events' = Append(events, e)
  BY DEF AnnounceMove, PastMove, Requests, Changed
<1>2. d \in Filed /\ goal \in Status /\ events \in Seq(Event)
  BY <1>1, HandlerFacts DEF TypeOK
<1>3. sos[d].status = goal /\ LeadsTo(d, goal)
  BY <1>1 DEF Speaking, Pending
<1>4. e.sos = d /\ e.type = "SOS_STATUS_CHANGED" /\ e.status = goal
  BY DEF Changed
<1>5. req'[r].phase = "done" /\ \A x \in Actions : x # r => req'[x] = req[x]
  BY <1>1 DEF AnnounceMove, TypeOK, Finish, Requests
<1> HIDE DEF d, goal, e
<1>6. /\ DOMAIN events = 1..Len(events) /\ DOMAIN events' = 1..(Len(events) + 1)
      /\ events'[Len(events) + 1] = e /\ \A i \in DOMAIN events : events'[i] = events[i]
      /\ Len(events) \in Nat
  BY <1>1, <1>2
<1>7. \A i \in DOMAIN events' :
        (i \in DOMAIN events /\ events'[i] = events[i]) \/ (i = Len(events) + 1 /\ events'[i] = e)
  BY <1>6
<1>8. ASSUME NEW c \in Filed', NEW i \in DOMAIN events', events'[i].sos = c,
             events'[i].type = "SOS_STATUS_CHANGED"
      PROVE  /\ events'[i].status \in Status
             /\ events'[i].status = sos'[c].status \/ MayMove(events'[i].status, sos'[c].status)
  <2>1. CASE events'[i] = e
    BY <1>1, <1>2, <1>3, <1>4, <1>8, <2>1
  <2>2. CASE i \in DOMAIN events /\ events'[i] = events[i]
    <3>1. c \in Filed
      BY <1>1 DEF Filed
    <3>2. Heard(c)
      BY <3>1 DEF Speaking
    <3> QED
      BY <1>1, <1>8, <2>2, <3>2, HeardIn
  <2> QED
    BY <1>7, <2>1, <2>2
<1>9. (\A c \in Filed : Heard(c))'
  BY <1>8 DEF Heard
<1>10. ASSUME NEW x \in Actions
       PROVE  Pending(x)'
  <2>1. req'[x].phase # "moved"
    BY <1>1, <1>5, OnlyPending
  <2> QED
    BY <2>1 DEF Pending
<1>11. ASSUME NEW i \in DOMAIN events', NEW j \in DOMAIN events', i < j,
              events'[i].sos = events'[j].sos, events'[i].type = "SOS_STATUS_CHANGED",
              events'[j].type = "SOS_STATUS_CHANGED"
       PROVE  MayMove(events'[i].status, events'[j].status)
  <2>1. i \in DOMAIN events /\ events'[i] = events[i]
    BY <1>6, <1>11
  <2>2. CASE j \in DOMAIN events /\ events'[j] = events[j]
    BY <1>11, <2>1, <2>2 DEF Speaking, StatusEventsInOrder
  <2>3. CASE events'[j] = e
    BY <1>3, <1>4, <1>11, <2>1, <2>3 DEF LeadsTo
  <2> QED
    BY <1>7, <2>2, <2>3
<1>12. StatusEventsInOrder'
  BY <1>11 DEF StatusEventsInOrder
<1> QED
  BY <1>9, <1>10, <1>12 DEF Speaking

(* With one worker subscribers hear the committed moves of every report, and *)
(* in the order in which they were committed.                                *)
THEOREM HeardIsHistory == ASSUME OneWorker PROVE Spec => []EventsTellHistory
<1> DEFINE Moving == \A r \in Actions : MovedFact(r)
           Telling == \A i \in DOMAIN events : Told(events[i])
           I == IInv /\ Moving /\ Telling /\ Speaking
<1>1. Init => Moving /\ Telling /\ Speaking
  BY DEF Init, MovedFact, Idle, Requests, Speaking, Filed, NoRow, Pending, StatusEventsInOrder
<1>2. IInv /\ Moving /\ Telling /\ Speaking /\ [Next]_vars => Moving' /\ Telling' /\ Speaking'
  <2> SUFFICES ASSUME IInv, Moving, Telling, Speaking, [Next]_vars
               PROVE  Moving' /\ Telling' /\ Speaking'
    OBVIOUS
  <2>1. TypeOK /\ HandlerInv /\ SectionInv
    BY DEF IInv
  <2>2. \A r \in Actions : MovedFact(r)'
    BY <2>1, MovedStep
  <2>3. Telling'
    BY <2>1, ToldStep
  <2>4. (\E r \in Actions : AnnounceMove(r)) => Speaking'
    BY <2>1, SpeaksAnnounce
  <2>5. (\E r \in Actions : MoveSos(r)) /\ ~(\E r \in Actions : AnnounceMove(r)) => Speaking'
    BY <2>1, SpeaksMove
  <2>6. Elsewhere /\ ~(\E r \in Actions : MoveSos(r)) => Speaking'
    BY <2>1, SpeaksElsewhere
  <2>7. Speaking'
    BY <2>1, <2>4, <2>5, <2>6, SpeakingStep
  <2> QED
    BY <2>2, <2>3, <2>7
<1>3. Moving /\ Telling /\ Speaking => EventsTellHistory
  BY DEF EventsTellHistory, AnnouncedIsCommitted, Told, WasMoved, Speaking
<1> QED
  BY <1>1, <1>2, <1>3, Inductive, PTL DEF Spec

==============================================================================
