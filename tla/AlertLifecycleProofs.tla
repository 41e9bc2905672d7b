------------------------ MODULE AlertLifecycleProofs -------------------------
(***************************************************************************)
(* Proofs about AlertLifecycle for every set of requests, workers,         *)
(* officials and fingerprints. With any number of worker processes: types, *)
(* one ACTIVE alert per emergency, and the audit of every official who was *)
(* answered. With one worker: an alert moves along its table, its trail    *)
(* chains to its row, generating is idempotent, and the service implements *)
(* AlertBoard.                                                             *)
(*                                                                         *)
(* The argument for one worker is that of SosNetworkProofs: a handler      *)
(* between two statements with no await between them holds the only event  *)
(* loop (SectionInv), so what it has read is still so when it writes.      *)
(***************************************************************************)
EXTENDS AlertLifecycle, FiniteSetTheorems, TLAPS

(***************************************************************************)
(* The records a handler builds.                                           *)
(***************************************************************************)

Replies == {0, 200, 201, 409, 500}

Answered(q, a, n) == [q EXCEPT !.phase = "done", !.target = a, !.reply = n]

(* A handler that answers keeps what it knows, but for the alert it names. *)
LEMMA AnswerFields ==
  ASSUME NEW q \in Handler, NEW a \in Generates \cup {None}, NEW n \in Replies
  PROVE  /\ Answered(q, a, n) \in Handler
         /\ Answered(q, a, n).phase = "done"
         /\ Answered(q, a, n).target = a
         /\ Answered(q, a, n).reply = n
         /\ Answered(q, a, n).user = q.user
         /\ Answered(q, a, n).goal = q.goal
         /\ Answered(q, a, n).fingerprint = q.fingerprint
<1> DEFINE m1 == [q EXCEPT !.phase = "done"]
           m2 == [m1 EXCEPT !.target = a]
           m3 == [m2 EXCEPT !.reply = n]
<1>1. /\ m1 \in Handler /\ m1.phase = "done"
      /\ m1.user = q.user /\ m1.goal = q.goal /\ m1.fingerprint = q.fingerprint
  BY DEF Handler
<1> HIDE DEF m1
<1>2. /\ m2 \in Handler /\ m2.phase = "done" /\ m2.target = a
      /\ m2.user = q.user /\ m2.goal = q.goal /\ m2.fingerprint = q.fingerprint
  BY <1>1 DEF Handler
<1> HIDE DEF m2
<1>3. /\ m3 \in Handler /\ m3.phase = "done" /\ m3.target = a /\ m3.reply = n
      /\ m3.user = q.user /\ m3.goal = q.goal /\ m3.fingerprint = q.fingerprint
  BY <1>2 DEF Handler, Replies
<1> QED
  BY <1>3 DEF m1, m2, Answered

(* A handler that has loaded an alert it may move remembers the alert. *)
LEMMA ReadFields ==
  ASSUME NEW q \in Handler, NEW row \in Row
  PROVE  LET m == [q EXCEPT !.phase = "read", !.seen = row] IN
         /\ m \in Handler
         /\ m.phase = "read"
         /\ m.seen = row
         /\ m.worker = q.worker
         /\ m.target = q.target
         /\ m.user = q.user
         /\ m.goal = q.goal
         /\ m.reply = q.reply
<1> DEFINE m1 == [q EXCEPT !.phase = "read"]
           m2 == [m1 EXCEPT !.seen = row]
<1>1. /\ m1 \in Handler /\ m1.phase = "read" /\ m1.worker = q.worker /\ m1.target = q.target
      /\ m1.user = q.user /\ m1.goal = q.goal /\ m1.reply = q.reply
  BY DEF Handler
<1> HIDE DEF m1
<1>2. /\ m2 \in Handler /\ m2.phase = "read" /\ m2.worker = q.worker /\ m2.target = q.target
      /\ m2.user = q.user /\ m2.goal = q.goal /\ m2.reply = q.reply /\ m2.seen = row
  BY <1>1 DEF Handler
<1> QED
  BY <1>2 DEF m1

(* A handler lost in a crash is done, and knows nothing new. *)
LEMMA LostFields ==
  ASSUME NEW q \in Handler
  PROVE  LET m == [q EXCEPT !.phase = "done"] IN
         /\ m \in Handler
         /\ m.phase = "done"
         /\ m.target = q.target
         /\ m.user = q.user
         /\ m.goal = q.goal
         /\ m.reply = q.reply
         /\ m.fingerprint = q.fingerprint
  BY DEF Handler

(* A transition assigns the status and who made it, and nothing else. *)
LEMMA MovedFields ==
  ASSUME NEW row \in Row, NEW goal \in Goals, NEW u \in Officials
  PROVE  /\ Moved(row, goal, u) \in Row
         /\ Moved(row, goal, u).status = goal
         /\ Moved(row, goal, u).fingerprint = row.fingerprint
<1> DEFINE m1 == [row EXCEPT !.status = goal]
           m2 == [m1 EXCEPT !.acknowledged_by = u]
           m3 == [m1 EXCEPT !.resolved_by = u]
<1>1. m1 \in Row /\ m1.status = goal /\ m1.fingerprint = row.fingerprint
  BY DEF Row, Goals
<1> HIDE DEF m1
<1>2. m2 \in Row /\ m2.status = goal /\ m2.fingerprint = row.fingerprint
  BY <1>1 DEF Row
<1>3. m3 \in Row /\ m3.status = goal /\ m3.fingerprint = row.fingerprint
  BY <1>1 DEF Row
<1> QED
  BY <1>2, <1>3 DEF m1, Moved

LEMMA StateTyped ==
  ASSUME NEW row \in Row
  PROVE  State(row) \in TrailState /\ State(row).status = row.status
  BY DEF Row, State, TrailState

(***************************************************************************)
(* Types, and what a handler relies on with any number of workers.         *)
(***************************************************************************)

\* What HandlerInv says of a handler of r that has become q.
HandlerKept(r, q) ==
  /\ q.phase # "idle"
  /\ q.phase # "done" => q.worker \in Workers
  /\ r \in Generates => /\ q.phase \in {"looked", "done"}
                        /\ q.phase = "looked" => /\ alert'[r] = NoRow
                                                 /\ q.fingerprint \in Fingerprints
  /\ r \in Actions => /\ q.phase \in {"authorised", "read", "done"}
                      /\ q.target \in Raised
                      /\ q.user \in Officials
                      /\ q.goal \in Goals

\* Only r may insert its row, and no row is ever removed.
RowsKept(r) ==
  /\ Raised \subseteq Raised'
  /\ \A a \in Generates : a # r /\ alert[a] = NoRow => alert'[a] = NoRow

(* A step of one handler keeps the types and facts of all. *)
LEMMA HandlerStep ==
  ASSUME TypeOK, HandlerInv, NEW r \in Requests, NEW q \in Handler,
         req' = [req EXCEPT ![r] = q], HandlerKept(r, q), RowsKept(r)
  PROVE  req' \in [Requests -> Handler] /\ HandlerInv'
<1>1. req' \in [Requests -> Handler]
  BY DEF TypeOK
<1>2. req'[r] = q /\ \A x \in Requests : x # r => req'[x] = req[x]
  BY DEF TypeOK
<1>3. ASSUME NEW x \in Requests, x # r
      PROVE  /\ req'[x].phase = "idle" => req'[x] = Idle
             /\ req'[x].phase \notin {"idle", "done"} => req'[x].worker \in Workers
             /\ x \in Generates => req'[x].phase \in {"idle", "looked", "done"}
             /\ x \in Generates /\ req'[x].phase # "done" => alert'[x] = NoRow
             /\ x \in Generates /\ req'[x].phase = "looked" =>
                  req'[x].fingerprint \in Fingerprints
             /\ x \in Actions => req'[x].phase \in {"idle", "authorised", "read", "done"}
             /\ x \in Actions /\ req'[x].phase # "idle" =>
                  req'[x].target \in Raised' /\ req'[x].user \in Officials /\ req'[x].goal \in Goals
  BY <1>2, <1>3 DEF HandlerInv, RowsKept, Active
<1>4. /\ req'[r].phase = "idle" => req'[r] = Idle
      /\ req'[r].phase \notin {"idle", "done"} => req'[r].worker \in Workers
      /\ r \in Generates => req'[r].phase \in {"idle", "looked", "done"}
      /\ r \in Generates /\ req'[r].phase # "done" => alert'[r] = NoRow
      /\ r \in Generates /\ req'[r].phase = "looked" => req'[r].fingerprint \in Fingerprints
      /\ r \in Actions => req'[r].phase \in {"idle", "authorised", "read", "done"}
      /\ r \in Actions /\ req'[r].phase # "idle" =>
           req'[r].target \in Raised' /\ req'[r].user \in Officials /\ req'[r].goal \in Goals
  BY <1>2 DEF HandlerKept, RowsKept
<1> QED
  BY <1>1, <1>3, <1>4 DEF HandlerInv, Active

(* What is known of a handler that has started and has not answered. *)
LEMMA HandlerFacts ==
  ASSUME TypeOK, HandlerInv, NEW r \in Requests, Active(r)
  PROVE  /\ req[r] \in Handler
         /\ req[r].worker \in Workers
         /\ r \in Generates => req[r].phase = "looked"
         /\ r \in Actions => /\ req[r].phase \in {"authorised", "read"}
                             /\ req[r].target \in Raised
                             /\ req[r].target \in Generates
                             /\ req[r].user \in Officials
                             /\ req[r].goal \in Goals
                             /\ alert[req[r].target] \in Row
  BY DEF TypeOK, HandlerInv, Active, Raised

(* An answer keeps the types and facts, if it is about an alert that exists. *)
LEMMA AnswerStep ==
  ASSUME TypeOK, HandlerInv, NEW r \in Requests, Active(r), RowsKept(r),
         NEW a \in Generates \cup {None}, NEW n \in Replies, Answer(r, a, n),
         r \in Actions => a \in Raised
  PROVE  /\ req' \in [Requests -> Handler]
         /\ HandlerInv'
         /\ loop' \in [Workers -> Requests \cup {None}]
<1> DEFINE q == Answered(req[r], a, n)
<1>1. req[r] \in Handler
  BY HandlerFacts
<1>2. /\ q \in Handler /\ q.phase = "done" /\ q.target = a
      /\ q.user = req[r].user /\ q.goal = req[r].goal
  BY <1>1, AnswerFields
<1>3. req' = [req EXCEPT ![r] = q]
  BY DEF Answer, Answered
<1> HIDE DEF q
<1>4. HandlerKept(r, q)
  BY <1>2, HandlerFacts, AlertAssumption DEF HandlerKept
<1>5. loop' \in [Workers -> Requests \cup {None}]
  BY DEF Answer, TypeOK
<1> QED
  BY <1>2, <1>3, <1>4, <1>5, HandlerStep

LEMMA GenerateArrivesTyped ==
  ASSUME TypeOK, HandlerInv, NEW r \in Generates, NEW w \in Workers, NEW f \in Fingerprints,
         FindDuplicate(r, w, f) \/ BeginGenerate(r, w, f)
  PROVE  TypeOK' /\ HandlerInv'
<1>1. r \in Requests /\ r \notin Actions /\ UNCHANGED <<alert, audits, faults>>
  BY AlertAssumption DEF Requests, FindDuplicate, BeginGenerate
<1>2. alert[r] = NoRow
  BY <1>1 DEF HandlerInv, FindDuplicate, BeginGenerate
<1>3. RowsKept(r)
  BY <1>1 DEF RowsKept, Raised
<1>4. PICK q \in Handler : HandlerKept(r, q) /\ req' = [req EXCEPT ![r] = q]
  <2> DEFINE d(a) == [Idle EXCEPT !.phase = "done", !.worker = w, !.target = a,
                                  !.fingerprint = f, !.reply = 201]
             b == [Idle EXCEPT !.phase = "looked", !.worker = w, !.fingerprint = f]
  <2>1. \A a \in Generates : d(a) \in Handler /\ d(a).phase = "done"
    BY DEF Idle, Handler, NoRow, Row
  <2>2. b \in Handler /\ b.phase = "looked" /\ b.worker = w /\ b.fingerprint = f
    BY DEF Idle, Handler, NoRow, Row
  <2>3. (\E a \in Generates : req' = [req EXCEPT ![r] = d(a)]) \/ req' = [req EXCEPT ![r] = b]
    BY DEF FindDuplicate, BeginGenerate, find_active_duplicate
  <2> HIDE DEF d, b
  <2>4. HandlerKept(r, b)
    BY <1>1, <1>2, <2>2 DEF HandlerKept
  <2>5. \A a \in Generates : HandlerKept(r, d(a))
    BY <1>1, <2>1 DEF HandlerKept
  <2> QED
    BY <2>1, <2>2, <2>3, <2>4, <2>5
<1>5. loop' \in [Workers -> Requests \cup {None}]
  BY <1>1 DEF TypeOK, FindDuplicate, BeginGenerate
<1>6. req' \in [Requests -> Handler] /\ HandlerInv'
  BY <1>1, <1>3, <1>4, HandlerStep
<1> QED
  BY <1>1, <1>5, <1>6 DEF TypeOK

LEMMA AuthoriseTyped ==
  ASSUME TypeOK, HandlerInv, NEW r \in Actions, NEW w \in Workers, NEW u \in Officials,
         NEW a \in Raised, NEW goal \in Goals, Authorise(r, w, u, a, goal)
  PROVE  TypeOK' /\ HandlerInv'
<1> DEFINE q == [Idle EXCEPT !.phase = "authorised", !.worker = w, !.user = u,
                             !.target = a, !.goal = goal]
<1>1. r \in Requests /\ r \notin Generates /\ UNCHANGED <<alert, audits, loop, faults>>
  BY AlertAssumption DEF Requests, Authorise
<1>2. RowsKept(r)
  BY <1>1 DEF RowsKept, Raised
<1>3. a \in Generates
  BY DEF Raised
<1>4. /\ q \in Handler /\ q.phase = "authorised" /\ q.worker = w /\ q.user = u
      /\ q.target = a /\ q.goal = goal
  BY <1>3 DEF Idle, Handler, NoRow, Row
<1>5. req' = [req EXCEPT ![r] = q]
  BY DEF Authorise
<1> HIDE DEF q
<1>6. HandlerKept(r, q)
  BY <1>1, <1>4 DEF HandlerKept
<1>7. req' \in [Requests -> Handler] /\ HandlerInv'
  BY <1>1, <1>2, <1>4, <1>5, <1>6, HandlerStep
<1> QED
  BY <1>1, <1>7 DEF TypeOK

(***************************************************************************)
(* The three ways a step can change the alerts.                            *)
(***************************************************************************)

\* r inserts its row.
Raises(r) ==
  /\ r \in Generates /\ r \in Requests
  /\ req[r].phase = "looked" /\ MayRun(r)
  /\ Admits(req[r].fingerprint)
  /\ alert[r] = NoRow
  /\ alert' = [alert EXCEPT ![r] = NewRow(req[r].fingerprint)]
  /\ audits' = [audits EXCEPT ![r] = <<Creation(req[r].fingerprint)>>]
  /\ Answer(r, r, 201)
  /\ UNCHANGED faults

\* The official's request r moves its alert.
Moves(r) ==
  /\ r \in Actions /\ r \in Requests
  /\ MoveAlert(r)

SameAlerts == UNCHANGED <<alert, audits>>

(* An insert raises an alert or is refused by the index. *)
LEMMA InsertRaises ==
  ASSUME TypeOK, HandlerInv, NEW r \in Generates, InsertAlert(r)
  PROVE  \/ Raises(r)
         \/ SameAlerts /\ UNCHANGED faults /\ ~Admits(req[r].fingerprint) /\ Answer(r, None, 500)
<1>1. r \in Requests /\ req[r].phase = "looked" /\ MayRun(r) /\ UNCHANGED faults
  BY DEF Requests, InsertAlert
<1>2. alert[r] = NoRow
  BY <1>1 DEF HandlerInv
<1> QED
  BY <1>1, <1>2 DEF InsertAlert, Raises, SameAlerts

(* The new row is typed and ACTIVE. *)
LEMMA NewRowTyped ==
  ASSUME NEW f \in Fingerprints
  PROVE  /\ NewRow(f) \in Row /\ NewRow(f).status = "ACTIVE" /\ NewRow(f).fingerprint = f
         /\ Creation(f) \in AuditRow
         /\ Creation(f).action = "CREATED"
         /\ Creation(f).new = State(NewRow(f))
<1>1. NewRow(f) \in Row /\ NewRow(f).status = "ACTIVE" /\ NewRow(f).fingerprint = f
  BY DEF NewRow, Row, AlertStatus
<1>2. NoRow \in Row
  BY DEF NoRow, Row
<1>3. State(NewRow(f)) \in TrailState /\ State(NoRow) \in TrailState
  BY <1>1, <1>2, StateTyped
<1> QED
  BY <1>1, <1>3 DEF Creation, AuditRow

(* Raising an alert adds it and changes no other. *)
LEMMA RaisesFacts ==
  ASSUME TypeOK, HandlerInv, NEW r \in Generates, Raises(r)
  PROVE  /\ req[r].fingerprint \in Fingerprints
         /\ alert' \in [Generates -> Row]
         /\ alert'[r] = NewRow(req[r].fingerprint)
         /\ \A a \in Generates : a # r => alert'[a] = alert[a] /\ audits'[a] = audits[a]
         /\ audits' \in [Generates -> Seq(AuditRow)]
         /\ audits'[r] = <<Creation(req[r].fingerprint)>>
         /\ r \notin Raised
         /\ Raised' = Raised \cup {r}
         /\ RowsKept(r)
<1> DEFINE f == req[r].fingerprint
<1>1. f \in Fingerprints
  BY DEF Raises, HandlerInv
<1>2. /\ NewRow(f) \in Row /\ NewRow(f).status = "ACTIVE"
      /\ Creation(f) \in AuditRow
  BY <1>1, NewRowTyped
<1>3. /\ alert' \in [Generates -> Row] /\ alert'[r] = NewRow(f)
      /\ \A a \in Generates : a # r => alert'[a] = alert[a]
  BY <1>2 DEF Raises, TypeOK
<1>4. /\ audits' \in [Generates -> Seq(AuditRow)] /\ audits'[r] = <<Creation(f)>>
      /\ \A a \in Generates : a # r => audits'[a] = audits[a]
  <2>1. <<Creation(f)>> \in Seq(AuditRow)
    BY <1>2
  <2> QED
    BY <2>1 DEF Raises, TypeOK
<1>5. r \notin Raised /\ Raised' = Raised \cup {r}
  <2>1. NoRow.status = "absent"
    BY DEF NoRow
  <2> QED
    BY <1>2, <1>3, <2>1 DEF Raises, Raised
<1>6. RowsKept(r)
  BY <1>3, <1>5 DEF RowsKept
<1> QED
  BY <1>1, <1>3, <1>4, <1>5, <1>6

(* Moving an alert changes its status and appends to its trail. *)
LEMMA MovesFacts ==
  ASSUME TypeOK, HandlerInv, NEW r \in Actions, Moves(r)
  PROVE  LET q == req[r] IN
         /\ Active(r)
         /\ q.phase = "read"
         /\ q.target \in Raised /\ q.target \in Generates /\ q.goal \in Goals
         /\ q.user \in Officials
         /\ alert' \in [Generates -> Row]
         /\ alert'[q.target] = Moved(alert[q.target], q.goal, q.user)
         /\ alert'[q.target].status = q.goal
         /\ alert'[q.target].fingerprint = alert[q.target].fingerprint
         /\ \A a \in Generates : a # q.target => alert'[a] = alert[a] /\ audits'[a] = audits[a]
         /\ audits' \in [Generates -> Seq(AuditRow)]
         /\ audits'[q.target] = Append(audits[q.target], Recorded(q))
         /\ Recorded(q) \in AuditRow
         /\ Recorded(q).by = q.user /\ Recorded(q).action = q.goal
         /\ Raised' = Raised
         /\ RowsKept(r)
<1> DEFINE q == req[r]
           a == q.target
<1>1. Active(r) /\ q.phase = "read"
  BY DEF Moves, MoveAlert, Active
<1>2. /\ q \in Handler /\ a \in Raised /\ a \in Generates /\ q.user \in Officials
      /\ q.goal \in Goals /\ alert[a] \in Row
  BY <1>1, HandlerFacts DEF Moves
<1>3. /\ Moved(alert[a], q.goal, q.user) \in Row
      /\ Moved(alert[a], q.goal, q.user).status = q.goal
      /\ Moved(alert[a], q.goal, q.user).fingerprint = alert[a].fingerprint
  BY <1>2, MovedFields
<1>4. alert' = [alert EXCEPT ![a] = Moved(alert[a], q.goal, q.user)]
  BY DEF Moves, MoveAlert
<1>5. audits' = [audits EXCEPT ![a] = Append(audits[a], Recorded(q))]
  BY DEF Moves, MoveAlert
<1>6. Recorded(q) \in AuditRow /\ Recorded(q).by = q.user /\ Recorded(q).action = q.goal
  <2>1. q.seen \in Row
    BY <1>2 DEF Handler
  <2>2. Moved(q.seen, q.goal, q.user) \in Row
    BY <1>2, <2>1, MovedFields
  <2>3. State(q.seen) \in TrailState /\ State(Moved(q.seen, q.goal, q.user)) \in TrailState
    BY <2>1, <2>2, StateTyped
  <2> QED
    BY <1>2, <2>3 DEF Recorded, AuditRow
<1>7. /\ alert' \in [Generates -> Row]
      /\ alert'[a] = Moved(alert[a], q.goal, q.user)
      /\ \A b \in Generates : b # a => alert'[b] = alert[b]
  BY <1>2, <1>3, <1>4 DEF TypeOK
<1>8. /\ audits' \in [Generates -> Seq(AuditRow)]
      /\ audits'[a] = Append(audits[a], Recorded(q))
      /\ \A b \in Generates : b # a => audits'[b] = audits[b]
  <2>1. audits[a] \in Seq(AuditRow)
    BY <1>2 DEF TypeOK
  <2>2. Append(audits[a], Recorded(q)) \in Seq(AuditRow)
    BY <1>6, <2>1
  <2> QED
    BY <1>2, <1>5, <2>2 DEF TypeOK
<1>9. Raised' = Raised /\ RowsKept(r)
  <2>1. q.goal # "absent" /\ alert[a].status # "absent"
    BY <1>2 DEF Goals, AlertStatus, Raised
  <2>2. NoRow.status = "absent"
    BY DEF NoRow
  <2>3. Raised' = Raised
    BY <1>2, <1>3, <1>7, <2>1 DEF Raised
  <2> QED
    BY <1>7, <2>1, <2>2, <2>3 DEF RowsKept
<1> QED
  BY <1>1, <1>2, <1>3, <1>6, <1>7, <1>8, <1>9

(***************************************************************************)
(* Every step keeps types and facts.                                       *)
(***************************************************************************)

LEMMA InsertAlertTyped ==
  ASSUME TypeOK, HandlerInv, NEW r \in Generates, InsertAlert(r)
  PROVE  TypeOK' /\ HandlerInv'
<1>1. r \in Requests /\ r \notin Actions /\ Active(r)
  BY AlertAssumption DEF Requests, InsertAlert, Active
<1>2. CASE Raises(r)
  <2>1. /\ req' \in [Requests -> Handler] /\ HandlerInv'
        /\ loop' \in [Workers -> Requests \cup {None}]
    <3>1. Answer(r, r, 201) /\ RowsKept(r) /\ 201 \in Replies
      BY <1>2, RaisesFacts DEF Raises, Replies
    <3> QED
      BY <1>1, <3>1, AnswerStep
  <2> QED
    BY <1>2, <2>1, RaisesFacts DEF Raises, TypeOK
<1>3. CASE SameAlerts /\ UNCHANGED faults /\ Answer(r, None, 500)
  <2>1. RowsKept(r) /\ 500 \in Replies
    BY <1>3 DEF RowsKept, Raised, SameAlerts, Replies
  <2>2. /\ req' \in [Requests -> Handler] /\ HandlerInv'
        /\ loop' \in [Workers -> Requests \cup {None}]
    BY <1>1, <1>3, <2>1, AnswerStep
  <2> QED
    BY <1>3, <2>2 DEF TypeOK, SameAlerts
<1> QED
  BY <1>2, <1>3, InsertRaises

LEMMA ReadAlertTyped ==
  ASSUME TypeOK, HandlerInv, NEW r \in Actions, ReadAlert(r)
  PROVE  TypeOK' /\ HandlerInv'
<1>1. r \in Requests /\ r \notin Generates /\ Active(r) /\ UNCHANGED <<alert, audits, faults>>
  BY AlertAssumption DEF Requests, ReadAlert, Active
<1>2. RowsKept(r)
  BY <1>1 DEF RowsKept, Raised
<1>3. /\ req[r] \in Handler /\ req[r].worker \in Workers /\ req[r].target \in Raised
      /\ req[r].target \in Generates /\ alert[req[r].target] \in Row
      /\ req[r].user \in Officials /\ req[r].goal \in Goals
  BY <1>1, HandlerFacts
<1>4. CASE Answer(r, req[r].target, 409)
  <2>1. 409 \in Replies
    BY DEF Replies
  <2>2. /\ req' \in [Requests -> Handler] /\ HandlerInv'
        /\ loop' \in [Workers -> Requests \cup {None}]
    BY <1>1, <1>2, <1>3, <1>4, <2>1, AnswerStep
  <2> QED
    BY <1>1, <2>2 DEF TypeOK
<1> DEFINE q == [req[r] EXCEPT !.phase = "read", !.seen = alert[req[r].target]]
<1>5. CASE req' = [req EXCEPT ![r] = q] /\ loop' = [loop EXCEPT ![req[r].worker] = r]
  <2>1. /\ q \in Handler /\ q.phase = "read" /\ q.worker = req[r].worker
        /\ q.target = req[r].target /\ q.user = req[r].user /\ q.goal = req[r].goal
    BY <1>3, ReadFields
  <2>2. HandlerKept(r, q)
    BY <1>1, <1>3, <2>1 DEF HandlerKept
  <2> HIDE DEF q
  <2>3. req' \in [Requests -> Handler] /\ HandlerInv'
    BY <1>1, <1>2, <1>5, <2>1, <2>2, HandlerStep
  <2>4. loop' \in [Workers -> Requests \cup {None}]
    BY <1>1, <1>5 DEF TypeOK
  <2> QED
    BY <1>1, <2>3, <2>4 DEF TypeOK
<1> QED
  BY <1>4, <1>5 DEF ReadAlert

LEMMA MoveAlertTyped ==
  ASSUME TypeOK, HandlerInv, NEW r \in Actions, MoveAlert(r)
  PROVE  TypeOK' /\ HandlerInv'
<1>1. r \in Requests /\ Moves(r)
  BY DEF Requests, Moves
<1>2. /\ Active(r) /\ RowsKept(r) /\ req[r].target \in Generates /\ req[r].target \in Raised
      /\ alert' \in [Generates -> Row] /\ audits' \in [Generates -> Seq(AuditRow)]
  BY <1>1, MovesFacts
<1>3. Answer(r, req[r].target, 200) /\ 200 \in Replies /\ UNCHANGED faults
  BY DEF MoveAlert, Replies
<1>4. /\ req' \in [Requests -> Handler] /\ HandlerInv'
      /\ loop' \in [Workers -> Requests \cup {None}]
  BY <1>1, <1>2, <1>3, AnswerStep
<1> QED
  BY <1>2, <1>3, <1>4 DEF TypeOK

LEMMA DatabaseFaultTyped ==
  ASSUME TypeOK, HandlerInv, NEW r \in Requests, DatabaseFault(r)
  PROVE  TypeOK' /\ HandlerInv'
<1>1. /\ Active(r) /\ Answer(r, req[r].target, 500) /\ 500 \in Replies
      /\ UNCHANGED <<alert, audits>> /\ faults' \in Nat
  BY DEF DatabaseFault, Replies, TypeOK
<1>2. RowsKept(r)
  BY <1>1 DEF RowsKept, Raised
<1>3. req[r].target \in Generates \cup {None} /\ (r \in Actions => req[r].target \in Raised)
  BY <1>1, HandlerFacts DEF Handler
<1>4. /\ req' \in [Requests -> Handler] /\ HandlerInv'
      /\ loop' \in [Workers -> Requests \cup {None}]
  BY <1>1, <1>2, <1>3, AnswerStep
<1> QED
  BY <1>1, <1>4 DEF TypeOK

(* After a crash a handler is as it was, or done with what it knew. *)
LEMMA CrashFacts ==
  ASSUME TypeOK, HandlerInv, NEW w \in Workers, Crash(w)
  PROVE  /\ UNCHANGED <<alert, audits>>
         /\ faults' \in Nat /\ faults' # 0
         /\ loop' = [loop EXCEPT ![w] = None]
         /\ req' \in [Requests -> Handler]
         /\ \A x \in Requests :
              \/ req'[x] = req[x] /\ (Active(x) => req[x].worker # w)
              \/ /\ Active(x)
                 /\ req'[x].phase = "done"
                 /\ req'[x].target = req[x].target
                 /\ req'[x].user = req[x].user
                 /\ req'[x].goal = req[x].goal
                 /\ req'[x].reply = req[x].reply
<1> DEFINE m(x) == [req[x] EXCEPT !.phase = "done"]
<1>1. \A x \in Requests : /\ m(x) \in Handler /\ m(x).phase = "done"
                          /\ m(x).target = req[x].target /\ m(x).user = req[x].user
                          /\ m(x).goal = req[x].goal /\ m(x).reply = req[x].reply
  BY LostFields DEF TypeOK
<1>2. \A x \in Requests : req'[x] = IF Active(x) /\ req[x].worker = w THEN m(x) ELSE req[x]
  BY DEF Crash
<1>3. req' = [x \in Requests |-> req'[x]]
  BY DEF Crash
<1>4. faults' \in Nat /\ faults' # 0
  BY DEF Crash, TypeOK
<1> HIDE DEF m
<1>5. req' \in [Requests -> Handler]
  BY <1>1, <1>2, <1>3 DEF TypeOK
<1> QED
  BY <1>1, <1>2, <1>4, <1>5 DEF Crash

LEMMA CrashTyped ==
  ASSUME TypeOK, HandlerInv, NEW w \in Workers, Crash(w)
  PROVE  TypeOK' /\ HandlerInv'
<1>1. loop' \in [Workers -> Requests \cup {None}]
  BY CrashFacts DEF TypeOK
<1>2. Raised' = Raised
  BY CrashFacts DEF Raised
<1>3. HandlerInv'
  BY <1>2, CrashFacts DEF HandlerInv, Active
<1> QED
  BY <1>1, <1>3, CrashFacts DEF TypeOK

LEMMA InitTyped == Init => TypeOK /\ HandlerInv
<1> SUFFICES ASSUME Init
             PROVE  TypeOK /\ HandlerInv
  OBVIOUS
<1>1. NoRow \in Row
  BY DEF NoRow, Row
<1>2. Idle \in Handler /\ Idle.phase = "idle"
  BY <1>1 DEF Idle, Handler
<1>3. <<>> \in Seq(AuditRow)
  OBVIOUS
<1>4. TypeOK
  BY <1>1, <1>2, <1>3 DEF Init, TypeOK
<1>5. \A r \in Requests : req[r] = Idle
  BY DEF Init
<1>6. \A r \in Generates : alert[r] = NoRow
  BY DEF Init
<1> QED
  BY <1>2, <1>4, <1>5, <1>6 DEF HandlerInv, Active, Requests

(* What a handler may rely on is preserved by every step. *)
LEMMA NextTyped == TypeOK /\ HandlerInv /\ [Next]_vars => (TypeOK /\ HandlerInv)'
<1> SUFFICES ASSUME TypeOK, HandlerInv, [Next]_vars
             PROVE  TypeOK' /\ HandlerInv'
  OBVIOUS
<1>1. ASSUME NEW r \in Requests, NEW w \in Workers, Arrive(r, w)
      PROVE  TypeOK' /\ HandlerInv'
  BY <1>1, GenerateArrivesTyped, AuthoriseTyped DEF Arrive
<1>2. ASSUME NEW r \in Requests, Proceed(r)
      PROVE  TypeOK' /\ HandlerInv'
  BY <1>2, InsertAlertTyped, ReadAlertTyped, MoveAlertTyped DEF Proceed
<1>3. CASE UNCHANGED vars
  BY <1>3 DEF vars, TypeOK, HandlerInv, Active, Raised
<1> QED
  BY <1>1, <1>2, <1>3, DatabaseFaultTyped, CrashTyped DEF Next, Rest

(* Every reachable state is well typed, and a handler may rely on HandlerInv *)
(* (whatever the number of workers).                                         *)
THEOREM TypeCorrect == Spec => [](TypeOK /\ HandlerInv)
<1> QED
  BY InitTyped, NextTyped, PTL DEF Spec

(***************************************************************************)
(* Safety with any number of workers.                                      *)
(***************************************************************************)

(* Every step raises an alert, moves one, or leaves the alerts alone. *)
LEMMA AlertStep ==
  ASSUME TypeOK, HandlerInv, [Next]_vars
  PROVE  (\E r \in Generates : Raises(r)) \/ (\E r \in Actions : Moves(r)) \/ SameAlerts
<1>1. ASSUME NEW r \in Requests, NEW w \in Workers, Arrive(r, w)
      PROVE  SameAlerts
  BY <1>1 DEF Arrive, FindDuplicate, BeginGenerate, Authorise, SameAlerts
<1>2. ASSUME NEW r \in Requests, Proceed(r)
      PROVE  (r \in Generates /\ Raises(r)) \/ (r \in Actions /\ Moves(r)) \/ SameAlerts
  <2>1. CASE r \in Generates /\ InsertAlert(r)
    BY <2>1, InsertRaises
  <2>2. CASE r \in Actions /\ (ReadAlert(r) \/ MoveAlert(r))
    BY <2>2 DEF Moves, ReadAlert, SameAlerts
  <2> QED
    BY <1>2, <2>1, <2>2 DEF Proceed
<1>3. ASSUME NEW r \in Requests, DatabaseFault(r)
      PROVE  SameAlerts
  BY <1>3 DEF DatabaseFault, SameAlerts
<1>4. ASSUME NEW w \in Workers, Crash(w)
      PROVE  SameAlerts
  BY <1>4 DEF Crash, SameAlerts
<1>5. UNCHANGED vars => SameAlerts
  BY DEF vars, SameAlerts
<1> QED
  BY <1>1, <1>2, <1>3, <1>4, <1>5 DEF Next, Rest

(* The index, not the worker's loop, keeps one ACTIVE alert per emergency. *)
LEMMA OneActiveStep ==
  TypeOK /\ HandlerInv /\ OneActivePerFingerprint /\ [Next]_vars => OneActivePerFingerprint'
<1> SUFFICES ASSUME TypeOK, HandlerInv, OneActivePerFingerprint, [Next]_vars
             PROVE  OneActivePerFingerprint'
  OBVIOUS
<1>1. ASSUME NEW r \in Generates, Raises(r)
      PROVE  OneActivePerFingerprint'
  <2>1. /\ Raised' = Raised \cup {r} /\ alert'[r] = NewRow(req[r].fingerprint)
        /\ \A a \in Generates : a # r => alert'[a] = alert[a]
        /\ Raised \subseteq Generates
    BY <1>1, RaisesFacts DEF Raised
  <2>2. alert'[r].fingerprint = req[r].fingerprint
    BY <2>1 DEF NewRow
  <2>3. \A a \in Generates : alert[a].fingerprint = req[r].fingerprint => alert[a].status # "ACTIVE"
    BY <1>1 DEF Raises, Admits
  <2> QED
    BY <2>1, <2>2, <2>3 DEF OneActivePerFingerprint
<1>2. ASSUME NEW r \in Actions, Moves(r)
      PROVE  OneActivePerFingerprint'
  <2>1. /\ Raised' = Raised /\ req[r].goal \in Goals
        /\ alert'[req[r].target].status = req[r].goal
        /\ \A a \in Generates : a # req[r].target => alert'[a] = alert[a]
        /\ Raised \subseteq Generates
    BY <1>2, MovesFacts DEF Raised
  <2>2. alert'[req[r].target].status # "ACTIVE"
    BY <2>1 DEF Goals
  <2> QED
    BY <2>1, <2>2 DEF OneActivePerFingerprint
<1>3. SameAlerts => OneActivePerFingerprint'
  BY DEF SameAlerts, OneActivePerFingerprint, Raised
<1> QED
  BY <1>1, <1>2, <1>3, AlertStep

(* Whatever officials do meanwhile, and however many workers look for a      *)
(* duplicate at once, an emergency has at most one ACTIVE alert.             *)
THEOREM OneActive == Spec => []OneActivePerFingerprint
<1>1. Init => OneActivePerFingerprint
  BY DEF Init, OneActivePerFingerprint, Raised, NoRow
<1> QED
  BY <1>1, OneActiveStep, TypeCorrect, PTL DEF Spec

\* What x was answered 200 for, if it was, it was answered before this step.
AnswerKept(x) ==
  req'[x].reply = 200 => /\ req[x].reply = 200
                         /\ req'[x].target = req[x].target
                         /\ req'[x].user = req[x].user
                         /\ req'[x].goal = req[x].goal

(* A step of one handler to a record that does not answer 200 answers nobody. *)
LEMMA OneHandlerAnswers ==
  ASSUME TypeOK, NEW r \in Requests, NEW q, q.reply # 200, req' = [req EXCEPT ![r] = q]
  PROVE  \A x \in Actions : AnswerKept(x)
<1>1. \A x \in Actions : x \in Requests /\ (x = r => req'[x] = q) /\ (x # r => req'[x] = req[x])
  BY DEF TypeOK, Requests
<1> QED
  BY <1>1 DEF AnswerKept

(* An official is answered 200 by MoveAlert only. *)
LEMMA OnlyMovesAnswer ==
  ASSUME TypeOK, HandlerInv, [Next]_vars
  PROVE  \A x \in Actions : AnswerKept(x) \/ Moves(x)
<1>1. ASSUME NEW r \in Requests, NEW n \in Replies, n # 200, NEW a \in Generates \cup {None},
             Active(r), Answer(r, a, n)
      PROVE  \A x \in Actions : AnswerKept(x)
  <2> DEFINE q == Answered(req[r], a, n)
  <2>1. q.reply # 200
    BY <1>1, HandlerFacts, AnswerFields
  <2>2. req' = [req EXCEPT ![r] = q]
    BY <1>1 DEF Answer, Answered
  <2> HIDE DEF q
  <2> QED
    BY <2>1, <2>2, OneHandlerAnswers
<1>2. ASSUME NEW r \in Generates, NEW w \in Workers, NEW f \in Fingerprints,
             FindDuplicate(r, w, f) \/ BeginGenerate(r, w, f)
      PROVE  \A x \in Actions : AnswerKept(x)
  <2>1. \A x \in Actions : x \in Requests /\ x # r
    BY AlertAssumption DEF Requests
  <2>2. \A x \in Actions : req'[x] = req[x]
    BY <1>2, <2>1 DEF FindDuplicate, BeginGenerate, TypeOK
  <2> QED
    BY <2>2 DEF AnswerKept
<1>3. ASSUME NEW r \in Actions, NEW w \in Workers, NEW u \in Officials, NEW a \in Raised,
             NEW goal \in Goals, Authorise(r, w, u, a, goal)
      PROVE  \A x \in Actions : AnswerKept(x)
  <2> DEFINE q == [Idle EXCEPT !.phase = "authorised", !.worker = w, !.user = u,
                               !.target = a, !.goal = goal]
  <2>1. q.reply # 200
    BY DEF Idle
  <2>2. req' = [req EXCEPT ![r] = q] /\ r \in Requests
    BY <1>3 DEF Authorise, Requests
  <2> HIDE DEF q
  <2> QED
    BY <2>1, <2>2, OneHandlerAnswers
<1>4. ASSUME NEW r \in Generates, InsertAlert(r)
      PROVE  \A x \in Actions : AnswerKept(x)
  <2>1. /\ Active(r) /\ r \in Requests /\ 201 \in Replies /\ 500 \in Replies
        /\ Answer(r, r, 201) \/ Answer(r, None, 500)
    BY <1>4 DEF InsertAlert, Active, Requests, Replies
  <2> QED
    BY <1>1, <2>1
<1>5. ASSUME NEW r \in Actions, ReadAlert(r)
      PROVE  \A x \in Actions : AnswerKept(x)
  <2>1. Active(r) /\ r \in Requests /\ 409 \in Replies
    BY <1>5 DEF ReadAlert, Active, Requests, Replies
  <2>2. /\ req[r] \in Handler /\ req[r].target \in Generates /\ alert[req[r].target] \in Row
    BY <2>1, HandlerFacts
  <2> DEFINE q == [req[r] EXCEPT !.phase = "read", !.seen = alert[req[r].target]]
  <2>3. CASE req' = [req EXCEPT ![r] = q]
    <3>1. /\ q.reply = req[r].reply /\ q.target = req[r].target
          /\ q.user = req[r].user /\ q.goal = req[r].goal
      BY <2>2, ReadFields
    <3> HIDE DEF q
    <3>2. \A x \in Actions : /\ x = r => req'[x] = q
                             /\ x # r => req'[x] = req[x]
      BY <2>1, <2>3 DEF TypeOK, Requests
    <3> QED
      BY <3>1, <3>2 DEF AnswerKept
  <2>4. CASE Answer(r, req[r].target, 409)
    BY <1>1, <2>1, <2>2, <2>4
  <2> QED
    BY <1>5, <2>3, <2>4 DEF ReadAlert
<1>6. ASSUME NEW r \in Actions, MoveAlert(r)
      PROVE  \A x \in Actions : AnswerKept(x) \/ Moves(x)
  <2>1. Moves(r)
    BY <1>6 DEF Moves, Requests
  <2>2. \A x \in Actions : x # r => req'[x] = req[x]
    BY <1>6 DEF MoveAlert, Answer, TypeOK, Requests
  <2> QED
    BY <2>1, <2>2 DEF AnswerKept
<1>7. ASSUME NEW r \in Requests, DatabaseFault(r)
      PROVE  \A x \in Actions : AnswerKept(x)
  <2>1. Active(r) /\ Answer(r, req[r].target, 500) /\ 500 \in Replies
    BY <1>7 DEF DatabaseFault, Replies
  <2>2. req[r].target \in Generates \cup {None}
    BY DEF TypeOK, Handler
  <2> QED
    BY <1>1, <2>1, <2>2
<1>8. ASSUME NEW w \in Workers, Crash(w)
      PROVE  \A x \in Actions : AnswerKept(x)
  <2>1. \A x \in Actions : x \in Requests
    BY DEF Requests
  <2> QED
    BY <1>8, <2>1, CrashFacts DEF AnswerKept
<1>9. UNCHANGED vars => \A x \in Actions : AnswerKept(x)
  BY DEF vars, AnswerKept
<1>10. ASSUME NEW r \in Requests, NEW w \in Workers, Arrive(r, w)
       PROVE  \A x \in Actions : AnswerKept(x)
  BY <1>2, <1>3, <1>10 DEF Arrive
<1>11. ASSUME NEW r \in Requests, Proceed(r)
       PROVE  \A x \in Actions : AnswerKept(x) \/ Moves(x)
  BY <1>4, <1>5, <1>6, <1>11 DEF Proceed
<1> QED
  BY <1>7, <1>8, <1>9, <1>10, <1>11 DEF Next, Rest

(* An alert's trail never loses a row. *)
LEMMA TrailGrows ==
  ASSUME TypeOK, HandlerInv, [Next]_vars, NEW a \in Raised
  PROVE  \A i \in DOMAIN audits[a] : i \in DOMAIN audits'[a] /\ audits'[a][i] = audits[a][i]
<1>1. a \in Generates /\ audits[a] \in Seq(AuditRow)
  BY DEF Raised, TypeOK
<1>2. ASSUME NEW r \in Generates, Raises(r)
      PROVE  audits'[a] = audits[a]
  BY <1>1, <1>2, RaisesFacts
<1>3. ASSUME NEW r \in Actions, Moves(r)
      PROVE  \A i \in DOMAIN audits[a] : i \in DOMAIN audits'[a] /\ audits'[a][i] = audits[a][i]
  <2>1. CASE a # req[r].target
    BY <1>1, <1>3, <2>1, MovesFacts
  <2>2. CASE a = req[r].target
    <3>1. audits'[a] = Append(audits[a], Recorded(req[r])) /\ Recorded(req[r]) \in AuditRow
      BY <1>3, <2>2, MovesFacts
    <3> QED
      BY <1>1, <3>1
  <2> QED
    BY <2>1, <2>2
<1>4. SameAlerts => audits'[a] = audits[a]
  BY DEF SameAlerts
<1> QED
  BY <1>2, <1>3, <1>4, AlertStep

(* Whatever other workers do, an official who was answered 200 is in the     *)
(* alert's trail, and stays there.                                           *)
THEOREM AnsweredStaysAudited == Spec => []AnsweredIsAudited
<1>1. Init => AnsweredIsAudited
  BY DEF Init, AnsweredIsAudited, Idle, Requests
<1>2. TypeOK /\ HandlerInv /\ AnsweredIsAudited /\ [Next]_vars => AnsweredIsAudited'
  <2> SUFFICES ASSUME TypeOK, HandlerInv, AnsweredIsAudited, [Next]_vars,
                      NEW x \in Actions, req'[x].reply = 200
               PROVE  \E i \in DOMAIN audits'[req'[x].target] :
                        /\ audits'[req'[x].target][i].by = req'[x].user
                        /\ audits'[req'[x].target][i].action = req'[x].goal
    BY DEF AnsweredIsAudited
  <2>1. CASE AnswerKept(x)
    <3>1. /\ req[x].reply = 200 /\ req'[x].target = req[x].target
          /\ req'[x].user = req[x].user /\ req'[x].goal = req[x].goal
      BY <2>1 DEF AnswerKept
    <3>2. req[x].target \in Raised
      BY <3>1 DEF HandlerInv, Idle, Requests
    <3>3. PICK i \in DOMAIN audits[req[x].target] :
            /\ audits[req[x].target][i].by = req[x].user
            /\ audits[req[x].target][i].action = req[x].goal
      BY <3>1 DEF AnsweredIsAudited
    <3> QED
      BY <3>1, <3>2, <3>3, TrailGrows
  <2>2. CASE Moves(x)
    <3> DEFINE a == req[x].target
    <3>1. /\ a \in Generates
          /\ audits'[a] = Append(audits[a], Recorded(req[x]))
          /\ Recorded(req[x]) \in AuditRow
          /\ Recorded(req[x]).by = req[x].user /\ Recorded(req[x]).action = req[x].goal
      BY <2>2, MovesFacts
    <3>2. audits[a] \in Seq(AuditRow)
      BY <3>1 DEF TypeOK
    <3>3. /\ Len(audits[a]) + 1 \in DOMAIN audits'[a]
          /\ audits'[a][Len(audits[a]) + 1] = Recorded(req[x])
      BY <3>1, <3>2
    <3>4. req'[x].target = a /\ req'[x].user = req[x].user /\ req'[x].goal = req[x].goal
      <4>1. Answer(x, a, 200) /\ 200 \in Replies /\ x \in Requests /\ Active(x)
        BY <2>2, MovesFacts DEF Moves, MoveAlert, Replies
      <4>2. req' = [req EXCEPT ![x] = Answered(req[x], a, 200)]
        BY <4>1 DEF Answer, Answered
      <4>3. req[x] \in Handler
        BY <4>1, HandlerFacts
      <4>4. req'[x] = Answered(req[x], a, 200)
        BY <4>1, <4>2 DEF TypeOK
      <4> QED
        BY <3>1, <4>1, <4>3, <4>4, AnswerFields
    <3> QED
      BY <3>1, <3>3, <3>4
  <2> QED
    BY <2>1, <2>2, OnlyMovesAnswer
<1> QED
  BY <1>1, <1>2, TypeCorrect, PTL DEF Spec

-----------------------------------------------------------------------------
(* One worker: the table, the trail, the board.                            *)

(***************************************************************************)
(* With one worker, what a handler has read is still so when it writes.    *)
(***************************************************************************)

InSection(q) == q.phase \in {"looked", "read"}

\* In the next state, the emergency has no ACTIVE alert.
StaysFree(f) == \A a \in Generates : alert'[a].fingerprint = f => alert'[a].status # "ACTIVE"

\* What SectionInv says of a handler of r that has become q.
SectionKept(r, q) ==
  /\ InSection(q) => loop'[q.worker] = r
  /\ q.phase = "looked" => StaysFree(q.fingerprint)
  /\ q.phase = "read" => q.seen = alert'[q.target] /\ MayMove(q.seen.status, q.goal)

(* While one handler may run, no other handler is in a section. *)
LEMMA OthersOutside ==
  ASSUME OneWorker, HandlerInv, SectionInv, NEW r \in Requests, NEW w \in Workers,
         loop[w] \in {None, r}
  PROVE  \A x \in Requests : x # r => ~InSection(req[x])
<1> SUFFICES ASSUME NEW x \in Requests, x # r, InSection(req[x])
             PROVE  FALSE
  OBVIOUS
<1>1. req[x].worker = w
  BY DEF OneWorker, HandlerInv, InSection, Active
<1>2. loop[w] = x
  BY <1>1 DEF SectionInv, InSection
<1> QED
  BY <1>2, AlertAssumption

(* A step of one handler, while no other is in a section, keeps SectionInv. *)
LEMMA SectionStep ==
  ASSUME OneWorker, TypeOK, HandlerInv, SectionInv, NEW r \in Requests, NEW w \in Workers,
         loop[w] \in {None, r}, NEW q, req' = [req EXCEPT ![r] = q], SectionKept(r, q)
  PROVE  SectionInv'
<1>1. \A x \in Requests : x # r => ~InSection(req[x])
  BY OthersOutside
<1>2. req'[r] = q /\ \A x \in Requests : x # r => ~InSection(req'[x])
  BY <1>1 DEF TypeOK
<1>3. ASSUME NEW x \in Requests
      PROVE  /\ InSection(req'[x]) => loop'[req'[x].worker] = x
             /\ req'[x].phase = "looked" => StaysFree(req'[x].fingerprint)
             /\ req'[x].phase = "read" => /\ req'[x].seen = alert'[req'[x].target]
                                          /\ MayMove(req'[x].seen.status, req'[x].goal)
  BY <1>2 DEF SectionKept, InSection
<1> QED
  BY <1>3 DEF SectionInv, InSection, StaysFree, Admits

(* An answer leaves the section. *)
LEMMA AnswerSection ==
  ASSUME OneWorker, TypeOK, HandlerInv, SectionInv, NEW r \in Requests, Active(r), MayRun(r),
         NEW a \in Generates \cup {None}, NEW n \in Replies, Answer(r, a, n)
  PROVE  SectionInv'
<1> DEFINE q == Answered(req[r], a, n)
<1>1. req[r].worker \in Workers /\ loop[req[r].worker] \in {None, r} /\ req[r] \in Handler
  BY HandlerFacts DEF MayRun
<1>2. q.phase = "done"
  BY <1>1, AnswerFields
<1>3. req' = [req EXCEPT ![r] = q]
  BY DEF Answer, Answered
<1> HIDE DEF q
<1>4. SectionKept(r, q)
  BY <1>2 DEF SectionKept, InSection
<1> QED
  BY <1>1, <1>3, <1>4, SectionStep

LEMMA ArriveSection ==
  ASSUME OneWorker, TypeOK, HandlerInv, SectionInv, NEW r \in Requests, NEW w \in Workers,
         Arrive(r, w)
  PROVE  SectionInv'
<1>1. loop[w] \in {None, r}
  BY DEF Arrive, FindDuplicate, BeginGenerate, Authorise
<1>2. PICK q : req' = [req EXCEPT ![r] = q] /\ SectionKept(r, q)
  <2>1. ASSUME NEW f \in Fingerprints, FindDuplicate(r, w, f)
        PROVE  \E q : req' = [req EXCEPT ![r] = q] /\ SectionKept(r, q)
    <3> DEFINE d(a) == [Idle EXCEPT !.phase = "done", !.worker = w, !.target = a,
                                    !.fingerprint = f, !.reply = 201]
    <3>1. PICK a \in Generates : req' = [req EXCEPT ![r] = d(a)]
      BY <2>1 DEF FindDuplicate, find_active_duplicate
    <3>2. d(a).phase = "done"
      BY DEF Idle
    <3> HIDE DEF d
    <3>3. SectionKept(r, d(a))
      BY <3>2 DEF SectionKept, InSection
    <3> QED
      BY <3>1, <3>3
  <2>2. ASSUME NEW f \in Fingerprints, BeginGenerate(r, w, f)
        PROVE  \E q : req' = [req EXCEPT ![r] = q] /\ SectionKept(r, q)
    <3> DEFINE b == [Idle EXCEPT !.phase = "looked", !.worker = w, !.fingerprint = f]
    <3>1. b.phase = "looked" /\ b.worker = w /\ b.fingerprint = f
      BY DEF Idle
    <3>2. req' = [req EXCEPT ![r] = b] /\ loop' = [loop EXCEPT ![w] = r] /\ alert' = alert
      BY <2>2 DEF BeginGenerate
    <3> HIDE DEF b
    <3>3. StaysFree(f)
      BY <2>2 DEF StaysFree, BeginGenerate, find_active_duplicate
    <3>4. SectionKept(r, b)
      BY <3>1, <3>2, <3>3 DEF SectionKept, TypeOK
    <3> QED
      BY <3>2, <3>4
  <2>3. ASSUME NEW u \in Officials, NEW a \in Raised, NEW goal \in Goals,
               Authorise(r, w, u, a, goal)
        PROVE  \E q : req' = [req EXCEPT ![r] = q] /\ SectionKept(r, q)
    <3> DEFINE q == [Idle EXCEPT !.phase = "authorised", !.worker = w, !.user = u,
                                 !.target = a, !.goal = goal]
    <3>1. q.phase = "authorised" /\ req' = [req EXCEPT ![r] = q]
      BY <2>3 DEF Idle, Authorise
    <3> HIDE DEF q
    <3>2. SectionKept(r, q)
      BY <3>1 DEF SectionKept, InSection
    <3> QED
      BY <3>1, <3>2
  <2> QED
    BY <2>1, <2>2, <2>3 DEF Arrive
<1> QED
  BY <1>1, <1>2, SectionStep

LEMMA ReadSection ==
  ASSUME OneWorker, TypeOK, HandlerInv, SectionInv, NEW r \in Actions, ReadAlert(r)
  PROVE  SectionInv'
<1>1. r \in Requests /\ Active(r) /\ MayRun(r) /\ alert' = alert /\ 409 \in Replies
  BY DEF ReadAlert, Active, Requests, Replies
<1>2. /\ req[r] \in Handler /\ req[r].worker \in Workers /\ req[r].target \in Generates
      /\ alert[req[r].target] \in Row
  BY <1>1, HandlerFacts
<1> DEFINE q == [req[r] EXCEPT !.phase = "read", !.seen = alert[req[r].target]]
<1>3. CASE /\ MayMove(alert[req[r].target].status, req[r].goal)
           /\ req' = [req EXCEPT ![r] = q]
           /\ loop' = [loop EXCEPT ![req[r].worker] = r]
  <2>1. /\ q.phase = "read" /\ q.worker = req[r].worker /\ q.target = req[r].target
        /\ q.seen = alert[req[r].target] /\ q.goal = req[r].goal
    BY <1>2, ReadFields
  <2> HIDE DEF q
  <2>2. SectionKept(r, q)
    BY <1>1, <1>2, <1>3, <2>1 DEF SectionKept, TypeOK
  <2> QED
    BY <1>1, <1>2, <1>3, <2>2, SectionStep DEF MayRun
<1>4. CASE Answer(r, req[r].target, 409)
  BY <1>1, <1>2, <1>4, AnswerSection
<1> QED
  BY <1>3, <1>4 DEF ReadAlert

LEMMA CrashSection ==
  ASSUME OneWorker, TypeOK, HandlerInv, SectionInv, NEW w \in Workers, Crash(w)
  PROVE  SectionInv'
<1>1. \A x \in Requests : Active(x) => req[x].worker = w
  BY DEF OneWorker, HandlerInv
<1>2. \A x \in Requests : ~InSection(req'[x])
  BY <1>1, CrashFacts DEF InSection, Active
<1> QED
  BY <1>2 DEF SectionInv, InSection

(* With one worker, no step makes stale what a handler relies on. *)
LEMMA SectionNext ==
  ASSUME OneWorker
  PROVE  TypeOK /\ HandlerInv /\ SectionInv /\ [Next]_vars => SectionInv'
<1> SUFFICES ASSUME TypeOK, HandlerInv, SectionInv, [Next]_vars
             PROVE  SectionInv'
  OBVIOUS
<1>1. ASSUME NEW r \in Generates, InsertAlert(r)
      PROVE  SectionInv'
  <2>1. /\ Active(r) /\ r \in Requests /\ MayRun(r) /\ 201 \in Replies /\ 500 \in Replies
        /\ Answer(r, r, 201) \/ Answer(r, None, 500)
    BY <1>1 DEF InsertAlert, Active, Requests, Replies
  <2> QED
    BY <2>1, AnswerSection
<1>2. ASSUME NEW r \in Actions, MoveAlert(r)
      PROVE  SectionInv'
  <2>1. /\ Active(r) /\ r \in Requests /\ MayRun(r) /\ 200 \in Replies
        /\ Answer(r, req[r].target, 200)
    BY <1>2 DEF MoveAlert, Active, Requests, Replies
  <2> QED
    BY <2>1, AnswerSection, HandlerFacts
<1>3. ASSUME NEW r \in Requests, Proceed(r)
      PROVE  SectionInv'
  BY <1>1, <1>2, <1>3, ReadSection DEF Proceed
<1>4. ASSUME NEW r \in Requests, DatabaseFault(r)
      PROVE  SectionInv'
  <2>1. Active(r) /\ MayRun(r) /\ Answer(r, req[r].target, 500) /\ 500 \in Replies
    BY <1>4 DEF DatabaseFault, Replies
  <2>2. req[r].target \in Generates \cup {None}
    BY DEF TypeOK, Handler
  <2> QED
    BY <2>1, <2>2, AnswerSection
<1>5. UNCHANGED vars => SectionInv'
  BY DEF vars, SectionInv, Admits
<1> QED
  BY <1>3, <1>4, <1>5, ArriveSection, CrashSection DEF Next, Rest

(* With one worker process, the inductive invariant holds: nothing a handler *)
(* has read since its last await is stale when it writes.                    *)
THEOREM Inductive == ASSUME OneWorker PROVE Spec => []IInv
<1>1. Init => SectionInv
  BY DEF Init, SectionInv, Idle
<1>2. TypeOK /\ HandlerInv /\ SectionInv /\ [Next]_vars => SectionInv'
  BY SectionNext
<1>3. TypeOK /\ HandlerInv /\ SectionInv => IInv
  BY DEF IInv
<1> QED
  BY <1>1, <1>2, <1>3, TypeCorrect, PTL DEF Spec

(***************************************************************************)
(* What one worker adds.                                                   *)
(***************************************************************************)

(* When a handler writes, the alert is as the handler has read it. *)
LEMMA MovesFresh ==
  ASSUME IInv, NEW r \in Actions, Moves(r)
  PROVE  /\ req[r].seen = alert[req[r].target]
         /\ req[r].goal \in VALID_TRANSITIONS[alert[req[r].target].status]
<1>1. req[r].phase = "read" /\ r \in Requests
  BY DEF Moves, MoveAlert
<1> QED
  BY <1>1 DEF IInv, SectionInv, MayMove

(* With one worker an alert only moves along VALID_TRANSITIONS, whatever     *)
(* several officials ask of it.                                              *)
THEOREM MovesAreLegal == ASSUME OneWorker PROVE Spec => AlertMovesAlongTable
<1>1. IInv /\ [Next]_vars =>
        [\A a \in Raised : \/ alert'[a].status = alert[a].status
                           \/ alert'[a].status \in VALID_TRANSITIONS[alert[a].status]]_alert
  <2> SUFFICES ASSUME IInv, [Next]_vars, NEW a \in Raised
               PROVE  \/ alert'[a].status = alert[a].status
                      \/ alert'[a].status \in VALID_TRANSITIONS[alert[a].status]
    OBVIOUS
  <2>1. a \in Generates
    BY DEF Raised
  <2>2. ASSUME NEW r \in Generates, Raises(r)
        PROVE  alert'[a] = alert[a]
    BY <2>1, <2>2, RaisesFacts DEF IInv
  <2>3. ASSUME NEW r \in Actions, Moves(r)
        PROVE  alert'[a] = alert[a] \/ alert'[a].status \in VALID_TRANSITIONS[alert[a].status]
    BY <2>1, <2>3, MovesFacts, MovesFresh DEF IInv
  <2>4. SameAlerts => alert'[a] = alert[a]
    BY DEF SameAlerts
  <2> QED
    BY <2>2, <2>3, <2>4, AlertStep DEF IInv
<1> QED
  BY <1>1, Inductive, PTL DEF Spec, AlertMovesAlongTable

\* The trail of one alert chains from its creation to its row.
Chains(t, row) ==
  /\ t # <<>> /\ t[1].action = "CREATED"
  /\ \A i \in 2..Len(t) : t[i].prev = t[i - 1].new
  /\ t[Len(t)].new = State(row)

(* A row that records the step from the last state to the next one keeps the *)
(* chain.                                                                    *)
LEMMA ChainGrows ==
  ASSUME NEW t \in Seq(AuditRow), NEW row, NEW next, Chains(t, row),
         NEW e \in AuditRow, e.prev = State(row), e.new = State(next)
  PROVE  Chains(Append(t, e), next)
<1> DEFINE s == Append(t, e)
<1>1. Len(t) \in Nat /\ Len(t) >= 1
  BY DEF Chains
<1>2. /\ s \in Seq(AuditRow) /\ Len(s) = Len(t) + 1 /\ s[Len(t) + 1] = e
      /\ \A i \in 1..Len(t) : s[i] = t[i]
  OBVIOUS
<1> HIDE DEF s
<1>3. s # <<>> /\ s[1].action = "CREATED"
  BY <1>1, <1>2 DEF Chains
<1>4. ASSUME NEW i \in 2..Len(s)
      PROVE  s[i].prev = s[i - 1].new
  <2>1. CASE i <= Len(t)
    <3>1. i \in 2..Len(t) /\ s[i] = t[i] /\ s[i - 1] = t[i - 1]
      BY <1>1, <1>2, <2>1
    <3> QED
      BY <3>1 DEF Chains
  <2>2. CASE i = Len(t) + 1
    <3>1. s[i] = e /\ s[i - 1] = t[Len(t)]
      BY <1>1, <1>2, <2>2
    <3> QED
      BY <3>1 DEF Chains
  <2> QED
    BY <1>1, <1>2, <2>1, <2>2
<1>5. s[Len(s)].new = State(next)
  BY <1>2
<1>6. Chains(s, next)
  BY <1>3, <1>4, <1>5 DEF Chains
<1> QED
  BY <1>6 DEF s

(* With one worker the trail of an alert chains from its creation to what    *)
(* its columns say: no audit row is made from a stale alert.                 *)
THEOREM TrailIsComplete == ASSUME OneWorker PROVE Spec => []TrailMatchesRow
<1>1. Init => TrailMatchesRow
  BY DEF Init, TrailMatchesRow, Raised, NoRow
<1>2. IInv /\ TrailMatchesRow /\ [Next]_vars => TrailMatchesRow'
  <2> SUFFICES ASSUME IInv, TrailMatchesRow, [Next]_vars
               PROVE  TrailMatchesRow'
    OBVIOUS
  <2>1. \A a \in Raised : Chains(audits[a], alert[a])
    BY DEF TrailMatchesRow, Chains
  <2>2. ASSUME NEW r \in Generates, Raises(r)
        PROVE  \A a \in Raised' : Chains(audits'[a], alert'[a])
    <3>1. /\ req[r].fingerprint \in Fingerprints
          /\ alert'[r] = NewRow(req[r].fingerprint)
          /\ audits'[r] = <<Creation(req[r].fingerprint)>>
          /\ Raised' = Raised \cup {r}
          /\ \A a \in Generates : a # r => alert'[a] = alert[a] /\ audits'[a] = audits[a]
      BY <2>2, RaisesFacts DEF IInv
    <3>2. /\ Creation(req[r].fingerprint).action = "CREATED"
          /\ Creation(req[r].fingerprint).new = State(alert'[r])
      BY <3>1, NewRowTyped
    <3>3. Chains(audits'[r], alert'[r])
      BY <3>1, <3>2 DEF Chains
    <3>4. Raised \subseteq Generates
      BY DEF Raised
    <3> QED
      BY <2>1, <3>1, <3>3, <3>4
  <2>3. ASSUME NEW r \in Actions, Moves(r)
        PROVE  \A a \in Raised' : Chains(audits'[a], alert'[a])
    <3> DEFINE q == req[r]
               b == q.target
    <3>1. /\ b \in Generates /\ b \in Raised /\ Raised' = Raised /\ Recorded(q) \in AuditRow
          /\ alert'[b] = Moved(alert[b], q.goal, q.user)
          /\ audits'[b] = Append(audits[b], Recorded(q))
          /\ \A a \in Generates : a # b => alert'[a] = alert[a] /\ audits'[a] = audits[a]
      BY <2>3, MovesFacts DEF IInv
    <3>2. Recorded(q).prev = State(alert[b]) /\ Recorded(q).new = State(alert'[b])
      BY <2>3, <3>1, MovesFresh DEF Recorded
    <3>3. audits[b] \in Seq(AuditRow)
      BY <3>1 DEF IInv, TypeOK
    <3>4. Chains(audits'[b], alert'[b])
      BY <2>1, <3>1, <3>2, <3>3, ChainGrows
    <3>5. Raised \subseteq Generates
      BY DEF Raised
    <3> QED
      BY <2>1, <3>1, <3>4, <3>5
  <2>4. SameAlerts => \A a \in Raised' : Chains(audits'[a], alert'[a])
    BY <2>1 DEF SameAlerts, Raised
  <2>5. \A a \in Raised' : Chains(audits'[a], alert'[a])
    BY <2>2, <2>3, <2>4, AlertStep DEF IInv
  <2> QED
    BY <2>5 DEF TrailMatchesRow, Chains
<1> QED
  BY <1>1, <1>2, Inductive, PTL DEF Spec

\* The audit row of a resolution or a dismissal.
Closing(e) == e.action \in {"RESOLVED", "DISMISSED"}

\* One alert credits who is in its trail, and closes once.
Credits(t, row) ==
  /\ row.status \in {"ACTIVE", "ACKNOWLEDGED"} => \A i \in DOMAIN t : ~Closing(t[i])
  /\ \A i, j \in DOMAIN t : Closing(t[i]) /\ Closing(t[j]) => i = j
  /\ \A i \in DOMAIN t : Closing(t[i]) => t[i].by = row.resolved_by
  /\ row.acknowledged_by # None =>
       \E i \in DOMAIN t : t[i].action = "ACKNOWLEDGED" /\ t[i].by = row.acknowledged_by

(* A transition credits the official who made it, in the columns of its goal. *)
LEMMA MovedCredits ==
  ASSUME NEW row \in Row, NEW goal \in Goals, NEW u \in Officials
  PROVE  /\ Moved(row, goal, u).acknowledged_by =
              IF goal = "ACKNOWLEDGED" THEN u ELSE row.acknowledged_by
         /\ Moved(row, goal, u).resolved_by =
              IF goal = "ACKNOWLEDGED" THEN row.resolved_by ELSE u
<1> DEFINE m1 == [row EXCEPT !.status = goal]
           m2 == [m1 EXCEPT !.acknowledged_by = u]
           m3 == [m1 EXCEPT !.resolved_by = u]
<1>1. m1 \in Row /\ m1.acknowledged_by = row.acknowledged_by /\ m1.resolved_by = row.resolved_by
  BY DEF Row, Goals
<1> HIDE DEF m1
<1>2. m2.acknowledged_by = u /\ m2.resolved_by = row.resolved_by
  BY <1>1 DEF Row
<1>3. m3.acknowledged_by = row.acknowledged_by /\ m3.resolved_by = u
  BY <1>1 DEF Row
<1>4. Moved(row, goal, u) = IF goal = "ACKNOWLEDGED" THEN m2 ELSE m3
  BY Zenon DEF Moved, m2, m3, m1
<1> HIDE DEF m2, m3
<1> QED
  BY <1>2, <1>3, <1>4

(* A legal transition by u, recorded as made by u, keeps the credit. *)
LEMMA CreditGrows ==
  ASSUME NEW t \in Seq(AuditRow), NEW row \in Row, Credits(t, row),
         NEW goal \in Goals, NEW u \in Officials, row.status \in AlertStatus,
         goal \in VALID_TRANSITIONS[row.status],
         NEW e \in AuditRow, e.action = goal, e.by = u
  PROVE  Credits(Append(t, e), Moved(row, goal, u))
<1> DEFINE s == Append(t, e)
           m == Moved(row, goal, u)
           n == Len(t) + 1
<1>1. /\ DOMAIN s = 1..n /\ n \in Nat \ {0} /\ s[n] = e /\ DOMAIN t = 1..Len(t)
      /\ \A i \in 1..Len(t) : s[i] = t[i]
  OBVIOUS
<1>2. /\ m.status = goal
      /\ m.acknowledged_by = IF goal = "ACKNOWLEDGED" THEN u ELSE row.acknowledged_by
      /\ m.resolved_by = IF goal = "ACKNOWLEDGED" THEN row.resolved_by ELSE u
  BY MovedFields, MovedCredits
<1>3. row.status \in {"ACTIVE", "ACKNOWLEDGED"}
  BY DEF AlertStatus, VALID_TRANSITIONS
<1>4. \A i \in 1..Len(t) : ~Closing(t[i])
  BY <1>1, <1>3 DEF Credits
<1> HIDE DEF s, m, n
<1>5. \A i \in DOMAIN s : Closing(s[i]) => i = n
  <2> SUFFICES ASSUME NEW i \in 1..n, i # n PROVE ~Closing(s[i])
    BY <1>1
  <2>1. i \in 1..Len(t)
    BY <1>1 DEF n
  <2> QED
    BY <1>1, <1>4, <2>1
<1>6. m.status \in {"ACTIVE", "ACKNOWLEDGED"} => \A i \in DOMAIN s : ~Closing(s[i])
  BY <1>1, <1>2, <1>5 DEF Closing
<1>7. \A i \in DOMAIN s : Closing(s[i]) => s[i].by = m.resolved_by
  BY <1>1, <1>2, <1>5 DEF Closing
<1>8. ASSUME m.acknowledged_by # None
      PROVE  \E i \in DOMAIN s : s[i].action = "ACKNOWLEDGED" /\ s[i].by = m.acknowledged_by
  <2>1. CASE goal = "ACKNOWLEDGED"
    <3>1. n \in DOMAIN s
      BY <1>1
    <3> QED
      BY <1>1, <1>2, <2>1, <3>1
  <2>2. CASE goal # "ACKNOWLEDGED"
    <3>1. PICK i \in DOMAIN t : t[i].action = "ACKNOWLEDGED" /\ t[i].by = row.acknowledged_by
      BY <1>2, <1>8, <2>2 DEF Credits
    <3>2. i \in 1..Len(t)
      BY <1>1, <3>1
    <3>3. i \in DOMAIN s /\ s[i] = t[i]
      BY <1>1, <3>2 DEF n
    <3> QED
      BY <1>2, <2>2, <3>1, <3>3
  <2> QED
    BY <2>1, <2>2
<1>9. Credits(s, m)
  BY <1>5, <1>6, <1>7, <1>8 DEF Credits
<1> QED
  BY <1>9 DEF s, m

(* With one worker an alert is closed by one official at most, and who its   *)
(* columns credit is who its trail names.                                    *)
THEOREM CreditIsDue == ASSUME OneWorker PROVE Spec => []CreditMatchesTrail
<1> DEFINE Credited == \A a \in Raised : Credits(audits[a], alert[a])
<1>1. Init => Credited
  BY DEF Init, Raised, NoRow
<1>2. IInv /\ Credited /\ [Next]_vars => Credited'
  <2> SUFFICES ASSUME IInv, Credited, [Next]_vars
               PROVE  Credited'
    OBVIOUS
  <2>1. ASSUME NEW r \in Generates, Raises(r)
        PROVE  \A a \in Raised' : Credits(audits'[a], alert'[a])
    <3>1. /\ alert'[r] = NewRow(req[r].fingerprint)
          /\ audits'[r] = <<Creation(req[r].fingerprint)>>
          /\ Raised' = Raised \cup {r}
          /\ \A a \in Generates : a # r => alert'[a] = alert[a] /\ audits'[a] = audits[a]
      BY <2>1, RaisesFacts DEF IInv
    <3>2. ~Closing(Creation(req[r].fingerprint)) /\ alert'[r].acknowledged_by = None
      BY <3>1 DEF Closing, Creation, NewRow
    <3>3. DOMAIN audits'[r] = {1} /\ audits'[r][1] = Creation(req[r].fingerprint)
      BY <3>1
    <3>4. Credits(audits'[r], alert'[r])
      BY <3>2, <3>3 DEF Credits
    <3>5. Raised \subseteq Generates
      BY DEF Raised
    <3> QED
      BY <3>1, <3>4, <3>5
  <2>2. ASSUME NEW r \in Actions, Moves(r)
        PROVE  \A a \in Raised' : Credits(audits'[a], alert'[a])
    <3> DEFINE q == req[r]
               b == q.target
    <3>1. /\ b \in Generates /\ b \in Raised /\ Raised' = Raised /\ Recorded(q) \in AuditRow
          /\ q.goal \in Goals /\ q.user \in Officials
          /\ Recorded(q).by = q.user /\ Recorded(q).action = q.goal
          /\ alert'[b] = Moved(alert[b], q.goal, q.user)
          /\ audits'[b] = Append(audits[b], Recorded(q))
          /\ \A a \in Generates : a # b => alert'[a] = alert[a] /\ audits'[a] = audits[a]
      BY <2>2, MovesFacts DEF IInv
    <3>2. /\ audits[b] \in Seq(AuditRow) /\ alert[b] \in Row
          /\ alert[b].status \in AlertStatus
      BY <3>1 DEF IInv, TypeOK, Raised, Row
    <3>3. q.goal \in VALID_TRANSITIONS[alert[b].status]
      BY <2>2, MovesFresh
    <3>4. Credits(audits[b], alert[b])
      BY <3>1
    <3> HIDE DEF q, b
    <3>5. Credits(audits'[b], alert'[b])
      BY <3>1, <3>2, <3>3, <3>4, CreditGrows
    <3>6. Raised \subseteq Generates
      BY DEF Raised
    <3> QED
      BY <3>1, <3>5, <3>6
  <2>3. SameAlerts => \A a \in Raised' : Credits(audits'[a], alert'[a])
    BY DEF SameAlerts, Raised
  <2>4. \A a \in Raised' : Credits(audits'[a], alert'[a])
    BY <2>1, <2>2, <2>3, AlertStep DEF IInv
  <2> QED
    BY <2>4
<1>3. Credited => CreditMatchesTrail
  <2> SUFFICES ASSUME NEW a \in Raised, Credits(audits[a], alert[a])
               PROVE  LET t == audits[a]
                          closings == {i \in DOMAIN t : t[i].action \in {"RESOLVED", "DISMISSED"}}
                      IN /\ Cardinality(closings) <= 1
                         /\ \A i \in closings : t[i].by = alert[a].resolved_by
                         /\ alert[a].acknowledged_by # None =>
                              \E i \in DOMAIN t : /\ t[i].action = "ACKNOWLEDGED"
                                                  /\ t[i].by = alert[a].acknowledged_by
    BY DEF CreditMatchesTrail
  <2> DEFINE t == audits[a]
             closings == {i \in DOMAIN t : t[i].action \in {"RESOLVED", "DISMISSED"}}
  <2>1. Cardinality(closings) <= 1
    <3>1. \A i, j \in closings : i = j
      BY DEF Credits, Closing
    <3> HIDE DEF closings
    <3>2. CASE closings = {}
      <4>1. Cardinality(closings) = 0
        BY Zenon, <3>2, FS_EmptySet
      <4> QED
        BY <4>1
    <3>3. CASE closings # {}
      <4>1. PICK i \in closings : closings = {i}
        BY <3>1, <3>3
      <4>2. Cardinality(closings) = 1
        BY Zenon, <4>1, FS_Singleton
      <4> QED
        BY <4>2
    <3> QED
      BY <3>2, <3>3
  <2> QED
    BY <2>1 DEF Credits, Closing
<1> QED
  BY <1>1, <1>2, <1>3, Inductive, PTL DEF Spec

\* x has been answered with an alert of its own emergency.
AnsweredWell(x) ==
  /\ req[x].reply = 201
  /\ req[x].target \in Raised
  /\ alert[req[x].target].fingerprint = req[x].fingerprint

(* An alert stays, and stays an alert of its emergency. *)
LEMMA EmergencyKept ==
  ASSUME IInv, [Next]_vars, NEW a \in Raised
  PROVE  a \in Raised' /\ alert'[a].fingerprint = alert[a].fingerprint
<1>1. a \in Generates
  BY DEF Raised
<1>2. ASSUME NEW r \in Generates, Raises(r)
      PROVE  a \in Raised' /\ alert'[a] = alert[a]
  BY <1>1, <1>2, RaisesFacts DEF IInv
<1>3. ASSUME NEW r \in Actions, Moves(r)
      PROVE  a \in Raised' /\ alert'[a].fingerprint = alert[a].fingerprint
  BY <1>1, <1>3, MovesFacts DEF IInv
<1>4. SameAlerts => a \in Raised' /\ alert'[a] = alert[a]
  BY DEF SameAlerts, Raised
<1> QED
  BY <1>2, <1>3, <1>4, AlertStep DEF IInv

(* The select finds an alert of the emergency, and it is the answer. *)
LEMMA DuplicateAnswers ==
  ASSUME TypeOK, NEW r \in Generates, NEW w \in Workers, NEW f \in Fingerprints,
         FindDuplicate(r, w, f)
  PROVE  AnsweredWell(r)'
<1> DEFINE d(a) == [Idle EXCEPT !.phase = "done", !.worker = w, !.target = a,
                                !.fingerprint = f, !.reply = 201]
<1>1. PICK a \in find_active_duplicate(f) : req' = [req EXCEPT ![r] = d(a)]
  BY DEF FindDuplicate
<1>2. a \in Raised /\ alert[a].fingerprint = f /\ alert' = alert
  BY DEF find_active_duplicate, Raised, FindDuplicate
<1>3. d(a).reply = 201 /\ d(a).target = a /\ d(a).fingerprint = f
  BY DEF Idle
<1> HIDE DEF d
<1>4. req'[r] = d(a)
  BY <1>1 DEF TypeOK, Requests
<1> QED
  BY <1>2, <1>3, <1>4 DEF AnsweredWell, Raised

(* With one worker the index does not refuse the row: nothing was inserted   *)
(* since the select.                                                         *)
LEMMA InsertAnswers ==
  ASSUME IInv, NEW r \in Generates, InsertAlert(r)
  PROVE  AnsweredWell(r)'
<1>1. r \in Requests /\ Active(r) /\ req[r].phase = "looked"
  BY DEF InsertAlert, Active, Requests
<1>2. Admits(req[r].fingerprint)
  BY <1>1 DEF IInv, SectionInv
<1>3. Raises(r)
  BY <1>2, InsertRaises DEF IInv
<1>4. /\ req[r] \in Handler /\ r \in Raised' /\ alert'[r] = NewRow(req[r].fingerprint)
  BY <1>1, <1>3, RaisesFacts, HandlerFacts DEF IInv
<1>5. req' = [req EXCEPT ![r] = Answered(req[r], r, 201)]
  BY <1>3 DEF Raises, Answer, Answered
<1>6. req'[r] = Answered(req[r], r, 201) /\ 201 \in Replies
  BY <1>1, <1>5 DEF IInv, TypeOK, Replies
<1>7. /\ req'[r].reply = 201 /\ req'[r].target = r /\ req'[r].fingerprint = req[r].fingerprint
  BY <1>4, <1>6, AnswerFields
<1> QED
  BY <1>4, <1>7 DEF AnsweredWell, NewRow

(* Without failures, a step answers a generate request well or leaves it. *)
LEMMA GenerateStep ==
  ASSUME IInv, [Next]_vars, faults' = 0, NEW x \in Generates
  PROVE  AnsweredWell(x)' \/ (req'[x] = req[x] /\ faults = 0) \/ req'[x].phase # "done"
<1>1. x \in Requests /\ x \notin Actions /\ TypeOK
  BY AlertAssumption DEF Requests, IInv
<1>2. ASSUME NEW r \in Requests, NEW w \in Workers, Arrive(r, w)
      PROVE  AnsweredWell(x)' \/ (req'[x] = req[x] /\ faults = 0) \/ req'[x].phase # "done"
  <2>1. CASE r = x
    <3>1. PICK f \in Fingerprints : FindDuplicate(x, w, f) \/ BeginGenerate(x, w, f)
      BY <1>1, <1>2, <2>1 DEF Arrive
    <3>2. CASE FindDuplicate(x, w, f)
      BY <1>1, <3>2, DuplicateAnswers
    <3>3. CASE BeginGenerate(x, w, f)
      <4> DEFINE b == [Idle EXCEPT !.phase = "looked", !.worker = w, !.fingerprint = f]
      <4>1. b.phase = "looked" /\ req' = [req EXCEPT ![x] = b]
        BY <3>3 DEF Idle, BeginGenerate
      <4> HIDE DEF b
      <4> QED
        BY <1>1, <4>1 DEF TypeOK
    <3> QED
      BY <3>1, <3>2, <3>3
  <2>2. CASE r # x
    BY <1>1, <1>2, <2>2 DEF Arrive, FindDuplicate, BeginGenerate, Authorise, TypeOK
  <2> QED
    BY <2>1, <2>2
<1>3. ASSUME NEW r \in Requests, Proceed(r)
      PROVE  AnsweredWell(x)' \/ (req'[x] = req[x] /\ faults = 0)
  <2>1. CASE r = x
    BY <1>1, <1>3, <2>1, InsertAnswers DEF Proceed
  <2>2. CASE r # x
    BY <1>1, <1>3, <2>2 DEF Proceed, InsertAlert, ReadAlert, MoveAlert, Answer, TypeOK
  <2> QED
    BY <2>1, <2>2
<1>4. ASSUME NEW r \in Requests, DatabaseFault(r)
      PROVE  FALSE
  BY <1>1, <1>4 DEF DatabaseFault, TypeOK
<1>5. ASSUME NEW w \in Workers, Crash(w)
      PROVE  FALSE
  BY <1>1, <1>5 DEF Crash, TypeOK
<1>6. UNCHANGED vars => req'[x] = req[x] /\ faults = 0
  BY DEF vars
<1> QED
  BY <1>2, <1>3, <1>4, <1>5, <1>6 DEF Next, Rest

(* With one worker and no failure, generating is idempotent: a request is    *)
(* answered with an alert of its emergency, and the index never refuses one. *)
THEOREM GenerateIsIdempotent == ASSUME OneWorker PROVE Spec => []GenerateAnswersAlert
<1>1. Init => GenerateAnswersAlert
  BY DEF Init, GenerateAnswersAlert, Idle, Requests
<1>2. IInv /\ GenerateAnswersAlert /\ [Next]_vars => GenerateAnswersAlert'
  <2> SUFFICES ASSUME IInv, GenerateAnswersAlert, [Next]_vars, NEW x \in Generates,
                      req'[x].phase = "done", faults' = 0
               PROVE  AnsweredWell(x)'
    BY DEF GenerateAnswersAlert, AnsweredWell
  <2>1. CASE req'[x] = req[x] /\ faults = 0
    <3>1. AnsweredWell(x)
      BY <2>1 DEF GenerateAnswersAlert, AnsweredWell
    <3> QED
      BY <2>1, <3>1, EmergencyKept DEF AnsweredWell
  <2> QED
    BY <2>1, GenerateStep
<1> QED
  BY <1>1, <1>2, Inductive, PTL DEF Spec

\* The alerts as AlertBoard sees them.
StatusOf == [a \in Generates |-> alert[a].status]
EmergencyOf == [a \in Generates |-> IF alert[a].status = "absent" THEN "none"
                                    ELSE alert[a].fingerprint]

(* Raising an alert is a Raise step of the board. *)
LEMMA RaisesIsRaise ==
  ASSUME TypeOK, HandlerInv, NEW r \in Generates, Raises(r)
  PROVE  Board!Next
<1>1. PICK f \in Fingerprints : f = req[r].fingerprint
  BY RaisesFacts
<1>2. /\ alert'[r].status = "ACTIVE" /\ alert'[r].fingerprint = f
      /\ \A a \in Generates : a # r => alert'[a] = alert[a]
      /\ alert[r].status = "absent"
      /\ \A a \in Generates : alert[a].fingerprint = f => alert[a].status # "ACTIVE"
  <2>1. NewRow(f).status = "ACTIVE" /\ NewRow(f).fingerprint = f
    BY NewRowTyped
  <2>2. alert'[r] = NewRow(f) /\ \A a \in Generates : a # r => alert'[a] = alert[a]
    BY <1>1, RaisesFacts
  <2>3. alert[r].status = "absent"
    BY DEF Raises, NoRow
  <2>4. \A a \in Generates : alert[a].fingerprint = f => alert[a].status # "ACTIVE"
    BY <1>1 DEF Raises, Admits
  <2> QED
    BY <2>1, <2>2, <2>3, <2>4
<1>3. StatusOf[r] = "absent" /\ StatusOf' = [StatusOf EXCEPT ![r] = "ACTIVE"]
  BY <1>2 DEF StatusOf
<1>4. EmergencyOf' = [EmergencyOf EXCEPT ![r] = f]
  BY <1>2 DEF EmergencyOf
<1>5. \A a \in Generates : EmergencyOf[a] = f => StatusOf[a] # "ACTIVE"
  BY <1>2 DEF EmergencyOf, StatusOf
<1>6. Board!Raise(r, f)
  BY <1>3, <1>4, <1>5 DEF Board!Raise, StatusOf, EmergencyOf
<1> QED
  BY <1>6 DEF Board!Next

(* Moving an alert, as a handler does that has read it, is a Move step. *)
LEMMA MovesIsMove ==
  ASSUME IInv, NEW r \in Actions, Moves(r)
  PROVE  Board!Next
<1>1. PICK a \in Generates : a = req[r].target
  BY MovesFacts DEF IInv
<1>2. PICK to \in Board!AlertStatus : to = req[r].goal
  BY MovesFacts DEF IInv, Goals, AlertStatus, Board!AlertStatus
<1>3. /\ alert'[a].status = to /\ alert'[a].fingerprint = alert[a].fingerprint
      /\ \A b \in Generates : b # a => alert'[b] = alert[b]
      /\ alert[a].status \in AlertStatus
      /\ to # "absent"
  BY <1>1, <1>2, MovesFacts DEF IInv, TypeOK, Row, Raised, Goals, AlertStatus
<1>4. to \in VALID_TRANSITIONS[alert[a].status]
  BY <1>1, <1>2, MovesFresh
<1>5. StatusOf[a] \in Board!AlertStatus /\ to \in Board!VALID_TRANSITIONS[StatusOf[a]]
  BY <1>3, <1>4 DEF StatusOf, AlertStatus, VALID_TRANSITIONS,
                    Board!AlertStatus, Board!VALID_TRANSITIONS
<1>6. StatusOf' = [StatusOf EXCEPT ![a] = to]
  BY <1>3 DEF StatusOf
<1>7. EmergencyOf' = EmergencyOf
  BY <1>3 DEF EmergencyOf, AlertStatus
<1>8. Board!Move(a, to)
  BY <1>5, <1>6, <1>7 DEF Board!Move, StatusOf, EmergencyOf
<1> QED
  BY <1>8 DEF Board!Next

(* With one worker the alert service implements AlertBoard.                  *)
THEOREM ImplementsBoard == ASSUME OneWorker PROVE Spec => BoardSpec
<1>1. Init => Board!Init
  BY DEF Init, Board!Init, NoRow
<1>2. IInv /\ [Next]_vars => [Board!Next]_(Board!board)
  <2> SUFFICES ASSUME IInv, [Next]_vars
               PROVE  Board!Next \/ UNCHANGED Board!board
    OBVIOUS
  <2>1. SameAlerts => UNCHANGED Board!board
    BY DEF SameAlerts, Board!board
  <2> QED
    BY <2>1, AlertStep, RaisesIsRaise, MovesIsMove DEF IInv
<1> QED
  BY <1>1, <1>2, Inductive, PTL DEF Spec, BoardSpec, Board!Spec

==============================================================================
