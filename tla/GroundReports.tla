---------------------------- MODULE GroundReports ----------------------------
(***************************************************************************)
(* Field observations: app/api/v1/ground_reports.py over                    *)
(* app/services/ground_intelligence, in one worker.  None of the handlers  *)
(* awaits, so each is one step; what can go wrong in between is a failure  *)
(* of Redis at any of its calls, and a crash of the process between the    *)
(* two commits of a submission, or before the answer.  The requests are    *)
(* those the rate limit (RateLimit) lets through.                          *)
(***************************************************************************)
EXTENDS TrustScoring, Sequences, FiniteSetsExt

CONSTANTS Users, Officials,   \* accounts, and those with the role official or admin
          Keys, NoKey, Headers,  \* Idempotency-Key headers, none, and which a user sends
          Observations,       \* [place, type, text, ago]: ago is the age in weeks
          Evidence, NoEvidence, Owner,  \* stored photographs, none, and their owners
          Recognised,         \* users that is_user_verified accepts
          Verdicts,           \* the statuses officials set, of the five they may
          MaxReports, MaxAudits, MaxWeeks   \* bounds

Statuses == {"SUBMITTED", "REVIEW_REQUIRED", "ACCEPTED", "REJECTED", "DUPLICATE"}

ASSUME GroundAssumption ==
    /\ Officials \subseteq Users /\ Recognised \subseteq Users
    /\ Owner \in [Evidence -> Users]
    /\ Headers \in [Users -> SUBSET (Keys \cup {NoKey})]
    /\ NoKey \notin Keys /\ NoEvidence \notin Evidence
    /\ \A o \in Observations : o.ago \in 0 .. 52
    /\ Verdicts \subseteq Statuses
    /\ MaxWeeks \in Nat

\* A row of ground_reports; scores are in hundredths of a point.
Report ==
    [user : Users, key : Keys \cup {NoKey}, place : {o.place : o \in Observations},
     type : {o.type : o \in Observations}, text : {o.text : o \in Observations},
     observed : Int, status : Statuses, duplicateOf : Nat, group : Nat,
     geo : Score, support : Score, trust : Score, eligible : BOOLEAN]

VARIABLES
    reports,   \* ground_reports in the order of created_at; a row is known by its position
    trail,     \* ground_report_audits in commit order
    cached,    \* [Users \X Keys -> report or 0]: the idempotency entries of Redis
    linked,    \* [Evidence -> report or 0]: incident_id
    answers,   \* history: {<<user, key, report>>} answered to requests with a key, 0 for a 500
    now        \* weeks

vars == <<reports, trail, cached, linked, answers, now>>

Init ==
    /\ reports = <<>> /\ trail = <<>> /\ answers = {} /\ now = 0
    /\ cached = [x \in Users \X Keys |-> 0]
    /\ linked = [e \in Evidence |-> 0]

Rows == DOMAIN reports

\* ST_DWithin, in steps of 200 m, and the windows around observed_at: two
\* observations of one week fall into both windows, others into none.
Near(a, b, steps) == a.place.at - b.place.at \in (0 - steps) .. steps /\ a.observed = b.observed

----------------------------------------------------------------------------
\* evaluate_duplicate: the first row, by created_at, of the type, near and about
\* the same time, that is of the same user or says much the same.
Repeats(r) ==
    {i \in Rows : /\ Near(reports[i], r, 1) /\ reports[i].type = r.type
                  /\ reports[i].user = r.user \/ reports[i].text = r.text}

\* Mutation: the group is named after the row that was repeated.
GroupOfRow(i) == i

GroupOf(i) == reports[i].group

Deduplicated(r, id) ==
    IF Repeats(r) = {} THEN [r EXCEPT !.group = id]
    ELSE LET first == Min(Repeats(r))
         IN  [r EXCEPT !.duplicateOf = first, !.group = GroupOf(first), !.status = "DUPLICATE"]

IsDuplicate(r) == r.duplicateOf # 0

\* Mutation: the user's own reports support him.
SupportsEvenOwn(r, i) ==
    /\ Near(reports[i], r, 10)
    /\ ~ IsDuplicate(reports[i])
    /\ reports[i].status \notin {"REJECTED", "DUPLICATE"}
    /\ reports[i].type \in Compatible(r.type)

\* evaluate_corroboration: which rows support a report.
Supports(r, i) ==
    /\ Near(reports[i], r, 10)
    /\ reports[i].user # r.user
    /\ ~ IsDuplicate(reports[i])
    /\ reports[i].status \notin {"REJECTED", "DUPLICATE"}
    /\ reports[i].type \in Compatible(r.type)

\* Each observer counts once, with whichever row the query returns first (it has
\* no ORDER BY): the possible weights of the support of r, the row id excepted.
SupportOf(r, id) ==
    LET support == {i \in Rows \ {id} : Supports(r, i)}
        observers == {reports[i].user : i \in support}
        firsts == {f \in [observers -> support] : \A u \in observers : reports[f[u]].user = u}
        alike(f) == {u \in observers : reports[f[u]].type = r.type}
    IN  {Quarters(Cardinality(alike(f)), Cardinality(observers \ alike(f))) : f \in firsts}

\* calculate_reliability reads the history of the author in the table.
ReliabilityOf(u) ==
    LET mine == {i \in Rows : reports[i].user = u}
    IN  Reliability(u \in Officials,
                    Cardinality({i \in mine : reports[i].status = "ACCEPTED"}),
                    Cardinality({i \in mine : reports[i].status = "REJECTED"}),
                    Cardinality({i \in mine : IsDuplicate(reports[i])}))

Age(r) == now - r.observed

\* The gate, from what the row holds.
Gated(r) == [r EXCEPT !.eligible = Eligible(r.trust, IsDuplicate(r), r.status, Age(r), r.geo)]

\* Steps 2-8 of submit_report and the same steps of recalculate_trust.
Scored(r, weight) ==
    LET geo == GeoPlausibility(r.place, r.type)
        support == Corroboration(weight)
    IN  Gated([r EXCEPT !.geo = geo, !.support = support,
                        !.trust = Trust(geo, Freshness(Age(r)), ReliabilityOf(r.user), support)])

----------------------------------------------------------------------------
Entry(i, action, before, r) ==
    [report |-> i, action |-> action, before |-> before,
     status |-> r.status, trust |-> r.trust, eligible |-> r.eligible]

\* The idempotency lookup: Redis, unless it fails; the table if Redis had nothing.
InTable(u, k) == {i \in Rows : reports[i].user = u /\ reports[i].key = k /\ k # NoKey}

\* Mutation: an entry that is not in Redis is a new request.
LookupInRedis(u, k, redis) ==
    IF k # NoKey /\ redis /\ cached[<<u, k>>] # 0 THEN {cached[<<u, k>>]} \cap Rows
    ELSE IF redis THEN {} ELSE InTable(u, k)

Lookup(u, k, redis) ==
    IF k # NoKey /\ redis /\ cached[<<u, k>>] # 0 THEN {cached[<<u, k>>]} \cap Rows ELSE InTable(u, k)

Replay(u, k) ==
    /\ \E redis \in BOOLEAN : \E i \in Lookup(u, k, redis) : answers' = answers \cup {<<u, k, i>>}
    /\ UNCHANGED <<reports, trail, cached, linked, now>>

New(u, k, o) ==
    [user |-> u, key |-> k, place |-> o.place, type |-> o.type, text |-> o.text,
     observed |-> now - o.ago, status |-> "SUBMITTED", duplicateOf |-> 0, group |-> 0,
     geo |-> 0, support |-> 0, trust |-> 0, eligible |-> FALSE]

Stored(u, k, o) ==
    LET id == Len(reports) + 1
        r == Deduplicated(New(u, k, o), id)
    IN  \E w \in SupportOf(r, id) :
            /\ reports' = Append(reports, Scored(r, w))
            /\ trail' = Append(trail, Entry(id, "CREATED", "NONE", Scored(r, w)))

\* create_ground_report with a key it does not know, or without one.  The insert
\* of a second row for the key is a 500 (uq_ground_reports_user_idempotency).
\* done is how far it gets: the row and its audit entry are committed, then the
\* link of the photograph, then the entry of Redis is written (if Redis works),
\* then the client is answered.
Create(u, k, o, e, done) ==
    /\ Len(reports) < MaxReports /\ Len(trail) < MaxAudits
    /\ \E redis \in BOOLEAN : Lookup(u, k, redis) = {}
    /\ e # NoEvidence => u \in Recognised
    /\ LET id == IF InTable(u, k) = {} THEN Len(reports) + 1 ELSE 0
       IN  /\ IF id = 0 THEN UNCHANGED <<reports, trail>> ELSE Stored(u, k, o)
           /\ linked' = IF id # 0 /\ done >= 2 /\ e # NoEvidence /\ Owner[e] = u
                        THEN [linked EXCEPT ![e] = id] ELSE linked
           /\ \/ id # 0 /\ done >= 3 /\ k # NoKey /\ cached' = [cached EXCEPT ![<<u, k>>] = id]
              \/ done # 3 /\ UNCHANGED cached
           /\ answers' = IF done = 4 /\ k # NoKey THEN answers \cup {<<u, k, id>>} ELSE answers
    /\ UNCHANGED now

\* recalculate_report_trust: by anyone, at any time.  The entry is the author's.
Recalculate(i) ==
    /\ Len(trail) < MaxAudits
    /\ \E w \in SupportOf(reports[i], i) :
          LET r == Scored(reports[i], w)
          IN  /\ reports' = [reports EXCEPT ![i] = r]
              /\ trail' = Append(trail, Entry(i, "TRUST_RECALCULATED", r.status, r))
    /\ UNCHANGED <<cached, linked, answers, now>>

\* update_report_status, by an official.  The scores stay as they are stored.
\* Mutation: the entry is written before the gate is evaluated again.
ModerateEarly(i, s) ==
    /\ Len(trail) < MaxAudits
    /\ LET r == [reports[i] EXCEPT !.status = s]
       IN  /\ reports' = [reports EXCEPT ![i] = Gated(r)]
           /\ trail' = Append(trail, Entry(i, "STATUS_UPDATED", reports[i].status, r))
    /\ UNCHANGED <<cached, linked, answers, now>>

Moderate(i, s) ==
    /\ Len(trail) < MaxAudits
    /\ LET r == Gated([reports[i] EXCEPT !.status = s])
       IN  /\ reports' = [reports EXCEPT ![i] = r]
           /\ trail' = Append(trail, Entry(i, "STATUS_UPDATED", reports[i].status, r))
    /\ UNCHANGED <<cached, linked, answers, now>>

\* A week passes; the entries of Redis live for a day.
WeekPasses ==
    /\ now < MaxWeeks
    /\ now' = now + 1
    /\ cached' = [x \in Users \X Keys |-> 0]
    /\ UNCHANGED <<reports, trail, linked, answers>>

Post(u, k) ==
    \/ Replay(u, k)
    \/ \E o \in Observations, e \in Evidence \cup {NoEvidence}, done \in 1 .. 4 : Create(u, k, o, e, done)

Next ==
    \/ \E u \in Users : \E k \in Headers[u] : Post(u, k)
    \/ \E i \in Rows : Recalculate(i) \/ \E s \in Verdicts : Moderate(i, s)
    \/ WeekPasses

Spec == Init /\ [][Next]_vars

----------------------------------------------------------------------------
\* The table as a register of field reports.
Entered == [i \in Rows |-> [user  |-> reports[i].user, key |-> reports[i].key,
                            group |-> reports[i].group, status |-> reports[i].status]]

Register == INSTANCE FieldRegister WITH register <- Entered, told <- answers

\* To the register, a submission is in once or not at all, wherever the process
\* dies and whatever Redis answers; scoring again, photographs and time are
\* invisible; only an official's decision changes a status (ground_reports.py:150-218,
\* 334-375, deduplication.py:99-125).
RegisterSpec == Register!Spec

----------------------------------------------------------------------------
\* Every variable holds a value the program could hold.
TypeOK ==
    /\ reports \in Seq(Report)
    /\ trail \in Seq([report : Rows, action : {"CREATED", "TRUST_RECALCULATED", "STATUS_UPDATED"},
                      before : Statuses \cup {"NONE"}, status : Statuses,
                      trust : Score, eligible : BOOLEAN])
    /\ cached \in [Users \X Keys -> {0} \cup Rows]
    /\ linked \in [Evidence -> {0} \cup Rows]
    /\ answers \subseteq Users \X Keys \X ({0} \cup Rows)
    /\ now \in 0 .. MaxWeeks

\* However often a client sends a request with one key, and whatever Redis loses
\* or the process forgets in between, it is never answered 500, and always with
\* one report, which is the user's own (ground_reports.py:150-190).
EveryRetryGetsItsReport ==
    \A x, y \in answers :
        /\ x[3] \in Rows /\ reports[x[3]].user = x[1]
        /\ x[1] = y[1] /\ x[2] = y[2] => x[3] = y[3]

\* The reports of a group are the repetitions of one report that is none: it
\* gives the group its name, and each of the others leads to it (deduplication.py:105).
GroupHasOneRoot ==
    \A i \in Rows :
        LET root == reports[i].group
        IN  /\ root \in Rows /\ ~ IsDuplicate(reports[root]) /\ reports[root].group = root
            /\ ~ IsDuplicate(reports[i]) => root = i
            /\ IsDuplicate(reports[i]) => /\ reports[i].duplicateOf < i
                                         /\ reports[reports[i].duplicateOf].group = root

\* The last entry of the audit trail for report i, and the entry n before entry m.
EndsTrail(n, i) == trail[n].report = i /\ \A m \in DOMAIN trail : trail[m].report = i => m <= n
Precedes(n, m) ==
    /\ n < m /\ trail[n].report = trail[m].report
    /\ \A k \in DOMAIN trail : n < k /\ k < m => trail[k].report # trail[m].report

\* The audit trail of a report begins with its creation, each entry begins at the
\* status where the one before it ended, and the last one shows the row as it is,
\* the gate to the risk models included (engine.py:170, :345, ground_reports.py:359).
TrailTellsReport ==
    /\ \A i \in Rows : \E n \in DOMAIN trail :
          /\ EndsTrail(n, i)
          /\ trail[n].status = reports[i].status
          /\ trail[n].trust = reports[i].trust
          /\ trail[n].eligible = reports[i].eligible
    /\ \A m \in DOMAIN trail :
          \/ \E n \in DOMAIN trail : Precedes(n, m) /\ trail[m].before = trail[n].status
          \/ /\ \A n \in DOMAIN trail : n < m => trail[n].report # trail[m].report
             /\ trail[m].before = "NONE"

\* The reports of user u that an official has ever accepted.
EverAccepted(u) ==
    {i \in Rows : /\ reports[i].user = u
                  /\ \E n \in DOMAIN trail : trail[n].report = i /\ trail[n].status = "ACCEPTED"}

\* Nobody opens the gate to the risk models alone: a report of a citizen that is
\* eligible is supported by somebody else's report, or an official has accepted
\* two of the author's (constants.py:14-35, eligibility.py:39).
EligibilityIsEarned ==
    \A i \in Rows :
        reports[i].eligible /\ reports[i].user \notin Officials =>
            \/ \E j \in Rows : reports[j].user # reports[i].user /\ ~ IsDuplicate(reports[j])
            \/ Cardinality(EverAccepted(reports[i].user)) > 1

\* What a user sends again does not support anything: full support (80 points or
\* more) takes two observers besides the author (corroboration.py:64-107).
SupportTakesObservers ==
    \A i \in Rows :
        LET others == {reports[j].user : j \in {k \in Rows : ~ IsDuplicate(reports[k])}} \ {reports[i].user}
        IN  /\ reports[i].support > 0 => others # {}
            /\ reports[i].support >= FullSupport => Cardinality(others) > 1
=============================================================================
