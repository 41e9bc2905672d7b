--------------------------- MODULE CitizensProofs ---------------------------
(***************************************************************************)
(* Proofs about Citizens for any users, notification types, providers with *)
(* credentials and bounds: preferences are what was answered, the audit    *)
(* trail explains every status, and evidence is sound.                     *)
(*                                                                         *)
(* The argument: the audit trail only grows, so a user who was verified    *)
(* once stays proven (Proven), whatever becomes of the record; an upload   *)
(* is admitted only for such a user, and its row remembers how long the    *)
(* trail was.  The files are numbered without a gap, so a new one is new.  *)
(***************************************************************************)
EXTENDS Citizens, FiniteSetTheorems, WellFoundedInduction, TLAPS

Statuses == {"UNVERIFIED", "VERIFICATION_PENDING", "VERIFICATION_FAILED", "VERIFIED"}
Failures == {"CONSENT_REQUIRED", "UNAVAILABLE", "MISSING_TRANSACTION_ID", "REJECTED",
             "ERROR", "INVALID_OAUTH_STATE", "MISSING_AUTH_CODE"}
Events == {"IDENTITY_VERIFICATION_STARTED", "IDENTITY_VERIFIED", "IDENTITY_VERIFICATION_FAILED"}
Record == [status : Statuses, tx : Nat \cup {Nothing}, failure : Failures \cup {Nothing},
           expired : BOOLEAN, updated : Nat]
AuditRow == [user : Users, provider : Providers, event : Events]
Transaction == [user : Users, provider : Providers]
Photograph == [file : Nat, owner : Users, after : Nat]

TypeOK ==
    /\ account \in [Users -> {"absent", "active", "disabled"}]
    /\ token \in SUBSET Users
    /\ row \in [Users -> [Types -> Wishes \cup {Nothing}]]
    /\ record \in [Users -> [Providers -> Record \cup {Nothing}]]
    /\ trail \in Seq(AuditRow)
    /\ issued \in Seq(Transaction)
    /\ commits \in Nat
    /\ uploads \in [Users -> Nat]
    /\ files \in SUBSET Nat
    /\ evidence \in Seq(Photograph)

\* User u was verified by one of the first n rows of the audit trail.
Proven(u, n) == \E m \in 1 .. n : trail[m].user = u /\ trail[m].event = "IDENTITY_VERIFIED"

UploadsAreProven == \A u \in Users : uploads[u] > 0 => Proven(u, Len(trail))
RowsArePast == \A i \in DOMAIN evidence : evidence[i].after <= Len(trail)
FilesAreNumbered == \E n \in Nat : files = 1 .. n

IInv ==
    /\ TypeOK
    /\ PreferencesAreAnswered
    /\ TrailExplainsStatus
    /\ UploadsAreProven
    /\ RowsArePast
    /\ EvidenceIsSound
    /\ FilesAreNumbered

-----------------------------------------------------------------------------
(* The preferences.                                                        *)

(* A set of numbers that is not empty has a least element. *)
LEMMA LeastElement ==
  ASSUME NEW S \in SUBSET Nat, S # {} PROVE \E x \in S : \A y \in S : x <= y
<1> DEFINE Below == OpToRel(<, Nat)
<1>1. \A x, y \in Nat : <<y, x>> \in Below <=> y < x
  BY DEF OpToRel
<1>2. IsWellFoundedOn(Below, Nat)
  BY NatLessThanWellFounded
<1> HIDE DEF Below
<1>3. PICK x \in S : \A y \in S : ~ (<<y, x>> \in Below)
  BY <1>2, WFMin, Zenon
<1>4. ASSUME NEW y \in S PROVE x <= y
  <2>1. x \in Nat /\ y \in Nat
    OBVIOUS
  <2>2. ~ (y < x)
    BY <1>1, <1>3, <2>1, Zenon
  <2> QED
    BY <2>1, <2>2
<1> QED
  BY <1>4

(* The loop over the items of a list is well defined: each step has a value. *)
LEMMA LoopHasValues ==
  ASSUME NEW choice, NEW list, NEW t, NEW N \in Nat
  PROVE  \E g : g = [n \in 0 .. N |->
                       IF n = 0 THEN choice
                       ELSE IF list[n].type = t THEN list[n].choice ELSE g[n - 1]]
<1> DEFINE After(g, n) == IF n = 0 THEN choice
                          ELSE IF list[n].type = t THEN list[n].choice ELSE g[n - 1]
           Loops(g, m) == g = [n \in 0 .. m |-> After(g, n)]
           Bad == {m \in Nat : ~ \E g : Loops(g, m)}
<1>1. Bad = {}
  <2>1. SUFFICES ASSUME Bad # {} PROVE FALSE
    OBVIOUS
  <2>2. PICK m \in Bad : \A y \in Bad : m <= y
    <3>1. Bad \in SUBSET Nat
      OBVIOUS
    <3> HIDE DEF Bad
    <3> QED
      BY <2>1, <3>1, LeastElement
  <2>3. m \in Nat /\ ~ \E g : Loops(g, m)
    BY <2>2
  <2>4. CASE m = 0
    <3> DEFINE g == [n \in 0 .. 0 |-> choice]
    <3>1. Loops(g, 0)
      OBVIOUS
    <3> QED
      BY <2>3, <2>4, <3>1
  <2>5. CASE m # 0
    <3>1. m - 1 \in Nat /\ m - 1 \notin Bad
      <4>1. m - 1 \in Nat /\ ~ (m <= m - 1)
        BY <2>3, <2>5
      <4> HIDE DEF Bad
      <4> QED
        BY <2>2, <4>1
    <3>2. PICK g : Loops(g, m - 1)
      BY <3>1
    <3> DEFINE h == [n \in 0 .. m |-> IF n = m THEN After(g, m) ELSE g[n]]
    <3>3. ASSUME NEW n \in 0 .. m PROVE h[n] = After(h, n)
      <4>1. CASE n = m
        <5>1. m - 1 \in 0 .. m /\ m - 1 # m
          BY <2>3, <2>5
        <5>2. h[m - 1] = g[m - 1]
          BY <5>1
        <5> QED
          BY <4>1, <5>2
      <4>2. CASE n # m
        <5>1. n \in 0 .. (m - 1) /\ h[n] = g[n]
          BY <2>3, <4>2
        <5>2. g[n] = After(g, n)
          BY <3>2, <5>1
        <5>3. n # 0 => n - 1 \in 0 .. m /\ n - 1 # m
          BY <2>3, <4>2
        <5>4. n # 0 => h[n - 1] = g[n - 1]
          BY <5>3
        <5> QED
          BY <5>1, <5>2, <5>4
      <4> QED
        BY <4>1, <4>2
    <3>4. h = [n \in 0 .. m |-> h[n]]
      OBVIOUS
    <3> HIDE DEF h
    <3>5. Loops(h, m)
      BY <3>3, <3>4
    <3> QED
      BY <2>3, <3>5
  <2> QED
    BY <2>4, <2>5
<1>2. \E g : Loops(g, N)
  BY <1>1
<1> QED
  BY <1>2

(* The last item of a type decides; without one the choice stays. *)
LEMMA LastItemWins ==
  ASSUME NEW choice, NEW list \in Seq(Items), NEW t
  PROVE  \/ /\ \A i \in DOMAIN list : list[i].type # t
            /\ AfterItems(choice, list, t) = choice
         \/ \E i \in DOMAIN list :
              /\ list[i].type = t
              /\ \A j \in DOMAIN list : list[j].type = t => j <= i
              /\ AfterItems(choice, list, t) = list[i].choice
<1> DEFINE N == Len(list)
           f == CHOOSE g : g = [n \in 0 .. N |->
                       IF n = 0 THEN choice
                       ELSE IF list[n].type = t THEN list[n].choice ELSE g[n - 1]]
<1>1. N \in Nat /\ DOMAIN list = 1 .. N
  OBVIOUS
<1>2. AfterItems(choice, list, t) = f[N]
  BY DEF AfterItems
<1> HIDE DEF N
<1>3. f = [n \in 0 .. N |-> IF n = 0 THEN choice
                            ELSE IF list[n].type = t THEN list[n].choice ELSE f[n - 1]]
  <2> DEFINE Body(g) == [n \in 0 .. N |-> IF n = 0 THEN choice
                            ELSE IF list[n].type = t THEN list[n].choice ELSE g[n - 1]]
  <2>1. \E g : g = Body(g)
    BY <1>1, LoopHasValues
  <2>2. f = CHOOSE g : g = Body(g)
    OBVIOUS
  <2>3. ASSUME \E g : g = Body(g) PROVE (CHOOSE g : g = Body(g)) = Body(CHOOSE g : g = Body(g))
    <3> HIDE DEF Body
    <3> QED
      BY <2>3, Zenon
  <2> HIDE DEF f
  <2>4. f = Body(f)
    BY <2>1, <2>2, <2>3, Zenon
  <2> QED
    BY <2>4
<1> HIDE DEF f
<1> DEFINE Last(n) == \E i \in 1 .. n : /\ list[i].type = t /\ f[n] = list[i].choice
                                        /\ \A j \in 1 .. n : list[j].type = t => j <= i
           None(n) == f[n] = choice /\ \A i \in 1 .. n : list[i].type # t
           Bad == {n \in 0 .. N : ~ (Last(n) \/ None(n))}
<1>4. f[0] = choice
  BY <1>1, <1>3
<1>5. \A n \in 1 .. N : f[n] = IF list[n].type = t THEN list[n].choice ELSE f[n - 1]
  BY <1>1, <1>3
<1>6. Bad = {}
  <2>1. SUFFICES ASSUME Bad # {} PROVE FALSE
    OBVIOUS
  <2>2. PICK m \in Bad : \A y \in Bad : m <= y
    <3>1. Bad \in SUBSET Nat
      BY <1>1
    <3> HIDE DEF Bad
    <3> QED
      BY <2>1, <3>1, LeastElement
  <2>3. m \in 0 .. N /\ ~ Last(m) /\ ~ None(m)
    BY <2>2
  <2>4. m # 0
    BY <1>4, <2>3
  <2>5. m \in 1 .. N /\ m - 1 \in 0 .. N
    BY <1>1, <2>3, <2>4
  <2>6. list[m].type # t
    <3>1. SUFFICES ASSUME list[m].type = t PROVE Last(m)
      BY <2>3
    <3> QED
      BY <1>5, <2>5, <3>1
  <2>7. f[m] = f[m - 1]
    BY <1>5, <2>5, <2>6
  <2>8. Last(m - 1) \/ None(m - 1)
    <3>1. m - 1 \notin Bad
      BY <2>2, <2>3, <2>5
    <3> QED
      BY <2>5, <3>1
  <2>9. CASE None(m - 1)
    BY <2>3, <2>5, <2>6, <2>7, <2>9
  <2>10. CASE Last(m - 1)
    <3>1. PICK i \in 1 .. (m - 1) : /\ list[i].type = t /\ f[m - 1] = list[i].choice
                                    /\ \A j \in 1 .. (m - 1) : list[j].type = t => j <= i
      BY <2>10
    <3>2. i \in 1 .. m
      BY <2>5
    <3>3. ASSUME NEW j \in 1 .. m, list[j].type = t PROVE j <= i
      BY <2>5, <2>6, <3>1, <3>3
    <3>4. Last(m)
      BY <2>7, <3>1, <3>2, <3>3
    <3> QED
      BY <2>3, <3>4
  <2> QED
    BY <2>8, <2>9, <2>10
<1>7. Last(N) \/ None(N)
  BY <1>1, <1>6
<1> QED
  BY <1>1, <1>2, <1>7

(* After an update the rows are what the user asked for. *)
LEMMA UpdateAnswers ==
  ASSUME NEW u \in Users, NEW list \in Lists, UpdateSubscriptions(u, list),
         TypeOK, PreferencesAreAnswered
  PROVE  /\ PreferencesAreAnswered'
         /\ row' \in [Users -> [Types -> Wishes \cup {Nothing}]]
<1>1. list \in Seq(Items) /\ \A i \in DOMAIN list : list[i].choice \in Wishes
  <2>1. PICK n \in 1 .. MaxItems : list \in [1 .. n -> Items]
    BY DEF Lists
  <2>2. n \in Nat
    OBVIOUS
  <2>3. list \in Seq(Items)
    BY <2>1, <2>2
  <2>4. \A i \in DOMAIN list : list[i] \in Items
    BY <2>1
  <2> QED
    BY <2>3, <2>4 DEF Items
<1> DEFINE asked == [t \in Types |->
           IF \E i \in DOMAIN list : list[i].type = t
           THEN list[Max({i \in DOMAIN list : list[i].type = t})].choice
           ELSE row[u][t]]
<1>2. /\ row' = [row EXCEPT ![u] = Upserted(u, list)]
      /\ wish' = [row EXCEPT ![u] = asked]
  BY DEF UpdateSubscriptions, PreferencesAreAnswered
<1>3. row[u] \in [Types -> Wishes \cup {Nothing}]
  BY DEF TypeOK
<1>4. ASSUME NEW t \in Types
      PROVE  /\ AfterItems(row[u][t], list, t) = asked[t]
             /\ asked[t] \in Wishes \cup {Nothing}
  <2>1. CASE \A i \in DOMAIN list : list[i].type # t
    <3>1. AfterItems(row[u][t], list, t) = row[u][t]
      BY <1>1, <2>1, LastItemWins
    <3> QED
      BY <1>3, <2>1, <3>1
  <2>2. CASE \E i \in DOMAIN list : list[i].type = t
    <3>1. PICK i \in DOMAIN list :
            /\ list[i].type = t
            /\ \A j \in DOMAIN list : list[j].type = t => j <= i
            /\ AfterItems(row[u][t], list, t) = list[i].choice
      BY <1>1, <2>2, LastItemWins
    <3> DEFINE S == {j \in DOMAIN list : list[j].type = t}
    <3>2. i \in S /\ S \in SUBSET Nat /\ \A j \in S : j <= i
      BY <1>1, <3>1
    <3>3. asked[t] = list[Max(S)].choice
      BY <2>2
    <3> HIDE DEF S
    <3>4. Max(S) = i
      BY <3>2 DEF Max
    <3> QED
      BY <1>1, <3>1, <3>3, <3>4
  <2> QED
    BY <2>1, <2>2
<1> HIDE DEF asked
<1>5. Upserted(u, list) = [t \in Types |-> asked[t]]
  BY <1>4 DEF Upserted
<1>6. asked = [t \in Types |-> asked[t]]
  BY DEF asked
<1> QED
  BY <1>2, <1>4, <1>5, <1>6 DEF PreferencesAreAnswered, TypeOK

-----------------------------------------------------------------------------
(* Records and their history.                                              *)

(* A commit of a record leaves its row with the status that was written, and *)
(* every other row as it was.                                                *)
LEMMA SaveWrites ==
  ASSUME TypeOK, NEW u \in Users, NEW p \in Providers, NEW r \in Record, Save(u, p, r)
  PROVE  /\ record' \in [Users -> [Providers -> Record \cup {Nothing}]]
         /\ commits' \in Nat
         /\ record'[u][p].status = r.status
         /\ \A v \in Users, q \in Providers :
              v # u \/ q # p => record'[v][q] = record[v][q]
<1> DEFINE old == record[u][p]
           k == commits + 1
           s == [r EXCEPT !.updated = k]
           changed == old = Nothing \/ [r EXCEPT !.updated = old.updated] # old
<1>1. record[u] \in [Providers -> Record \cup {Nothing}] /\ old \in Record \cup {Nothing}
  BY DEF TypeOK
<1>2. s \in Record /\ s.status = r.status
  <2>1. k \in Nat
    BY DEF TypeOK
  <2> HIDE DEF k
  <2> QED
    BY <2>1 DEF Record
<1>3. CASE changed
  <2>1. record' = [record EXCEPT ![u] = [record[u] EXCEPT ![p] = s]] /\ commits' = commits + 1
    BY <1>3 DEF Save
  <2> HIDE DEF s
  <2> QED
    BY <1>1, <1>2, <2>1 DEF TypeOK
<1>4. CASE ~ changed
  <2>1. record' = record /\ commits' = commits
    BY <1>4 DEF Save
  <2>2. old.status = r.status
    <3>1. [r EXCEPT !.updated = old.updated] = old
      BY <1>4
    <3>2. [r EXCEPT !.updated = old.updated].status = r.status
      BY DEF Record
    <3> QED
      BY <3>1, <3>2
  <2> QED
    BY <2>1, <2>2 DEF TypeOK
<1> QED
  BY <1>3, <1>4

LEMMA FetchedType ==
  ASSUME TypeOK, NEW u \in Users, NEW p \in Providers PROVE Fetched(u, p) \in Record
<1>1. Untouched \in Record
  BY DEF Untouched, Record, Statuses
<1>2. record[u][p] \in Record \cup {Nothing}
  BY DEF TypeOK
<1> QED
  BY <1>1, <1>2 DEF Fetched

(* An audit row is added at the end of the trail. *)
LEMMA AuditAppends ==
  ASSUME TypeOK, NEW u \in Users, NEW p \in Providers, NEW e \in Events,
         trail' = Audit(u, p, e)
  PROVE  /\ trail' \in Seq(AuditRow)
         /\ Len(trail') = Len(trail) + 1
         /\ \A n \in 1 .. Len(trail) : trail'[n] = trail[n]
         /\ trail'[Len(trail) + 1] = [user |-> u, provider |-> p, event |-> e]
<1> DEFINE a == [user |-> u, provider |-> p, event |-> e]
<1>1. a \in AuditRow
  BY DEF AuditRow
<1>2. trail \in Seq(AuditRow) /\ trail' = Append(trail, a)
  BY DEF TypeOK, Audit
<1> HIDE DEF a
<1>3. /\ trail' \in Seq(AuditRow) /\ Len(trail') = Len(trail) + 1
      /\ \A n \in 1 .. Len(trail) : trail'[n] = trail[n]
      /\ trail'[Len(trail) + 1] = a
  BY <1>1, <1>2
<1> QED
  BY <1>3 DEF a

(* A step that writes the status and the audit row that explains it keeps every *)
(* status explained.                                                            *)
LEMMA StatusIsExplained ==
  ASSUME TypeOK, TrailExplainsStatus,
         NEW u \in Users, NEW p \in Providers, NEW e \in Events,
         trail' = Audit(u, p, e),
         record'[u][p].status = StatusAfter(e),
         \A v \in Users, q \in Providers : v # u \/ q # p => record'[v][q] = record[v][q]
  PROVE  TrailExplainsStatus'
<1>1. /\ trail' \in Seq(AuditRow)
      /\ Len(trail') = Len(trail) + 1
      /\ \A n \in 1 .. Len(trail) : trail'[n] = trail[n]
      /\ trail'[Len(trail) + 1] = [user |-> u, provider |-> p, event |-> e]
  BY AuditAppends
<1>2. /\ Len(trail) \in Nat /\ DOMAIN trail = 1 .. Len(trail)
      /\ DOMAIN trail' = 1 .. (Len(trail) + 1)
  BY <1>1 DEF TypeOK
<1>3. ASSUME NEW v \in Users, NEW q \in Providers,
             record'[v][q] # Nothing, record'[v][q].status # "UNVERIFIED"
      PROVE  \E n \in DOMAIN trail' :
               LastRow(n, v, q)' /\ record'[v][q].status = StatusAfter(trail'[n].event)
  <2>1. CASE v = u /\ q = p
    <3>1. PICK n \in DOMAIN trail' : n = Len(trail) + 1
      BY <1>2
    <3>2. /\ trail'[n].user = v /\ trail'[n].provider = q /\ trail'[n].event = e
          /\ \A m \in DOMAIN trail' : m <= n
      BY <1>1, <1>2, <2>1, <3>1
    <3>3. LastRow(n, v, q)'
      BY <3>2 DEF LastRow
    <3> QED
      BY <2>1, <3>2, <3>3
  <2>2. CASE v # u \/ q # p
    <3>1. record'[v][q] = record[v][q]
      BY <2>2
    <3>2. PICK n \in DOMAIN trail :
            LastRow(n, v, q) /\ record[v][q].status = StatusAfter(trail[n].event)
      BY <1>3, <3>1 DEF TrailExplainsStatus
    <3>3. n \in DOMAIN trail' /\ trail'[n] = trail[n]
      BY <1>1, <1>2
    <3>4. ASSUME NEW m \in DOMAIN trail', trail'[m].user = v, trail'[m].provider = q
          PROVE  m <= n
      <4>1. m # Len(trail) + 1
        BY <1>1, <2>2, <3>4
      <4>2. m \in DOMAIN trail /\ trail'[m] = trail[m]
        BY <1>1, <1>2, <4>1
      <4> QED
        BY <3>2, <3>4, <4>2 DEF LastRow
    <3>5. LastRow(n, v, q)'
      BY <3>2, <3>3, <3>4 DEF LastRow
    <3> QED
      BY <3>1, <3>2, <3>3, <3>5
  <2> QED
    BY <2>1, <2>2
<1> QED
  BY <1>3 DEF TrailExplainsStatus

(* What was proven stays proven. *)
LEMMA HistoryStands ==
  ASSUME TypeOK, UploadsAreProven, RowsArePast, EvidenceIsSound, FilesAreNumbered,
         Len(trail') \in Nat, Len(trail) <= Len(trail'),
         \A n \in 1 .. Len(trail) : trail'[n] = trail[n],
         UNCHANGED <<uploads, files, evidence>>
  PROVE  UploadsAreProven' /\ RowsArePast' /\ EvidenceIsSound' /\ FilesAreNumbered'
<1>1. Len(trail) \in Nat
  BY DEF TypeOK
<1>2. UploadsAreProven'
  <2>1. ASSUME NEW u \in Users, uploads'[u] > 0 PROVE Proven(u, Len(trail))'
    <3>1. PICK m \in 1 .. Len(trail) : trail[m].user = u /\ trail[m].event = "IDENTITY_VERIFIED"
      BY <2>1 DEF UploadsAreProven, Proven
    <3>2. m \in 1 .. Len(trail') /\ trail'[m] = trail[m]
      BY <1>1
    <3> QED
      BY <3>1, <3>2 DEF Proven
  <2> QED
    BY <2>1 DEF UploadsAreProven
<1>3. RowsArePast'
  <2>1. ASSUME NEW i \in DOMAIN evidence PROVE evidence[i].after <= Len(trail')
    <3>1. evidence[i] \in Photograph
      BY DEF TypeOK
    <3>2. evidence[i].after \in Nat
      BY <3>1 DEF Photograph
    <3> QED
      BY <1>1, <3>2 DEF RowsArePast
  <2> QED
    BY <2>1 DEF RowsArePast
<1>4. EvidenceHasProvenance'
  <2>1. ASSUME NEW i \in DOMAIN evidence
        PROVE  \E n \in 1 .. evidence[i].after :
                 trail'[n].user = evidence[i].owner /\ trail'[n].event = "IDENTITY_VERIFIED"
    <3>1. PICK n \in 1 .. evidence[i].after :
            trail[n].user = evidence[i].owner /\ trail[n].event = "IDENTITY_VERIFIED"
      BY DEF EvidenceIsSound, EvidenceHasProvenance
    <3>2. evidence[i] \in Photograph
      BY DEF TypeOK
    <3>3. evidence[i].after \in Nat
      BY <3>2 DEF Photograph
    <3>4. n \in 1 .. Len(trail)
      BY <1>1, <3>3 DEF RowsArePast
    <3> QED
      BY <3>1, <3>4
  <2> QED
    BY <2>1 DEF EvidenceHasProvenance
<1>5. RowHasFile' /\ FilesAreNumbered'
  BY DEF RowHasFile, EvidenceIsSound, FilesAreNumbered
<1> QED
  BY <1>2, <1>3, <1>4, <1>5 DEF EvidenceIsSound

(* get_user_verification finds a row when there is one. *)
LEMMA NewestIsThere ==
  ASSUME NEW a, NEW b, NEW S \in SUBSET Record, S # {}, S \subseteq {a, b}
  PROVE  Newest(S) \in S
<1>1. \E r \in S : \A s \in S : s.updated <= r.updated
  <2>1. \A r \in S : r.updated \in Nat
    BY DEF Record
  <2> QED
    BY <2>1
<1> QED
  BY <1>1 DEF Newest

(* A user who is verified has been verified by a row of the trail. *)
LEMMA VerifiedIsProven ==
  ASSUME TypeOK, TrailExplainsStatus, NEW u \in Users, IsVerified(u)
  PROVE  Proven(u, Len(trail))
<1> DEFINE others == {r \in Rows(u) : r.status # "VERIFIED"}
<1>1. /\ Rows(u) \in SUBSET Record /\ others \in SUBSET Record
      /\ Rows(u) \subseteq {record[u]["AADHAAR"], record[u]["DIGILOCKER"]}
      /\ others \subseteq {record[u]["AADHAAR"], record[u]["DIGILOCKER"]}
  BY DEF Rows, Providers, TypeOK
<1>2. Primary(u) \in Rows(u) /\ Primary(u).status = "VERIFIED"
  <2>1. Primary(u) # Nothing /\ Primary(u).status = "VERIFIED"
    BY DEF IsVerified, Valid
  <2>2. Rows(u) # {}
    BY <2>1 DEF Primary
  <2>3. CASE others # {}
    <3>1. Primary(u) = Newest(others)
      BY <2>2, <2>3 DEF Primary
    <3>2. Newest(others) \in others
      BY <1>1, <2>3, NewestIsThere
    <3> QED
      BY <2>1, <3>1, <3>2
  <2>4. CASE others = {}
    <3>1. Primary(u) = Newest(Rows(u))
      BY <2>2, <2>4 DEF Primary
    <3> QED
      BY <1>1, <2>1, <2>2, <3>1, NewestIsThere
  <2> QED
    BY <2>3, <2>4
<1>3. PICK p \in Providers : record[u][p] # Nothing /\ record[u][p].status = "VERIFIED"
  BY <1>2 DEF Rows
<1>4. PICK n \in DOMAIN trail : LastRow(n, u, p) /\ StatusAfter(trail[n].event) = "VERIFIED"
  BY <1>3 DEF TrailExplainsStatus
<1>5. trail[n] \in AuditRow
  BY DEF TypeOK
<1>6. trail[n].event = "IDENTITY_VERIFIED"
  BY <1>4, <1>5 DEF AuditRow, Events, StatusAfter
<1>7. n \in 1 .. Len(trail) /\ trail[n].user = u
  BY <1>4 DEF LastRow, TypeOK
<1> QED
  BY <1>6, <1>7 DEF Proven

-----------------------------------------------------------------------------
(* The steps.                                                              *)

(* Every handler that commits a record writes the status with the row that *)
(* explains it, or UNVERIFIED without a row.                               *)
LEMMA CommitKeeps ==
  ASSUME IInv, NEW u \in Users, NEW p \in Providers, NEW r \in Record, Save(u, p, r),
         \/ r.status = "UNVERIFIED" /\ UNCHANGED trail
         \/ \E e \in Events : trail' = Audit(u, p, e) /\ r.status = StatusAfter(e),
         issued' \in Seq(Transaction),
         UNCHANGED <<account, token, row, wish, uploads, files, evidence>>
  PROVE  IInv'
<1>1. /\ record' \in [Users -> [Providers -> Record \cup {Nothing}]]
      /\ commits' \in Nat
      /\ record'[u][p].status = r.status
      /\ \A v \in Users, q \in Providers : v # u \/ q # p => record'[v][q] = record[v][q]
  BY SaveWrites DEF IInv
<1>2. PreferencesAreAnswered'
  BY DEF IInv, PreferencesAreAnswered
<1>3. CASE r.status = "UNVERIFIED" /\ UNCHANGED trail
  <2>1. TypeOK'
    BY <1>1, <1>3 DEF IInv, TypeOK
  <2>2. TrailExplainsStatus'
    <3>1. ASSUME NEW v \in Users, NEW q \in Providers,
                 record'[v][q] # Nothing, record'[v][q].status # "UNVERIFIED"
          PROVE  \E n \in DOMAIN trail :
                   LastRow(n, v, q) /\ record'[v][q].status = StatusAfter(trail[n].event)
      <4>1. record'[v][q] = record[v][q]
        BY <1>1, <1>3, <3>1
      <4> QED
        BY <3>1, <4>1 DEF IInv, TrailExplainsStatus
    <3> QED
      BY <1>3, <3>1 DEF TrailExplainsStatus, LastRow
  <2>3. UploadsAreProven' /\ RowsArePast' /\ EvidenceIsSound' /\ FilesAreNumbered'
    <3>1. Len(trail) \in Nat /\ Len(trail') = Len(trail)
          /\ \A n \in 1 .. Len(trail) : trail'[n] = trail[n]
      BY <1>3 DEF IInv, TypeOK
    <3> QED
      BY <3>1, HistoryStands DEF IInv
  <2> QED
    BY <1>2, <2>1, <2>2, <2>3 DEF IInv
<1>4. CASE \E e \in Events : trail' = Audit(u, p, e) /\ r.status = StatusAfter(e)
  <2>1. PICK e \in Events : trail' = Audit(u, p, e) /\ r.status = StatusAfter(e)
    BY <1>4
  <2>2. /\ trail' \in Seq(AuditRow)
        /\ Len(trail') = Len(trail) + 1
        /\ \A n \in 1 .. Len(trail) : trail'[n] = trail[n]
    BY <2>1, AuditAppends DEF IInv
  <2>3. TypeOK'
    BY <1>1, <2>2 DEF IInv, TypeOK
  <2>4. TrailExplainsStatus'
    BY <1>1, <2>1, StatusIsExplained DEF IInv
  <2>5. UploadsAreProven' /\ RowsArePast' /\ EvidenceIsSound' /\ FilesAreNumbered'
    <3>1. Len(trail) \in Nat
      BY DEF IInv, TypeOK
    <3>2. Len(trail') \in Nat /\ Len(trail) <= Len(trail')
      BY <2>2, <3>1
    <3> QED
      BY <2>2, <3>2, HistoryStands DEF IInv
  <2> QED
    BY <1>2, <2>3, <2>4, <2>5 DEF IInv
<1> QED
  BY <1>3, <1>4

LEMMA IssueType ==
  ASSUME TypeOK, NEW u \in Users, NEW p \in Providers PROVE Issue(u, p) \in Seq(Transaction)
<1>1. [user |-> u, provider |-> p] \in Transaction
  BY DEF Transaction
<1> QED
  BY <1>1 DEF TypeOK, Issue

LEMMA StartRefusedKeeps ==
  ASSUME IInv, NEW u \in Users, NEW p \in Providers, NEW consent \in BOOLEAN,
         StartRefused(u, p, consent), UNCHANGED accountVars
  PROVE  IInv'
<1> DEFINE why == IF consent THEN "UNAVAILABLE" ELSE "CONSENT_REQUIRED"
           r == [Fetched(u, p) EXCEPT !.status = "UNVERIFIED", !.failure = why]
<1>1. Fetched(u, p) \in Record
  BY FetchedType DEF IInv
<1>2. why \in Failures
  BY DEF Failures
<1>3. Save(u, p, r)
  BY DEF StartRefused
<1> HIDE DEF why
<1>4. r \in Record /\ r.status = "UNVERIFIED"
  BY <1>1, <1>2 DEF Record, Statuses
<1> HIDE DEF r
<1>5. UNCHANGED <<trail, issued, uploads, files, evidence>>
  BY DEF StartRefused
<1>6. issued' \in Seq(Transaction)
  BY <1>5 DEF IInv, TypeOK
<1> QED
  BY <1>3, <1>4, <1>5, <1>6, CommitKeeps DEF accountVars

LEMMA StartVerificationKeeps ==
  ASSUME IInv, NEW u \in Users, NEW p \in Providers, NEW consent \in BOOLEAN,
         StartVerification(u, p, consent), UNCHANGED accountVars
  PROVE  IInv'
<1>1. issued' \in Seq(Transaction)
  BY IssueType DEF IInv, StartVerification
<1>2. PICK n \in Nat : n = Len(issued')
  BY <1>1
<1> DEFINE r == [Fetched(u, p) EXCEPT !.status = "VERIFICATION_PENDING", !.tx = n, !.failure = Nothing]
<1>3. Fetched(u, p) \in Record
  BY FetchedType DEF IInv
<1>4. Save(u, p, r)
  BY <1>2 DEF StartVerification
<1>5. r \in Record /\ r.status = "VERIFICATION_PENDING"
  BY <1>3 DEF Record, Statuses
<1> HIDE DEF r
<1>6. \E e \in Events : trail' = Audit(u, p, e) /\ r.status = StatusAfter(e)
  BY <1>5 DEF StartVerification, Events, StatusAfter
<1> QED
  BY <1>1, <1>4, <1>5, <1>6, CommitKeeps DEF accountVars, StartVerification

(* A provider answers with a verification or a failure, and with the transaction *)
(* it was given or none.                                                         *)
LEMMA ProviderAnswers ==
  ASSUME NEW p \in Providers, NEW tx \in Nat \cup {Nothing}, NEW outcome \in Outcomes(p),
         NEW result,
         \/ result = Failed(Nothing, "UNAVAILABLE")
         \/ p = "AADHAAR" /\ result = AadhaarResult(tx, outcome)
         \/ p = "DIGILOCKER" /\ result = DigiLockerResult(tx, outcome)
  PROVE  /\ result.status \in {"VERIFIED", "VERIFICATION_FAILED"}
         /\ result.tx \in Nat \cup {Nothing}
         /\ result.failure \in Failures \cup {Nothing}
<1>1. ASSUME NEW t \in Nat \cup {Nothing}, NEW why \in Failures, result = Failed(t, why)
      PROVE  /\ result.status \in {"VERIFIED", "VERIFICATION_FAILED"}
             /\ result.tx \in Nat \cup {Nothing}
             /\ result.failure \in Failures \cup {Nothing}
  BY <1>1 DEF Failed
<1>2. ASSUME NEW t \in Nat \cup {Nothing}, result = Passed(t)
      PROVE  /\ result.status \in {"VERIFIED", "VERIFICATION_FAILED"}
             /\ result.tx \in Nat \cup {Nothing}
             /\ result.failure \in Failures \cup {Nothing}
  BY <1>2 DEF Passed
<1>3. \/ result = Passed(tx)
      \/ \E t \in Nat \cup {Nothing}, why \in Failures : result = Failed(t, why)
  BY DEF AadhaarResult, DigiLockerResult, Outcomes, Failures
<1> QED
  BY <1>1, <1>2, <1>3

LEMMA ProcessCallbackKeeps ==
  ASSUME IInv, NEW u \in Users, NEW p \in Providers, NEW tx \in Known(u, p),
         NEW outcome \in Outcomes(p), ProcessCallback(u, p, tx, outcome), UNCHANGED accountVars
  PROVE  IInv'
<1> DEFINE madeUp == p = "DIGILOCKER" /\ tx = Nothing
           bound == IF madeUp THEN Len(issued) + 1 ELSE tx
           result == IF p \notin Configured THEN Failed(Nothing, "UNAVAILABLE")
                     ELSE IF p = "AADHAAR" THEN AadhaarResult(tx, outcome)
                     ELSE DigiLockerResult(bound, outcome)
           old == Fetched(u, p)
           rtx == IF result.tx # Nothing THEN result.tx ELSE old.tx
           r == [old EXCEPT !.status = result.status, !.tx = rtx, !.failure = result.failure,
                            !.expired = FALSE]
<1>1. /\ Save(u, p, r)
      /\ issued' = IF madeUp /\ result.tx # Nothing THEN Issue(u, p) ELSE issued
      /\ trail' = Audit(u, p, EventOf(result.status))
      /\ UNCHANGED <<uploads, files, evidence>>
  BY DEF ProcessCallback
<1>2. tx \in Nat \cup {Nothing} /\ bound \in Nat \cup {Nothing}
  BY DEF Known, IInv, TypeOK
<1>3. /\ result.status \in {"VERIFIED", "VERIFICATION_FAILED"}
      /\ result.tx \in Nat \cup {Nothing}
      /\ result.failure \in Failures \cup {Nothing}
  <2> HIDE DEF bound
  <2>1. CASE p \notin Configured
    BY <1>2, <2>1, ProviderAnswers
  <2>2. CASE p \in Configured /\ p = "AADHAAR"
    BY <1>2, <2>2, ProviderAnswers
  <2>3. CASE p \in Configured /\ p # "AADHAAR"
    <3>1. p = "DIGILOCKER"
      BY <2>3 DEF Providers
    <3> QED
      BY <1>2, <2>3, <3>1, ProviderAnswers
  <2> QED
    BY <2>1, <2>2, <2>3
<1>4. issued' \in Seq(Transaction)
  BY <1>1, IssueType DEF IInv, TypeOK
<1> HIDE DEF result, bound, madeUp
<1>5. old \in Record
  BY FetchedType DEF IInv
<1> HIDE DEF old
<1>6. rtx \in Nat \cup {Nothing}
  BY <1>3, <1>5 DEF Record
<1> HIDE DEF rtx
<1>7. r \in Record /\ r.status = result.status
  BY <1>3, <1>5, <1>6 DEF Record, Statuses
<1> HIDE DEF r
<1>8. EventOf(result.status) \in Events /\ StatusAfter(EventOf(result.status)) = result.status
  BY <1>3 DEF EventOf, Events, StatusAfter
<1>9. \E e \in Events : trail' = Audit(u, p, e) /\ r.status = StatusAfter(e)
  BY <1>1, <1>7, <1>8
<1> QED
  BY <1>1, <1>4, <1>7, <1>9, CommitKeeps DEF accountVars

LEMMA ExpireKeeps ==
  ASSUME IInv, NEW u \in Users, NEW p \in Providers, Expire(u, p), UNCHANGED accountVars
  PROVE  IInv'
<1> DEFINE r == [record[u][p] EXCEPT !.expired = TRUE]
<1>1. /\ record' = [record EXCEPT ![u] = [record[u] EXCEPT ![p] = r]]
      /\ record[u][p] # Nothing
      /\ UNCHANGED <<account, token, row, wish, trail, issued, commits, uploads, files, evidence>>
  BY DEF Expire, accountVars
<1>2. /\ record \in [Users -> [Providers -> Record \cup {Nothing}]]
      /\ record[u] \in [Providers -> Record \cup {Nothing}]
      /\ record[u][p] \in Record
  BY <1>1 DEF IInv, TypeOK
<1>3. r \in Record /\ r.status = record[u][p].status
  BY <1>2 DEF Record
<1> HIDE DEF r
<1>4. record' \in [Users -> [Providers -> Record \cup {Nothing}]]
  BY <1>1, <1>2, <1>3
<1>5. TypeOK'
  BY <1>1, <1>4 DEF IInv, TypeOK
<1>6. TrailExplainsStatus'
  <2>1. ASSUME NEW v \in Users, NEW q \in Providers, record'[v][q] # Nothing
        PROVE  record[v][q] # Nothing /\ record'[v][q].status = record[v][q].status
    BY <1>1, <1>2, <1>3, <2>1
  <2>2. ASSUME NEW v \in Users, NEW q \in Providers,
               record'[v][q] # Nothing, record'[v][q].status # "UNVERIFIED"
        PROVE  \E n \in DOMAIN trail :
                 LastRow(n, v, q) /\ record'[v][q].status = StatusAfter(trail[n].event)
    BY <2>1, <2>2 DEF IInv, TrailExplainsStatus
  <2> QED
    BY <1>1, <2>2 DEF TrailExplainsStatus, LastRow
<1>7. /\ PreferencesAreAnswered' /\ UploadsAreProven' /\ RowsArePast' /\ EvidenceIsSound'
      /\ FilesAreNumbered'
  BY <1>1 DEF IInv, PreferencesAreAnswered, UploadsAreProven, Proven, RowsArePast,
              EvidenceIsSound, EvidenceHasProvenance, RowHasFile, FilesAreNumbered
<1> QED
  BY <1>5, <1>6, <1>7 DEF IInv

(* An upload is admitted for a user who was verified before. *)
LEMMA BeginUploadKeeps ==
  ASSUME IInv, NEW u \in Users, BeginUpload(u), UNCHANGED accountVars
  PROVE  IInv'
<1>1. /\ uploads' = [uploads EXCEPT ![u] = @ + 1]
      /\ UNCHANGED <<account, token, row, wish, record, trail, issued, commits, files, evidence>>
  BY DEF BeginUpload, accountVars
<1>2. TypeOK'
  BY <1>1 DEF IInv, TypeOK
<1>3. Proven(u, Len(trail))
  BY VerifiedIsProven DEF IInv, BeginUpload
<1>4. UploadsAreProven'
  <2>1. ASSUME NEW v \in Users, uploads'[v] > 0 PROVE Proven(v, Len(trail))
    BY <1>1, <1>3, <2>1 DEF IInv, UploadsAreProven, TypeOK
  <2> QED
    BY <1>1, <2>1 DEF UploadsAreProven, Proven
<1>5. /\ PreferencesAreAnswered' /\ TrailExplainsStatus' /\ RowsArePast' /\ EvidenceIsSound'
      /\ FilesAreNumbered'
  BY <1>1 DEF IInv, PreferencesAreAnswered, TrailExplainsStatus, LastRow, RowsArePast,
              EvidenceIsSound, EvidenceHasProvenance, RowHasFile, FilesAreNumbered
<1> QED
  BY <1>2, <1>4, <1>5 DEF IInv

(* The end of an upload takes nothing from the others. *)
LEMMA UploadEnds ==
  ASSUME IInv, NEW u \in Users, uploads[u] > 0, uploads' = [uploads EXCEPT ![u] = @ - 1],
         UNCHANGED trail
  PROVE  uploads' \in [Users -> Nat] /\ UploadsAreProven'
<1>1. uploads \in [Users -> Nat]
  BY DEF IInv, TypeOK
<1>2. \A v \in Users : uploads'[v] \in Nat /\ (uploads'[v] > 0 => uploads[v] > 0)
  BY <1>1
<1>3. uploads' \in [Users -> Nat]
  BY <1>1, <1>2
<1>4. \A v \in Users : uploads'[v] > 0 => Proven(v, Len(trail))
  BY <1>2 DEF IInv, UploadsAreProven
<1>5. UploadsAreProven'
  BY <1>4 DEF UploadsAreProven, Proven
<1> QED
  BY <1>3, <1>5

LEMMA RefuseUploadKeeps ==
  ASSUME IInv, NEW u \in Users, RefuseUpload(u), UNCHANGED accountVars
  PROVE  IInv'
<1>1. /\ uploads[u] > 0 /\ uploads' = [uploads EXCEPT ![u] = @ - 1]
      /\ UNCHANGED <<account, token, row, wish, record, trail, issued, commits, files, evidence>>
  BY DEF RefuseUpload, accountVars
<1>2. uploads' \in [Users -> Nat] /\ UploadsAreProven'
  BY <1>1, UploadEnds
<1>3. TypeOK'
  BY <1>1, <1>2 DEF IInv, TypeOK
<1>4. /\ PreferencesAreAnswered' /\ TrailExplainsStatus' /\ RowsArePast' /\ EvidenceIsSound'
      /\ FilesAreNumbered'
  BY <1>1 DEF IInv, PreferencesAreAnswered, TrailExplainsStatus, LastRow, RowsArePast,
              EvidenceIsSound, EvidenceHasProvenance, RowHasFile, FilesAreNumbered
<1> QED
  BY <1>2, <1>3, <1>4 DEF IInv

(* A file that is written is a new one. *)
LEMMA WrittenIsNew ==
  ASSUME TypeOK, FilesAreNumbered, Written
  PROVE  /\ NewFile \in Nat /\ NewFile \notin files
         /\ files' = files \cup {NewFile}
         /\ files' \in SUBSET Nat /\ FilesAreNumbered'
<1>1. PICK n \in Nat : files = 1 .. n
  BY DEF FilesAreNumbered
<1>2. Cardinality(1 .. n) = n
  <2>1. Cardinality(1 .. n) = IF 1 > n THEN 0 ELSE n - 1 + 1
    BY FS_Interval
  <2> QED
    BY <2>1
<1>3. NewFile = n + 1
  BY <1>1, <1>2 DEF NewFile
<1>4. files' = 1 .. (n + 1) /\ n + 1 \in Nat
  BY <1>1, <1>3 DEF Written
<1> QED
  BY <1>1, <1>3, <1>4 DEF Written, FilesAreNumbered

LEMMA StoreCutOffKeeps ==
  ASSUME IInv, NEW u \in Users, StoreCutOff(u), UNCHANGED accountVars
  PROVE  IInv'
<1>1. /\ uploads[u] > 0 /\ uploads' = [uploads EXCEPT ![u] = @ - 1] /\ Written
      /\ UNCHANGED <<account, token, row, wish, record, trail, issued, commits, evidence>>
  BY DEF StoreCutOff, accountVars
<1>2. uploads' \in [Users -> Nat] /\ UploadsAreProven'
  BY <1>1, UploadEnds
<1>3. files' = files \cup {NewFile} /\ files' \in SUBSET Nat /\ FilesAreNumbered'
  BY <1>1, WrittenIsNew DEF IInv
<1>4. TypeOK'
  BY <1>1, <1>2, <1>3 DEF IInv, TypeOK
<1>5. /\ PreferencesAreAnswered' /\ TrailExplainsStatus' /\ RowsArePast'
  BY <1>1 DEF IInv, PreferencesAreAnswered, TrailExplainsStatus, LastRow, RowsArePast
<1>6. EvidenceIsSound'
  BY <1>1, <1>3 DEF IInv, EvidenceIsSound, EvidenceHasProvenance, RowHasFile
<1> QED
  BY <1>2, <1>3, <1>4, <1>5, <1>6 DEF IInv

LEMMA StoreEvidenceKeeps ==
  ASSUME IInv, NEW u \in Users, StoreEvidence(u), UNCHANGED accountVars
  PROVE  IInv'
<1>1. /\ uploads[u] > 0 /\ uploads' = [uploads EXCEPT ![u] = @ - 1] /\ Written
      /\ evidence' = Append(evidence, RowFor(u))
      /\ UNCHANGED <<account, token, row, wish, record, trail, issued, commits>>
  BY DEF StoreEvidence, accountVars
<1>2. uploads' \in [Users -> Nat] /\ UploadsAreProven'
  BY <1>1, UploadEnds
<1>3. /\ NewFile \in Nat /\ NewFile \notin files
      /\ files' = files \cup {NewFile} /\ files' \in SUBSET Nat /\ FilesAreNumbered'
  BY <1>1, WrittenIsNew DEF IInv
<1>4. Len(trail) \in Nat /\ evidence \in Seq(Photograph)
  BY DEF IInv, TypeOK
<1>5. /\ RowFor(u) \in Photograph
      /\ RowFor(u).file = NewFile /\ RowFor(u).owner = u /\ RowFor(u).after = Len(trail)
  BY <1>3, <1>4 DEF RowFor, Photograph
<1>6. PICK k \in Nat : k = Len(evidence)
  BY <1>4
<1>7. /\ evidence' \in Seq(Photograph)
      /\ DOMAIN evidence = 1 .. k /\ DOMAIN evidence' = 1 .. (k + 1)
      /\ \A i \in 1 .. k : evidence'[i] = evidence[i]
      /\ evidence'[k + 1] = RowFor(u)
  BY <1>1, <1>4, <1>5, <1>6
<1>8. TypeOK'
  BY <1>1, <1>2, <1>3, <1>7 DEF IInv, TypeOK
<1>9. PreferencesAreAnswered' /\ TrailExplainsStatus'
  BY <1>1 DEF IInv, PreferencesAreAnswered, TrailExplainsStatus, LastRow
<1>10. RowsArePast'
  <2>1. \A i \in 1 .. k : evidence'[i].after <= Len(trail)
    BY <1>7 DEF IInv, RowsArePast
  <2>2. evidence'[k + 1].after <= Len(trail)
    BY <1>4, <1>5, <1>7
  <2>3. \A i \in 1 .. (k + 1) : i \in 1 .. k \/ i = k + 1
    OBVIOUS
  <2> QED
    BY <1>1, <1>7, <2>1, <2>2, <2>3 DEF RowsArePast
<1>11. EvidenceHasProvenance'
  <2>1. ASSUME NEW i \in 1 .. (k + 1)
        PROVE  \E n \in 1 .. evidence'[i].after :
                 trail[n].user = evidence'[i].owner /\ trail[n].event = "IDENTITY_VERIFIED"
    <3>1. CASE i \in 1 .. k
      BY <1>7, <3>1 DEF IInv, EvidenceIsSound, EvidenceHasProvenance
    <3>2. CASE i = k + 1
      <4>1. Proven(u, Len(trail))
        BY <1>1 DEF IInv, UploadsAreProven
      <4> QED
        BY <1>5, <1>7, <3>2, <4>1 DEF Proven
    <3> QED
      BY <3>1, <3>2
  <2> QED
    BY <1>1, <1>7, <2>1 DEF EvidenceHasProvenance
<1>12. RowHasFile'
  <2>1. \A i \in 1 .. k : evidence'[i].file \in files
    BY <1>7 DEF IInv, EvidenceIsSound, RowHasFile
  <2>2. evidence'[k + 1].file = NewFile
    BY <1>5, <1>7
  <2>3. \A i \in 1 .. (k + 1) : i \in 1 .. k \/ i = k + 1
    OBVIOUS
  <2>4. \A i \in 1 .. (k + 1) : evidence'[i].file \in files'
    BY <1>3, <2>1, <2>2, <2>3
  <2>5. \A i, j \in 1 .. k : i # j => evidence'[i].file # evidence'[j].file
    BY <1>7 DEF IInv, EvidenceIsSound, RowHasFile
  <2>6. \A i \in 1 .. k : evidence'[i].file # evidence'[k + 1].file
    BY <1>3, <2>1, <2>2
  <2>7. \A i, j \in 1 .. (k + 1) : i # j => evidence'[i].file # evidence'[j].file
    BY <2>3, <2>5, <2>6
  <2> QED
    BY <1>7, <2>4, <2>7 DEF RowHasFile
<1> QED
  BY <1>2, <1>3, <1>8, <1>9, <1>10, <1>11, <1>12 DEF IInv, EvidenceIsSound

(* Requests of accounts leave the identity tables alone. *)
LEMMA AccountKeeps ==
  ASSUME IInv, NEW u \in Users, Account(u)
  PROVE  IInv'
<1>1. UNCHANGED <<record, trail, issued, commits, uploads, files, evidence>>
  BY DEF Account, identityVars
<1>2. /\ TrailExplainsStatus' /\ UploadsAreProven' /\ RowsArePast' /\ EvidenceIsSound'
      /\ FilesAreNumbered'
  BY <1>1 DEF IInv, TrailExplainsStatus, LastRow, UploadsAreProven, Proven, RowsArePast,
              EvidenceIsSound, EvidenceHasProvenance, RowHasFile, FilesAreNumbered
<1>3. /\ account \in [Users -> {"absent", "active", "disabled"}] /\ token \in SUBSET Users
      /\ row \in [Users -> [Types -> Wishes \cup {Nothing}]]
  BY DEF IInv, TypeOK
<1>4. CASE Register(u) \/ Login(u) \/ TokenExpires(u) \/ Disable(u)
  <2>1. /\ account' \in [Users -> {"absent", "active", "disabled"}]
        /\ token' \in SUBSET Users
        /\ UNCHANGED <<row, wish>>
    BY <1>3, <1>4 DEF Register, Login, TokenExpires, Disable
  <2>2. TypeOK' /\ PreferencesAreAnswered'
    BY <1>1, <2>1 DEF IInv, TypeOK, PreferencesAreAnswered
  <2> QED
    BY <1>2, <2>2 DEF IInv
<1>5. CASE \E list \in Lists : UpdateSubscriptions(u, list)
  <2>1. PICK list \in Lists : UpdateSubscriptions(u, list)
    BY <1>5
  <2>2. PreferencesAreAnswered' /\ row' \in [Users -> [Types -> Wishes \cup {Nothing}]]
    BY <2>1, UpdateAnswers DEF IInv
  <2>3. UNCHANGED <<account, token>>
    BY <2>1 DEF UpdateSubscriptions
  <2>4. TypeOK'
    BY <1>1, <2>2, <2>3 DEF IInv, TypeOK
  <2> QED
    BY <1>2, <2>2, <2>4 DEF IInv
<1> QED
  BY <1>4, <1>5 DEF Account

LEMMA InitHolds == Init => IInv
<1> SUFFICES ASSUME Init PROVE IInv
  OBVIOUS
<1>1. trail = <<>> /\ evidence = <<>> /\ files = {} /\ issued = <<>>
  BY DEF Init, IdentityInit
<1>2. TypeOK
  BY <1>1 DEF Init, AccountsInit, IdentityInit, TypeOK
<1>3. TrailExplainsStatus
  BY DEF Init, IdentityInit, TrailExplainsStatus
<1>4. UploadsAreProven
  BY DEF Init, IdentityInit, UploadsAreProven
<1>5. RowsArePast /\ EvidenceIsSound
  BY <1>1 DEF RowsArePast, EvidenceIsSound, EvidenceHasProvenance, RowHasFile
<1>6. FilesAreNumbered
  <2>1. files = 1 .. 0
    BY <1>1
  <2> QED
    BY <2>1 DEF FilesAreNumbered
<1>7. PreferencesAreAnswered
  BY DEF Init, AccountsInit, PreferencesAreAnswered
<1> QED
  BY <1>2, <1>3, <1>4, <1>5, <1>6, <1>7 DEF IInv

LEMMA NextKeeps == IInv /\ [Next]_vars => IInv'
<1> SUFFICES ASSUME IInv, [Next]_vars PROVE IInv'
  OBVIOUS
<1>1. CASE UNCHANGED vars
  <2>1. UNCHANGED <<account, token, row, wish, record, trail, issued, commits, uploads, files,
                    evidence>>
    BY <1>1 DEF vars
  <2>2. TypeOK'
    BY <2>1 DEF IInv, TypeOK
  <2>3. PreferencesAreAnswered' /\ TrailExplainsStatus'
    BY <2>1 DEF IInv, PreferencesAreAnswered, TrailExplainsStatus, LastRow
  <2>4. UploadsAreProven' /\ RowsArePast' /\ FilesAreNumbered'
    BY <2>1 DEF IInv, UploadsAreProven, Proven, RowsArePast, FilesAreNumbered
  <2>5. EvidenceIsSound'
    BY <2>1 DEF IInv, EvidenceIsSound, EvidenceHasProvenance, RowHasFile
  <2> QED
    BY <2>2, <2>3, <2>4, <2>5 DEF IInv
<1>2. CASE Next
  <2>1. PICK u \in Users : Account(u) \/ Request(u) \/ Continue(u)
    BY <1>2 DEF Next
  <2>2. CASE Account(u)
    BY <2>2, AccountKeeps
  <2>3. CASE Request(u)
    <3>1. UNCHANGED accountVars /\ (Verify(u) \/ BeginUpload(u))
      BY <2>3 DEF Request
    <3>2. CASE BeginUpload(u)
      BY <3>1, <3>2, BeginUploadKeeps
    <3>3. CASE Verify(u)
      <4>1. PICK p \in Providers :
              \/ \E consent \in BOOLEAN : StartRefused(u, p, consent) \/ StartVerification(u, p, consent)
              \/ \E tx \in Known(u, p), outcome \in Outcomes(p) : ProcessCallback(u, p, tx, outcome)
        BY <3>3 DEF Verify
      <4> QED
        BY <3>1, <4>1, StartRefusedKeeps, StartVerificationKeeps, ProcessCallbackKeeps
    <3> QED
      BY <3>1, <3>2, <3>3
  <2>4. CASE Continue(u)
    BY <2>4, StoreEvidenceKeeps, StoreCutOffKeeps, RefuseUploadKeeps, ExpireKeeps DEF Continue
  <2> QED
    BY <2>1, <2>2, <2>3, <2>4
<1> QED
  BY <1>1, <1>2

LEMMA Inductive == Spec => []IInv
  BY InitHolds, NextKeeps, PTL DEF Spec

(* Every variable of Citizens holds a value of its type. *)
THEOREM TypeCorrect == Spec => []TypeOK
<1>1. IInv => TypeOK
  BY DEF IInv
<1> QED
  BY <1>1, Inductive, PTL

(* The preferences in the database are what the user last asked for. *)
THEOREM AnsweredPreferencesStand == Spec => []PreferencesAreAnswered
<1>1. IInv => PreferencesAreAnswered
  BY DEF IInv
<1> QED
  BY <1>1, Inductive, PTL

(* The status of a record is the one its last audit row explains. *)
THEOREM TrailExplainsEveryStatus == Spec => []TrailExplainsStatus
<1>1. IInv => TrailExplainsStatus
  BY DEF IInv
<1> QED
  BY <1>1, Inductive, PTL

(* Every stored photograph has a file of its own, and an owner who was verified *)
(* before it was stored.                                                        *)
THEOREM StoredEvidenceIsSound == Spec => []EvidenceIsSound
<1>1. IInv => EvidenceIsSound
  BY DEF IInv
<1> QED
  BY <1>1, Inductive, PTL
=============================================================================
