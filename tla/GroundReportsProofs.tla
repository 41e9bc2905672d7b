------------------------ MODULE GroundReportsProofs ------------------------
(***************************************************************************)
(* Proofs about GroundReports, for any users, keys, observations and       *)
(* bounds: types; a key names one report; the groups of repetitions; the   *)
(* audit trail; and what a citizen needs to be heard by the risk models.   *)
(*                                                                         *)
(* The argument: rows and entries are only ever added, and a row keeps its *)
(* user, its key and its group (Grown); so whatever supported a report     *)
(* when it was scored is still there, and who is trusted with no support   *)
(* has two reports that were accepted, whose entries are in the trail.     *)
(***************************************************************************)
EXTENDS GroundReports, FiniteSetTheorems, WellFoundedInduction, TLAPS

\* The users, other than u, that have an observation of their own in the table.
OthersThan(u) ==
    {reports[j].user : j \in {k \in Rows : ~ IsDuplicate(reports[k])}} \ {u}

\* The entries of Redis and the answers tell of rows of the user's, under the key.
KeysAreUnique ==
    \A i, j \in Rows :
        reports[i].user = reports[j].user /\ reports[i].key = reports[j].key
            /\ reports[i].key # NoKey => i = j
IsOf(i, u, k) == i \in Rows /\ reports[i].user = u /\ reports[i].key = k
CacheIsTrue == \A u \in Users, k \in Keys : cached[<<u, k>>] # 0 => IsOf(cached[<<u, k>>], u, k)
AnswersAreTrue == \A x \in answers : IsOf(x[3], x[1], x[2])

\* A citizen is trusted with 60 points when somebody else reports too, or when
\* two of his own have been accepted.
Heard(u) == OthersThan(u) # {} \/ Cardinality(EverAccepted(u)) > 1
TrustIsEarned ==
    \A i \in Rows : /\ reports[i].trust >= MinTrust /\ reports[i].user \notin Officials
                         => Heard(reports[i].user)
                    /\ reports[i].eligible => reports[i].trust >= MinTrust

\* Nobody has observed what is still to come.
ObservedIsPast == \A i \in Rows : reports[i].observed <= now

IInv ==
    /\ TypeOK /\ ObservedIsPast /\ KeysAreUnique /\ CacheIsTrue /\ AnswersAreTrue
    /\ GroupHasOneRoot /\ TrailTellsReport /\ SupportTakesObservers /\ TrustIsEarned

-----------------------------------------------------------------------------
(* The scores.                                                             *)

LEMMA GeoRange ==
  ASSUME NEW place, NEW type PROVE GeoPlausibility(place, type) \in Score
<1> DEFINE base == IF place.inIndia THEN 40 ELSE 20
           landslide == IF place.landslide <= 10 THEN 30 ELSE IF place.landslide <= 25 THEN 15 ELSE 0
           road == IF place.road <= 1 THEN 30
                   ELSE IF place.road <= 5 \/ (type \notin RoadCentric /\ landslide > 0) THEN 15
                   ELSE 0
<1>1. base \in Int /\ landslide \in Int /\ road \in Int
  OBVIOUS
<1>2. GeoPlausibility(place, type) = 100 * Clamped(0, 100, base + landslide + road)
  BY DEF GeoPlausibility
<1> HIDE DEF base, landslide, road
<1>3. base + landslide + road \in Int
  BY <1>1
<1>4. Clamped(0, 100, base + landslide + road) \in 0 .. 100
  BY <1>3 DEF Clamped, Greatest, Least
<1> QED
  BY <1>2, <1>4, SMT DEF Score

LEMMA FreshnessRange ==
  ASSUME NEW weeks \in Nat PROVE Freshness(weeks) \in Score
<1> DEFINE decay == <<10000, 3679, 1353, 498, 183, 67, 25, 9, 3, 1>>
<1>1. Len(decay) = 10
  OBVIOUS
<1>2. \A n \in 1 .. 10 : decay[n] \in Score
  BY SMT DEF Score
<1>3. Freshness(weeks) = IF weeks < Len(decay) THEN decay[weeks + 1] ELSE 0
  BY DEF Freshness
<1> HIDE DEF decay
<1>4. CASE weeks < Len(decay)
  <2>1. weeks < 10
    BY <1>1, <1>4
  <2>2. weeks + 1 \in 1 .. 10
    BY <2>1
  <2>3. decay[weeks + 1] \in Score
    BY <1>2, <2>2
  <2>4. Freshness(weeks) = decay[weeks + 1]
    BY <1>3, <1>4, Zenon
  <2> QED
    BY <2>3, <2>4, Zenon
<1>5. CASE ~ (weeks < Len(decay))
  BY <1>3, <1>5, SMT DEF Score
<1> QED
  BY <1>4, <1>5

\* What the reliability of a citizen is at most when one report was accepted.
OneAccepted == 5500

(* An observer nobody has accepted twice stays below 60 points, unless he is *)
(* an official.                                                              *)
LEMMA ReliabilityRange ==
  ASSUME NEW u, NEW a \in Nat, NEW b \in Nat, NEW d \in Nat
  PROVE  /\ Reliability(u \in Officials, a, b, d) \in Score
         /\ u \notin Officials /\ a <= 1 => Reliability(u \in Officials, a, b, d) <= OneAccepted
<1> DEFINE p == IF u \in Officials THEN 60 ELSE 50
           x == p + 5 * a - 15 * b - 10 * d
<1>1. Reliability(u \in Officials, a, b, d) = 100 * Clamped(5, 100, x)
  BY DEF Reliability
<1>2. p \in {50, 60} /\ (u \notin Officials => p = 50)
  OBVIOUS
<1> HIDE DEF p
<1>3. x \in Int /\ (p = 50 /\ a <= 1 => x <= 55)
  BY <1>2
<1> HIDE DEF x
<1>4. Clamped(5, 100, x) \in 5 .. 100 /\ (x <= 55 => Clamped(5, 100, x) <= 55)
  BY <1>3 DEF Clamped, Greatest, Least
<1> QED
  BY <1>1, <1>2, <1>3, <1>4, SMT DEF Score, OneAccepted

LEMMA CorroborationRange ==
  ASSUME NEW w \in Nat
  PROVE  /\ Corroboration(w) \in Score
         /\ w = 0 => Corroboration(w) = 0
         /\ w <= 7 => Corroboration(w) < FullSupport
<1>1. CASE w = 0
  BY <1>1, SMT DEF Corroboration, Score, FullSupport
<1>2. CASE w \in 1 .. 3
  BY <1>2, SMT DEF Corroboration, Score, FullSupport
<1>3. CASE w \in 4 .. 7
  BY <1>3, SMT DEF Corroboration, Score, FullSupport
<1>4. CASE w \in 8 .. 11
  BY <1>4, SMT DEF Corroboration, Score, FullSupport
<1>5. CASE w > 11
  BY <1>5, SMT DEF Corroboration, Score, FullSupport
<1> QED
  BY <1>1, <1>2, <1>3, <1>4, <1>5

(* Without support, it takes a reliable observer to be trusted. *)
LEMMA TrustRange ==
  ASSUME NEW geo \in Score, NEW temporal \in Score, NEW user \in Score,
         NEW corroboration \in Score
  PROVE  /\ Trust(geo, temporal, user, corroboration) \in Score
         /\ corroboration = 0 /\ user <= OneAccepted => Trust(geo, temporal, user, corroboration) < MinTrust
<1> DEFINE x == 25 * geo + 20 * temporal + 25 * user + 30 * corroboration
           n == Rounded(x)
<1>1. geo \in Int /\ temporal \in Int /\ user \in Int /\ corroboration \in Int
      /\ geo <= 10000 /\ temporal <= 10000
  BY SMT DEF Score
<1>2. x \in Int /\ (corroboration = 0 /\ user <= OneAccepted => x <= 587500)
  BY <1>1, SMT DEF OneAccepted
<1> HIDE DEF x
<1>3. n \in Int /\ (corroboration = 0 /\ user <= OneAccepted => n < MinTrust)
  BY <1>2, SMT DEF Rounded, OneAccepted, MinTrust
<1>4. Trust(geo, temporal, user, corroboration) = Clamped(0, 10000, n)
  BY DEF Trust, x
<1> HIDE DEF n
<1>5. Clamped(0, 10000, n) \in Score /\ (n < MinTrust => Clamped(0, 10000, n) < MinTrust)
  BY <1>3, SMT DEF Clamped, Greatest, Least, Score, MinTrust
<1> QED
  BY <1>3, <1>4, <1>5

-----------------------------------------------------------------------------
(* Finite sets.                                                            *)

(* Who appears in a set of rows. *)
LEMMA UsersOfRows ==
  ASSUME reports \in Seq(Report), NEW S \in SUBSET Rows
  PROVE  IsFiniteSet(S) /\ IsFiniteSet({reports[i].user : i \in S})
<1> DEFINE U == {reports[i].user : i \in S}
           f == [i \in S |-> reports[i].user]
<1>1. Rows = 1 .. Len(reports) /\ Len(reports) \in Nat
  BY DEF Rows
<1>2. IsFiniteSet(S)
  <2>1. IsFiniteSet(1 .. Len(reports))
    BY <1>1, FS_Interval
  <2> QED
    BY <1>1, <2>1, FS_Subset
<1>3. f \in Surjection(S, U)
  BY DEF Surjection
<1> HIDE DEF f, U
<1>4. IsFiniteSet(U)
  BY <1>2, <1>3, FS_Surjection
<1> QED
  BY <1>2, <1>4 DEF U

LEMMA OthersAreFinite ==
  ASSUME reports \in Seq(Report), NEW u
  PROVE  /\ IsFiniteSet(OthersThan(u)) /\ Cardinality(OthersThan(u)) \in Nat
         /\ OthersThan(u) = {} <=> Cardinality(OthersThan(u)) = 0
<1> DEFINE own == {k \in Rows : ~ IsDuplicate(reports[k])}
           U == {reports[j].user : j \in own}
<1>1. IsFiniteSet(U)
  BY UsersOfRows
<1>2. OthersThan(u) = U \ {u}
  BY DEF OthersThan
<1> HIDE DEF U
<1>3. IsFiniteSet(OthersThan(u))
  BY <1>1, <1>2, FS_Subset
<1> QED
  BY <1>3, FS_CardinalityType, FS_EmptySet

(* What supports a report is counted once for each other observer. *)
LEMMA SupportBound ==
  ASSUME reports \in Seq(Report), NEW r, NEW id, NEW w \in SupportOf(r, id)
  PROVE  w \in Nat /\ w <= 7 * Cardinality(OthersThan(r.user))
<1> DEFINE support == {i \in Rows \ {id} : Supports(r, i)}
           observers == {reports[i].user : i \in support}
           firsts == {f \in [observers -> support] : \A u \in observers : reports[f[u]].user = u}
           alike(f) == {u \in observers : reports[f[u]].type = r.type}
           others == OthersThan(r.user)
<1>1. PICK f \in firsts : w = Quarters(Cardinality(alike(f)), Cardinality(observers \ alike(f)))
  BY DEF SupportOf
<1>2. observers \subseteq others
  BY DEF Supports, OthersThan
<1> DEFINE same == alike(f)
           rest == observers \ same
<1>3. w = Quarters(Cardinality(same), Cardinality(rest))
  BY <1>1
<1>4. same \subseteq others /\ rest \subseteq others
  BY <1>2
<1> HIDE DEF same, rest, others
<1>5. IsFiniteSet(others) /\ Cardinality(others) \in Nat
  BY OthersAreFinite DEF others
<1>6. /\ Cardinality(same) \in Nat /\ Cardinality(same) <= Cardinality(others)
      /\ Cardinality(rest) \in Nat /\ Cardinality(rest) <= Cardinality(others)
  BY <1>4, <1>5, FS_Subset, FS_CardinalityType
<1> QED
  BY <1>3, <1>5, <1>6 DEF Quarters, others

(* Reliability comes from reports that are in the table. *)
LEMMA ReliabilityOfRange ==
  ASSUME TypeOK, TrailTellsReport, NEW u \in Users
  PROVE  /\ ReliabilityOf(u) \in Score
         /\ \/ u \in Officials
            \/ ReliabilityOf(u) <= OneAccepted
            \/ Cardinality(EverAccepted(u)) > 1
<1> DEFINE mine == {i \in Rows : reports[i].user = u}
           accepted == {i \in mine : reports[i].status = "ACCEPTED"}
           rejected == {i \in mine : reports[i].status = "REJECTED"}
           repeated == {i \in mine : IsDuplicate(reports[i])}
<1>1. reports \in Seq(Report)
  BY DEF TypeOK
<1>2. accepted \in SUBSET Rows /\ rejected \in SUBSET Rows /\ repeated \in SUBSET Rows
      /\ EverAccepted(u) \in SUBSET Rows
  BY DEF EverAccepted
<1>3. accepted \subseteq EverAccepted(u)
  BY DEF TrailTellsReport, EndsTrail, EverAccepted
<1> DEFINE a == Cardinality(accepted)
           b == Cardinality(rejected)
           d == Cardinality(repeated)
           n == Cardinality(EverAccepted(u))
<1>4. ReliabilityOf(u) = Reliability(u \in Officials, a, b, d)
  BY DEF ReliabilityOf
<1>5. a \in Nat /\ b \in Nat /\ d \in Nat /\ n \in Nat /\ a <= n
  <2> HIDE DEF accepted, rejected, repeated
  <2> QED
    BY <1>1, <1>2, <1>3, UsersOfRows, FS_CardinalityType, FS_Subset
<1> HIDE DEF a, b, d, n
<1>6. /\ Reliability(u \in Officials, a, b, d) \in Score
      /\ u \notin Officials /\ a <= 1 => Reliability(u \in Officials, a, b, d) <= OneAccepted
  BY <1>5, ReliabilityRange, Zenon
<1>7. a <= 1 \/ n > 1
  BY <1>5
<1> QED
  BY <1>4, <1>6, <1>7, Zenon DEF n

-----------------------------------------------------------------------------
(* The rows the handlers write.                                            *)

\* What a row keeps for ever.
SameOrigin(r, b) ==
    /\ r.user = b.user /\ r.key = b.key
    /\ r.duplicateOf = b.duplicateOf /\ r.group = b.group
    /\ r.observed = b.observed

LEMMA GatedFields ==
  ASSUME NEW b \in Report
  PROVE  /\ Gated(b) \in Report /\ SameOrigin(Gated(b), b)
         /\ Gated(b).status = b.status /\ Gated(b).trust = b.trust
         /\ Gated(b).support = b.support
         /\ Gated(b).eligible => b.trust >= MinTrust
<1> DEFINE e == Eligible(b.trust, IsDuplicate(b), b.status, Age(b), b.geo)
<1>1. e \in BOOLEAN
  BY DEF Eligible
<1>2. e => b.trust >= MinTrust
  BY DEF Eligible
<1>3. Gated(b) = [b EXCEPT !.eligible = e]
  BY DEF Gated
<1> HIDE DEF e
<1>4. Gated(b).eligible = e
  BY <1>3 DEF Report
<1>5. /\ Gated(b) \in Report /\ SameOrigin(Gated(b), b)
      /\ Gated(b).status = b.status /\ Gated(b).trust = b.trust
      /\ Gated(b).support = b.support
  BY <1>1, <1>3 DEF Report, SameOrigin
<1> QED
  BY <1>4, <1>5, <1>2, Zenon

(* What the scores say of the table they were computed from. *)
LEMMA ScoredFields ==
  ASSUME TypeOK, TrailTellsReport, NEW b \in Report, b.observed <= now,
         NEW id, NEW w \in SupportOf(b, id)
  PROVE  /\ Scored(b, w) \in Report /\ SameOrigin(Scored(b, w), b)
         /\ Scored(b, w).status = b.status
         /\ Scored(b, w).support > 0 => OthersThan(b.user) # {}
         /\ Scored(b, w).support >= FullSupport => Cardinality(OthersThan(b.user)) > 1
         /\ Scored(b, w).eligible => Scored(b, w).trust >= MinTrust
         /\ Scored(b, w).trust >= MinTrust /\ b.user \notin Officials => Heard(b.user)
<1> DEFINE geo == GeoPlausibility(b.place, b.type)
           support == Corroboration(w)
           fresh == Freshness(Age(b))
           rel == ReliabilityOf(b.user)
           trust == Trust(geo, fresh, rel, support)
           n == Cardinality(OthersThan(b.user))
<1>1. /\ w \in Nat /\ w <= 7 * n /\ n \in Nat
      /\ OthersThan(b.user) = {} <=> n = 0
  BY SupportBound, OthersAreFinite DEF TypeOK
<1>2. Age(b) \in Nat
  BY DEF Age, TypeOK, Report
<1>3. b.user \in Users
  BY DEF Report
<1>4. /\ geo \in Score /\ fresh \in Score /\ rel \in Score /\ support \in Score
      /\ b.user \in Officials \/ rel <= OneAccepted \/ Cardinality(EverAccepted(b.user)) > 1
      /\ w = 0 => support = 0
      /\ w <= 7 => support < FullSupport
  BY <1>1, <1>2, <1>3, GeoRange, FreshnessRange, ReliabilityOfRange, CorroborationRange
<1> DEFINE r1 == [b EXCEPT !.geo = geo]
           r2 == [r1 EXCEPT !.support = support]
           r3 == [r2 EXCEPT !.trust = trust]
<1>5. Scored(b, w) = Gated(r3)
  BY DEF Scored
<1> HIDE DEF geo, fresh, rel, support, n
<1>6. trust \in Score /\ (support = 0 /\ rel <= OneAccepted => trust < MinTrust)
  BY <1>4, TrustRange
<1> HIDE DEF trust
<1>7. r1 \in Report /\ SameOrigin(r1, b) /\ r1.status = b.status
  BY <1>4 DEF Report, SameOrigin
<1> HIDE DEF r1
<1>8. r2 \in Report /\ SameOrigin(r2, b) /\ r2.status = b.status /\ r2.support = support
  BY <1>4, <1>7 DEF Report, SameOrigin
<1> HIDE DEF r2
<1>9. /\ r3 \in Report /\ SameOrigin(r3, b) /\ r3.status = b.status
      /\ r3.support = support /\ r3.trust = trust
  BY <1>6, <1>8 DEF Report, SameOrigin
<1> HIDE DEF r3
<1>10. /\ Scored(b, w) \in Report /\ SameOrigin(Scored(b, w), b)
       /\ Scored(b, w).status = b.status
       /\ Scored(b, w).support = support /\ Scored(b, w).trust = trust
       /\ Scored(b, w).eligible => trust >= MinTrust
  BY <1>5, <1>9, GatedFields DEF SameOrigin
<1>11. support \in Score /\ (w = 0 => support = 0) /\ (w <= 7 => support < FullSupport)
  BY <1>4
<1>12. support # 0 => n # 0
  BY <1>1, <1>11, SMT
<1>13. support >= FullSupport => n > 1
  BY <1>1, <1>11, SMT DEF Score, FullSupport
<1>14. trust >= MinTrust => support # 0 \/ ~ (rel <= OneAccepted)
  BY <1>6, SMT DEF Score, MinTrust
<1>15. support > 0 => n # 0
  BY <1>12, <1>11, SMT DEF Score
<1>16. trust >= MinTrust /\ b.user \notin Officials => Heard(b.user)
  BY <1>1, <1>4, <1>12, <1>14, Zenon DEF Heard
<1>17. support >= FullSupport => Cardinality(OthersThan(b.user)) > 1
  BY <1>13 DEF n
<1> QED
  BY <1>1, <1>10, <1>15, <1>16, <1>17, Zenon

LEMMA NewFields ==
  ASSUME TypeOK, NEW u \in Users, NEW k \in Keys \cup {NoKey}, NEW o \in Observations
  PROVE  /\ New(u, k, o) \in Report /\ New(u, k, o).user = u /\ New(u, k, o).key = k
         /\ New(u, k, o).duplicateOf = 0 /\ New(u, k, o).status = "SUBMITTED"
         /\ New(u, k, o).observed <= now
<1>1. now - o.ago \in Int /\ now - o.ago <= now
  <2>1. o.ago \in 0 .. 52
    BY GroundAssumption
  <2>2. now \in Nat
    BY GroundAssumption DEF TypeOK
  <2> QED
    BY <2>1, <2>2
<1>2. 0 \in Score
  BY SMT DEF Score
<1>3. /\ o.place \in {x.place : x \in Observations} /\ o.type \in {x.type : x \in Observations}
      /\ o.text \in {x.text : x \in Observations}
  OBVIOUS
<1> DEFINE ob == now - o.ago
           pl == o.place
           ty == o.type
           te == o.text
<1> HIDE DEF ob, pl, ty, te
<1>4. New(u, k, o) =
        [user |-> u, key |-> k, place |-> pl, type |-> ty, text |-> te,
         observed |-> ob, status |-> "SUBMITTED", duplicateOf |-> 0, group |-> 0,
         geo |-> 0, support |-> 0, trust |-> 0, eligible |-> FALSE]
  BY DEF New, ob, pl, ty, te
<1>5. New(u, k, o) \in Report
  BY <1>1, <1>2, <1>3, <1>4 DEF Report, Statuses, ob, pl, ty, te
<1> QED
  BY <1>1, <1>4, <1>5 DEF ob

LEMMA LeastElement ==
  ASSUME NEW S \in SUBSET Nat, S # {} PROVE \E x \in S : \A y \in S : x <= y
<1> DEFINE Below == OpToRel(<, Nat)
<1>1. \A x, y \in Nat : <<y, x>> \in Below <=> y < x
  BY DEF OpToRel
<1>2. IsWellFoundedOn(Below, Nat)
  BY NatLessThanWellFounded
<1> HIDE DEF Below
<1>3. PICK x \in S : \A y \in S : ~ (<<y, x>> \in Below)
  BY <1>2, WFMin, Zenon
<1>4. ASSUME NEW y \in S PROVE x <= y
  <2>1. x \in Nat /\ y \in Nat
    OBVIOUS
  <2>2. ~ (y < x)
    BY <1>1, <1>3, <2>1, Zenon
  <2> QED
    BY <2>1, <2>2
<1> QED
  BY <1>4

(* A row repeats one of the rows that are there, and joins its group. *)
LEMMA DeduplicatedFields ==
  ASSUME TypeOK, NEW r \in Report, r.duplicateOf = 0, NEW id \in Nat
  PROVE  LET d == Deduplicated(r, id) IN
         /\ d \in Report /\ d.user = r.user /\ d.key = r.key /\ d.observed = r.observed
         /\ \/ d.duplicateOf = 0 /\ d.group = id /\ d.status = r.status
            \/ /\ d.duplicateOf \in Rows /\ d.group = reports[d.duplicateOf].group
               /\ d.status = "DUPLICATE"
<1>1. CASE Repeats(r) = {}
  <2> DEFINE d == [r EXCEPT !.group = id]
  <2>1. Deduplicated(r, id) = d
    BY <1>1 DEF Deduplicated
  <2>2. /\ d \in Report /\ d.user = r.user /\ d.key = r.key /\ d.observed = r.observed
        /\ d.duplicateOf = 0 /\ d.group = id /\ d.status = r.status
    BY DEF Report
  <2> QED
    BY <2>1, <2>2, Zenon
<1>2. CASE Repeats(r) # {}
  <2> DEFINE f == Min(Repeats(r))
             g == GroupOf(f)
             d1 == [r EXCEPT !.duplicateOf = f]
             d2 == [d1 EXCEPT !.group = g]
             d == [d2 EXCEPT !.status = "DUPLICATE"]
  <2>1. Deduplicated(r, id) = d
    BY <1>2 DEF Deduplicated
  <2>2. Rows \subseteq Nat /\ Repeats(r) \subseteq Rows
    BY DEF TypeOK, Rows, Repeats
  <2>3. \E x \in Repeats(r) : \A y \in Repeats(r) : x <= y
    BY <1>2, <2>2, LeastElement
  <2>4. f \in Rows /\ f \in Nat
    BY <2>2, <2>3 DEF Min
  <2>5. reports[f] \in Report
    BY <2>4 DEF TypeOK, Rows
  <2>6. g \in Nat /\ g = reports[f].group
    BY <2>5 DEF GroupOf, Report
  <2> HIDE DEF f, g
  <2>7. /\ d1 \in Report /\ d1.user = r.user /\ d1.key = r.key /\ d1.observed = r.observed
        /\ d1.duplicateOf = f
    BY <2>4 DEF Report
  <2> HIDE DEF d1
  <2>8. /\ d2 \in Report /\ d2.user = r.user /\ d2.key = r.key /\ d2.observed = r.observed
        /\ d2.duplicateOf = f /\ d2.group = g
    BY <2>6, <2>7 DEF Report
  <2> HIDE DEF d2
  <2>9. /\ d \in Report /\ d.user = r.user /\ d.key = r.key /\ d.observed = r.observed
        /\ d.duplicateOf = f /\ d.group = g /\ d.status = "DUPLICATE"
    BY <2>8 DEF Report, Statuses
  <2> HIDE DEF d
  <2> QED
    BY <2>1, <2>4, <2>6, <2>9, Zenon
<1> QED
  BY <1>1, <1>2

-----------------------------------------------------------------------------
(* Rows and entries are only ever added.                                   *)

Actions == {"CREATED", "TRUST_RECALCULATED", "STATUS_UPDATED"}
Line(R) == [report : R, action : Actions, before : Statuses \cup {"NONE"}, status : Statuses,
            trust : Score, eligible : BOOLEAN]

\* A handler writes row i as r, a new one or one that is there, and its entry.
Writes(i, r, a) ==
    /\ \/ i \in Rows /\ reports' = [reports EXCEPT ![i] = r] /\ SameOrigin(r, reports[i])
       \/ i = Len(reports) + 1 /\ reports' = Append(reports, r)
    /\ trail' = Append(trail, Entry(i, a, IF i \in Rows THEN reports[i].status ELSE "NONE", r))

Grown ==
    /\ \A i \in Rows : i \in Rows' /\ SameOrigin(reports'[i], reports[i])
    /\ \A n \in DOMAIN trail : n \in DOMAIN trail' /\ trail'[n] = trail[n]

LEMMA WriteFields ==
  ASSUME TypeOK, NEW i, NEW r \in Report, NEW a \in Actions, Writes(i, r, a)
  PROVE  /\ reports' \in Seq(Report) /\ trail' \in Seq(Line(Rows'))
         /\ i \in Nat \ {0} /\ (i \in Rows \/ i = Len(reports) + 1) /\ Rows' = Rows \cup {i}
         /\ \A j \in Rows' : reports'[j] = IF j = i THEN r ELSE reports[j]
         /\ DOMAIN trail' = 1 .. Len(trail) + 1 /\ DOMAIN trail = 1 .. Len(trail)
         /\ Len(trail) \in Nat
         /\ \A n \in DOMAIN trail : trail'[n] = trail[n]
         /\ trail'[Len(trail) + 1].report = i
         /\ i \in Rows => trail'[Len(trail) + 1].before = reports[i].status
         /\ i \notin Rows => trail'[Len(trail) + 1].before = "NONE"
         /\ trail'[Len(trail) + 1].status = r.status
         /\ trail'[Len(trail) + 1].trust = r.trust
         /\ trail'[Len(trail) + 1].eligible = r.eligible
         /\ Grown
<1>1. /\ reports \in Seq(Report) /\ Len(reports) \in Nat /\ Rows = 1 .. Len(reports)
      /\ trail \in Seq(Line(Rows))
  BY DEF TypeOK, Rows, Line, Actions
<1>2. /\ reports' \in Seq(Report) /\ i \in Nat \ {0} /\ Rows' = Rows \cup {i}
      /\ \A j \in Rows' : reports'[j] = IF j = i THEN r ELSE reports[j]
  <2>1. CASE i \in Rows /\ reports' = [reports EXCEPT ![i] = r]
    BY <1>1, <2>1 DEF Rows
  <2>2. CASE i = Len(reports) + 1 /\ reports' = Append(reports, r)
    BY <1>1, <2>2 DEF Rows
  <2> QED
    BY <2>1, <2>2 DEF Writes
<1> DEFINE before == IF i \in Rows THEN reports[i].status ELSE "NONE"
           t == Entry(i, a, before, r)
<1>3. before \in Statuses \cup {"NONE"}
  <2>1. ASSUME i \in Rows PROVE reports[i].status \in Statuses
    <3>1. reports[i] \in Report
      BY <1>1, <2>1
    <3> QED
      BY <3>1 DEF Report
  <2> QED
    BY <2>1
<1> HIDE DEF before
<1>4. /\ t \in Line(Rows') /\ t.report = i /\ t.before = before /\ t.status = r.status
      /\ t.trust = r.trust /\ t.eligible = r.eligible
  BY <1>2, <1>3 DEF Entry, Line, Report
<1>5. trail' = Append(trail, t)
  BY DEF Writes, before
<1> HIDE DEF t
<1>6. /\ DOMAIN trail = 1 .. Len(trail) /\ Len(trail) \in Nat
      /\ \A n \in 1 .. Len(trail) : trail[n] \in Line(Rows)
  BY <1>1
<1>7. \A n \in 1 .. Len(trail) : trail[n] \in Line(Rows')
  BY <1>2, <1>6 DEF Line
<1>8. trail \in Seq(Line(Rows'))
  BY <1>1, <1>6, <1>7
<1>9. /\ trail' \in Seq(Line(Rows')) /\ DOMAIN trail' = 1 .. Len(trail) + 1
      /\ \A n \in DOMAIN trail : trail'[n] = trail[n]
      /\ trail'[Len(trail) + 1] = t
  BY <1>4, <1>5, <1>6, <1>8
<1>10. Grown
  <2>1. ASSUME NEW j \in Rows PROVE j \in Rows' /\ SameOrigin(reports'[j], reports[j])
    <3>1. CASE j = i
      BY <1>1, <1>2, <3>1 DEF Writes
    <3>2. CASE j # i
      BY <1>2, <3>2 DEF SameOrigin
    <3> QED
      BY <3>1, <3>2
  <2> QED
    BY <1>6, <1>9, <2>1 DEF Grown
<1> QED
  BY <1>1, <1>2, <1>4, <1>6, <1>9, <1>10 DEF Writes, before

(* Whoever has reported, and whatever was accepted, is there for ever. *)
LEMMA GrownSets ==
  ASSUME reports \in Seq(Report), reports' \in Seq(Report), Grown, NEW u
  PROVE  /\ OthersThan(u) # {} => OthersThan(u)' # {}
         /\ Cardinality(OthersThan(u)) <= Cardinality(OthersThan(u)')
         /\ Cardinality(OthersThan(u)) \in Nat /\ Cardinality(OthersThan(u)') \in Nat
         /\ Heard(u) => Heard(u)'
<1> DEFINE o == OthersThan(u)
           oo == OthersThan(u)'
           a == EverAccepted(u)
           aa == EverAccepted(u)'
<1>1. o \subseteq oo
  BY DEF OthersThan, Grown, SameOrigin, IsDuplicate
<1>2. a \subseteq aa
  BY DEF EverAccepted, Grown, SameOrigin
<1>3. IsFiniteSet(o)
  BY OthersAreFinite
<1>4. IsFiniteSet(oo)
  <2>1. Rows' = 1 .. Len(reports') /\ Len(reports') \in Nat
    BY DEF Rows
  <2> DEFINE own == {k \in Rows' : ~ IsDuplicate(reports'[k])}
             U == {reports'[j].user : j \in own}
             f == [j \in own |-> reports'[j].user]
  <2>2. IsFiniteSet(1 .. Len(reports')) /\ own \in SUBSET (1 .. Len(reports'))
    BY <2>1, FS_Interval
  <2>3. IsFiniteSet(own)
    BY <2>2, FS_Subset
  <2>4. f \in Surjection(own, U)
    BY DEF Surjection
  <2>5. oo = U \ {u}
    BY DEF OthersThan, IsDuplicate
  <2> HIDE DEF own, f, U
  <2>6. IsFiniteSet(U)
    BY <2>3, <2>4, FS_Surjection
  <2>7. oo \in SUBSET U
    BY <2>5
  <2> HIDE DEF oo
  <2> QED
    BY <2>6, <2>7, FS_Subset
<1>5. IsFiniteSet(a)
  BY UsersOfRows DEF EverAccepted
<1>6. IsFiniteSet(aa)
  <2>1. Rows' = 1 .. Len(reports') /\ Len(reports') \in Nat
    BY DEF Rows
  <2>2. IsFiniteSet(1 .. Len(reports')) /\ aa \in SUBSET (1 .. Len(reports'))
    BY <2>1, FS_Interval DEF EverAccepted
  <2> HIDE DEF aa
  <2> QED
    BY <2>2, FS_Subset
<1>7. Heard(u) <=> o # {} \/ Cardinality(a) > 1
  BY DEF Heard
<1>8. Heard(u)' <=> oo # {} \/ Cardinality(aa) > 1
  BY DEF Heard
<1> HIDE DEF o, oo, a, aa
<1>9. /\ Cardinality(o) \in Nat /\ Cardinality(oo) \in Nat /\ Cardinality(o) <= Cardinality(oo)
      /\ Cardinality(a) \in Nat /\ Cardinality(aa) \in Nat /\ Cardinality(a) <= Cardinality(aa)
  BY <1>1, <1>2, <1>3, <1>4, <1>5, <1>6, FS_CardinalityType, FS_Subset
<1>10. Heard(u) => Heard(u)'
  BY <1>1, <1>7, <1>8, <1>9
<1> QED
  BY <1>1, <1>9, <1>10 DEF o, oo

\* The scores of row r are borne out by the table.
Judged(r) ==
    /\ r.support > 0 => OthersThan(r.user) # {}
    /\ r.support >= FullSupport => Cardinality(OthersThan(r.user)) > 1
    /\ r.trust >= MinTrust /\ r.user \notin Officials => Heard(r.user)
    /\ r.eligible => r.trust >= MinTrust

LEMMA JudgedRows ==
  SupportTakesObservers /\ TrustIsEarned <=> \A i \in Rows : Judged(reports[i])
<1>1. ASSUME NEW i \in Rows
      PROVE  {reports[j].user : j \in {k \in Rows : ~ IsDuplicate(reports[k])}} \ {reports[i].user}
               = OthersThan(reports[i].user)
  BY DEF OthersThan
<1> QED
  BY <1>1 DEF SupportTakesObservers, TrustIsEarned, Judged

(* A judgement is never overturned by what is added. *)
LEMMA StillJudged ==
  ASSUME reports \in Seq(Report), reports' \in Seq(Report), Grown,
         NEW r, Judged(r)
  PROVE  Judged(r)'
<1> DEFINE u == r.user
           c == Cardinality(OthersThan(u))
           cc == Cardinality(OthersThan(u)')
<1>1. /\ OthersThan(u) # {} => OthersThan(u)' # {}
      /\ c <= cc /\ c \in Nat /\ cc \in Nat
      /\ Heard(u) => Heard(u)'
  BY GrownSets
<1>2. c > 1 => cc > 1
  <2> HIDE DEF c, cc
  <2> QED
    BY <1>1
<1> QED
  BY <1>1, <1>2 DEF Judged

(* The entry tells of the row as it is written, from where the last one ended. *)
LEMMA TrailKept ==
  ASSUME TypeOK, TrailTellsReport, NEW i, NEW r \in Report, NEW a \in Actions, Writes(i, r, a)
  PROVE  TrailTellsReport'
<1>1. /\ DOMAIN trail' = 1 .. Len(trail) + 1 /\ DOMAIN trail = 1 .. Len(trail)
      /\ Len(trail) \in Nat
      /\ \A n \in DOMAIN trail : trail'[n] = trail[n]
  BY WriteFields
<1>2. /\ trail'[Len(trail) + 1].report = i
      /\ i \in Rows => trail'[Len(trail) + 1].before = reports[i].status
      /\ i \notin Rows => trail'[Len(trail) + 1].before = "NONE"
      /\ trail'[Len(trail) + 1].status = r.status
      /\ trail'[Len(trail) + 1].trust = r.trust
      /\ trail'[Len(trail) + 1].eligible = r.eligible
  BY WriteFields
<1>3. /\ (i \in Rows \/ i = Len(reports) + 1) /\ Rows' = Rows \cup {i}
      /\ \A j \in Rows' : reports'[j] = IF j = i THEN r ELSE reports[j]
  BY WriteFields
<1>4. PICK N \in Nat : N = Len(trail) + 1
  BY <1>1
<1>5. /\ (i \in Rows \/ i = Len(reports) + 1) /\ Rows' = Rows \cup {i}
      /\ \A j \in Rows' : reports'[j] = IF j = i THEN r ELSE reports[j]
      /\ DOMAIN trail' = 1 .. N /\ DOMAIN trail = 1 .. Len(trail) /\ Len(trail) \in Nat
      /\ \A n \in DOMAIN trail : trail'[n] = trail[n]
      /\ trail'[N].report = i
      /\ i \in Rows => trail'[N].before = reports[i].status
      /\ i \notin Rows => trail'[N].before = "NONE"
      /\ trail'[N].status = r.status
      /\ trail'[N].trust = r.trust
      /\ trail'[N].eligible = r.eligible
  BY <1>4, <1>1, <1>2, <1>3
<1>6. N \in DOMAIN trail' /\ N \in Nat /\ \A m \in DOMAIN trail' : m \in Nat /\ m <= N
  BY <1>4, <1>5
<1>7. /\ \A m \in DOMAIN trail' : m = N \/ (m \in DOMAIN trail /\ m < N)
      /\ \A m \in DOMAIN trail : m \in DOMAIN trail' /\ m < N
  BY <1>4, <1>5
<1>8. \A m \in DOMAIN trail : trail[m].report \in Rows
  <2>1. trail \in Seq(Line(Rows))
    BY DEF TypeOK, Line, Actions
  <2>2. \A m \in DOMAIN trail : trail[m] \in Line(Rows)
    BY <2>1
  <2> QED
    BY <2>2 DEF Line
<1>9. ASSUME NEW j \in Rows'
      PROVE  \E n \in DOMAIN trail' :
               /\ EndsTrail(n, j)'
               /\ trail'[n].status = reports'[j].status
               /\ trail'[n].trust = reports'[j].trust
               /\ trail'[n].eligible = reports'[j].eligible
  <2>1. CASE j = i
    <3>1. EndsTrail(N, i)'
      BY <1>5, <1>6 DEF EndsTrail
    <3> QED
      BY <1>5, <1>6, <2>1, <3>1
  <2>2. CASE j # i
    <3>1. j \in Rows /\ reports'[j] = reports[j]
      BY <1>5, <2>2
    <3>2. PICK n \in DOMAIN trail :
            /\ EndsTrail(n, j)
            /\ trail[n].status = reports[j].status
            /\ trail[n].trust = reports[j].trust
            /\ trail[n].eligible = reports[j].eligible
      BY <3>1 DEF TrailTellsReport
    <3>3. n \in DOMAIN trail' /\ trail'[n] = trail[n]
      BY <1>5, <1>7
    <3>4. EndsTrail(n, j)'
      BY <1>5, <1>7, <2>2, <3>2, <3>3 DEF EndsTrail
    <3> QED
      BY <3>1, <3>2, <3>3, <3>4
  <2> QED
    BY <2>1, <2>2
<1>10. ASSUME NEW m \in DOMAIN trail'
      PROVE  \/ \E n \in DOMAIN trail' : Precedes(n, m)' /\ trail'[m].before = trail'[n].status
             \/ /\ \A n \in DOMAIN trail' : n < m => trail'[n].report # trail'[m].report
                /\ trail'[m].before = "NONE"
  <2>1. CASE m \in DOMAIN trail
    <3>1. \A k \in DOMAIN trail' : k < m => k \in DOMAIN trail /\ trail'[k] = trail[k]
      BY <1>5, <1>6, <1>7, <2>1
    <3>2. trail'[m] = trail[m]
      BY <1>5, <2>1
    <3>3. CASE \E n \in DOMAIN trail : Precedes(n, m) /\ trail[m].before = trail[n].status
      <4>1. PICK n \in DOMAIN trail : Precedes(n, m) /\ trail[m].before = trail[n].status
        BY <3>3
      <4>2. n \in DOMAIN trail' /\ trail'[n] = trail[n]
        BY <1>5, <1>7
      <4>3. Precedes(n, m)'
        BY <3>1, <3>2, <4>1, <4>2 DEF Precedes
      <4> QED
        BY <3>2, <4>1, <4>2, <4>3
    <3>4. CASE /\ \A n \in DOMAIN trail : n < m => trail[n].report # trail[m].report
               /\ trail[m].before = "NONE"
      BY <3>1, <3>2, <3>4
    <3> QED
      BY <2>1, <3>3, <3>4 DEF TrailTellsReport
  <2>2. CASE m = N /\ i \in Rows
    <3>1. PICK n \in DOMAIN trail : EndsTrail(n, i) /\ trail[n].status = reports[i].status
      BY <2>2 DEF TrailTellsReport
    <3>2. n \in DOMAIN trail' /\ trail'[n] = trail[n] /\ n < N
      BY <1>5, <1>7
    <3>3. ASSUME NEW k \in DOMAIN trail', n < k, k < m PROVE trail'[k].report # trail'[m].report
      <4>1. k \in DOMAIN trail /\ trail'[k] = trail[k] /\ n \in Nat /\ k \in Nat
        BY <1>5, <1>6, <1>7, <2>2, <3>2, <3>3
      <4>2. ~ (k <= n)
        BY <3>3, <4>1
      <4> QED
        BY <1>5, <2>2, <3>1, <4>1, <4>2 DEF EndsTrail
    <3>4. Precedes(n, m)'
      BY <1>5, <2>2, <3>1, <3>2, <3>3 DEF Precedes, EndsTrail
    <3> QED
      BY <1>5, <2>2, <3>1, <3>2, <3>4
  <2>3. CASE m = N /\ i \notin Rows
    <3>1. \A n \in DOMAIN trail' : n < m => trail'[n].report # i
      BY <1>5, <1>6, <1>7, <1>8, <2>3
    <3> QED
      BY <1>5, <2>3, <3>1
  <2> QED
    BY <1>7, <2>1, <2>2, <2>3
<1> QED
  BY <1>9, <1>10 DEF TrailTellsReport

(* The other rows are still borne out. *)
LEMMA JudgementsKept ==
  ASSUME TypeOK, SupportTakesObservers, TrustIsEarned,
         NEW i, NEW r \in Report, NEW a \in Actions, Writes(i, r, a), Judged(r)
  PROVE  SupportTakesObservers' /\ TrustIsEarned'
<1>1. /\ reports \in Seq(Report) /\ reports' \in Seq(Report) /\ Grown
      /\ Rows' = Rows \cup {i}
      /\ \A j \in Rows' : reports'[j] = IF j = i THEN r ELSE reports[j]
  BY WriteFields DEF TypeOK
<1>2. ASSUME NEW j \in Rows' PROVE Judged(reports[j])' 
  <2>1. PICK b : b = reports'[j]
    OBVIOUS
  <2>2. Judged(b)
    BY <1>1, <2>1, JudgedRows
  <2>3. Judged(b)'
    BY <1>1, <2>2, StillJudged
  <2> QED
    BY <2>1, <2>3
<1> QED
  BY <1>2 DEF SupportTakesObservers, TrustIsEarned, Judged, OthersThan

(* A new report is the root of a group, or joins one. *)
LEMMA GroupsKept ==
  ASSUME TypeOK, GroupHasOneRoot, NEW i, NEW r \in Report, NEW a \in Actions, Writes(i, r, a),
         i \in Rows \/ (r.duplicateOf = 0 /\ r.group = i)
           \/ (r.duplicateOf \in Rows /\ r.group = reports[r.duplicateOf].group)
  PROVE  GroupHasOneRoot'
<1>1. /\ (i \in Rows \/ i = Len(reports) + 1) /\ Rows' = Rows \cup {i} /\ Grown
      /\ \A j \in Rows' : reports'[j] = IF j = i THEN r ELSE reports[j]
  BY WriteFields
<1>2. Rows = 1 .. Len(reports) /\ Len(reports) \in Nat
  BY DEF TypeOK, Rows
<1>3. \A j \in Rows : /\ j \in Rows' /\ reports'[j].duplicateOf = reports[j].duplicateOf
                      /\ reports'[j].group = reports[j].group
  BY <1>1 DEF Grown, SameOrigin
<1>4. \A j \in Rows :
        LET root == reports[j].group
        IN  /\ root \in Rows /\ reports[root].duplicateOf = 0 /\ reports[root].group = root
            /\ reports[j].duplicateOf = 0 => root = j
            /\ reports[j].duplicateOf # 0 => /\ reports[j].duplicateOf < j
                                             /\ reports[reports[j].duplicateOf].group = root
  BY DEF GroupHasOneRoot, IsDuplicate
<1>5. SUFFICES ASSUME NEW j \in Rows'
      PROVE  LET root == reports'[j].group
             IN  /\ root \in Rows' /\ reports'[root].duplicateOf = 0 /\ reports'[root].group = root
                 /\ reports'[j].duplicateOf = 0 => root = j
                 /\ reports'[j].duplicateOf # 0 =>
                       /\ reports'[j].duplicateOf < j
                       /\ reports'[reports'[j].duplicateOf].group = root
  BY DEF GroupHasOneRoot, IsDuplicate
<1>6. CASE j \in Rows
  <2>1. reports'[j].duplicateOf # 0 => reports'[j].duplicateOf \in Rows
    <3>1. reports[j] \in Report
      BY <1>2, <1>6 DEF TypeOK
    <3>2. reports[j].duplicateOf \in Nat /\ j \in 1 .. Len(reports)
      BY <1>2, <1>6, <3>1 DEF Report
    <3> QED
      BY <1>2, <1>3, <1>4, <1>6, <3>2
  <2> QED
    BY <1>3, <1>4, <1>6, <2>1
<1>7. CASE j \notin Rows
  <2>1. j = i /\ i = Len(reports) + 1 /\ reports'[j] = r
    BY <1>1, <1>7
  <2>2. CASE r.duplicateOf = 0 /\ r.group = i
    BY <2>1, <2>2
  <2>3. CASE r.duplicateOf \in Rows /\ r.group = reports[r.duplicateOf].group
    <3>1. r.duplicateOf # 0 /\ r.duplicateOf < j
      BY <1>2, <2>1, <2>3
    <3> QED
      BY <1>3, <1>4, <2>1, <2>3, <3>1
  <2> QED
    BY <1>7, <2>1, <2>2, <2>3
<1> QED
  BY <1>6, <1>7

-----------------------------------------------------------------------------
(* The handlers.                                                           *)

(* What the idempotency lookup finds is the user's row under the key. *)
LEMMA LookupFinds ==
  ASSUME IInv, NEW u \in Users, NEW k \in Keys \cup {NoKey}, NEW redis \in BOOLEAN
  PROVE  /\ \A i \in Lookup(u, k, redis) : k \in Keys /\ IsOf(i, u, k)
         /\ Lookup(u, k, redis) = {} => InTable(u, k) = {}
<1>1. CASE k # NoKey /\ redis /\ cached[<<u, k>>] # 0
  <2>1. k \in Keys /\ IsOf(cached[<<u, k>>], u, k)
    BY <1>1 DEF IInv, CacheIsTrue
  <2>2. Lookup(u, k, redis) = {cached[<<u, k>>]} \cap Rows
    BY <1>1 DEF Lookup
  <2> QED
    BY <2>1, <2>2 DEF IsOf
<1>2. CASE ~ (k # NoKey /\ redis /\ cached[<<u, k>>] # 0)
  <2>1. Lookup(u, k, redis) = InTable(u, k)
    BY <1>2 DEF Lookup
  <2> QED
    BY <2>1 DEF InTable, IsOf
<1> QED
  BY <1>1, <1>2

\* What Redis, the photographs and the answers may say after row i is written as r.
Known(i, r) ==
    /\ cached' \in [Users \X Keys -> {0} \cup Rows']
    /\ linked' \in [Evidence -> {0} \cup Rows']
    /\ \A u \in Users, k \in Keys :
         cached'[<<u, k>>] # cached[<<u, k>>] => cached'[<<u, k>>] = i /\ r.user = u /\ r.key = k
    /\ answers' \subseteq answers \cup {<<r.user, r.key, i>>}
    /\ answers' \subseteq answers \/ r.key \in Keys
    /\ r.observed <= now
    /\ UNCHANGED now

LEMMA WriteKeeps ==
  ASSUME IInv, NEW i, NEW r \in Report, NEW a \in Actions, Writes(i, r, a), Judged(r),
         Known(i, r),
         i \in Rows \/ InTable(r.user, r.key) = {},
         i \in Rows \/ (r.duplicateOf = 0 /\ r.group = i)
           \/ (r.duplicateOf \in Rows /\ r.group = reports[r.duplicateOf].group)
  PROVE  IInv'
<1>1. /\ reports \in Seq(Report) /\ reports' \in Seq(Report) /\ Grown
      /\ Rows' = Rows \cup {i}
      /\ \A j \in Rows' : reports'[j] = IF j = i THEN r ELSE reports[j]
  BY WriteFields DEF IInv, TypeOK
<1>2. trail' \in Seq(Line(Rows'))
  BY WriteFields DEF IInv
<1>3. TypeOK /\ TrailTellsReport /\ GroupHasOneRoot /\ SupportTakesObservers /\ TrustIsEarned
  BY DEF IInv
<1>4. TrailTellsReport' /\ GroupHasOneRoot' /\ SupportTakesObservers' /\ TrustIsEarned'
  BY <1>3, TrailKept, GroupsKept, JudgementsKept
<1>5. \A j \in Rows : /\ j \in Rows' /\ reports'[j].user = reports[j].user
                      /\ reports'[j].key = reports[j].key
  BY <1>1 DEF Grown, SameOrigin
<1>6. i \in Rows' /\ reports'[i] = r /\ r.user \in Users
  BY <1>1 DEF Report
<1>7. answers' \subseteq Users \X Keys \X ({0} \cup Rows')
  <2>1. answers \subseteq Users \X Keys \X ({0} \cup Rows')
    BY <1>1, <1>3 DEF TypeOK
  <2>2. CASE answers' \subseteq answers
    BY <2>1, <2>2
  <2>3. CASE r.key \in Keys
    <3>1. <<r.user, r.key, i>> \in Users \X Keys \X ({0} \cup Rows')
      BY <1>6, <2>3
    <3> QED
      BY <2>1, <3>1 DEF Known
  <2> QED
    BY <2>2, <2>3 DEF Known
<1>8. TypeOK'
  BY <1>1, <1>2, <1>3, <1>7 DEF TypeOK, Known, Line, Actions
<1>9. KeysAreUnique'
  <2> SUFFICES ASSUME NEW m \in Rows', NEW n \in Rows',
                      reports'[m].user = reports'[n].user, reports'[m].key = reports'[n].key,
                      reports'[m].key # NoKey
               PROVE  m = n
    BY DEF KeysAreUnique
  <2>1. CASE m \in Rows /\ n \in Rows
    BY <1>5, <2>1 DEF IInv, KeysAreUnique
  <2>2. CASE ~ (m \in Rows /\ n \in Rows)
    <3>1. ASSUME NEW j \in Rows, reports[j].user = r.user, reports[j].key = r.key, r.key # NoKey,
                 i \notin Rows
          PROVE  FALSE
      BY <3>1 DEF InTable
    <3> QED
      BY <1>1, <1>5, <1>6, <2>2, <3>1
  <2> QED
    BY <2>1, <2>2
<1>10. CacheIsTrue'
  <2> SUFFICES ASSUME NEW u \in Users, NEW k \in Keys, cached'[<<u, k>>] # 0
               PROVE  /\ cached'[<<u, k>>] \in Rows' /\ reports'[cached'[<<u, k>>]].user = u
                      /\ reports'[cached'[<<u, k>>]].key = k
    BY DEF CacheIsTrue, IsOf
  <2>1. CASE cached'[<<u, k>>] = cached[<<u, k>>]
    BY <1>5, <2>1 DEF IInv, CacheIsTrue, IsOf
  <2>2. CASE cached'[<<u, k>>] # cached[<<u, k>>]
    BY <1>6, <2>2 DEF Known
  <2> QED
    BY <2>1, <2>2
<1>11. AnswersAreTrue'
  <2> SUFFICES ASSUME NEW x \in answers'
               PROVE  /\ x[3] \in Rows' /\ reports'[x[3]].user = x[1]
                      /\ reports'[x[3]].key = x[2]
    BY DEF AnswersAreTrue, IsOf
  <2>1. CASE x \in answers
    BY <1>5, <2>1 DEF IInv, AnswersAreTrue, IsOf
  <2>2. CASE x = <<r.user, r.key, i>>
    BY <1>6, <2>2
  <2> QED
    BY <2>1, <2>2 DEF Known
<1>12. ObservedIsPast'
  <2>1. \A j \in Rows : reports[j].observed <= now
    BY DEF IInv, ObservedIsPast
  <2> QED
    BY <1>1, <2>1 DEF ObservedIsPast, Known
<1> QED
  BY <1>4, <1>8, <1>9, <1>10, <1>11, <1>12 DEF IInv

(* A step that writes no row. *)
LEMMA ReadOnlyKeeps ==
  ASSUME IInv, UNCHANGED <<reports, trail, linked>>, now' \in {now, now + 1} \cap (0 .. MaxWeeks),
         answers' \subseteq Users \X Keys \X ({0} \cup Rows),
         \A x \in answers' : IsOf(x[3], x[1], x[2]),
         cached' \in [Users \X Keys -> {0} \cup Rows],
         \A u \in Users, k \in Keys : cached'[<<u, k>>] \in {0, cached[<<u, k>>]}
  PROVE  IInv'
<1>1. UNCHANGED reports /\ UNCHANGED trail /\ UNCHANGED linked /\ Rows' = Rows
  BY DEF Rows
<1>2. TypeOK'
  BY <1>1 DEF IInv, TypeOK
<1>3. /\ KeysAreUnique /\ GroupHasOneRoot /\ CacheIsTrue
      /\ TrailTellsReport /\ SupportTakesObservers /\ TrustIsEarned
  BY DEF IInv
<1>4. KeysAreUnique'
  BY <1>1, <1>3 DEF KeysAreUnique
<1>5. GroupHasOneRoot'
  BY <1>1, <1>3 DEF GroupHasOneRoot, IsDuplicate
<1>6. CacheIsTrue'
  BY <1>1, <1>3 DEF CacheIsTrue, IsOf
<1>7. AnswersAreTrue'
  BY <1>1 DEF AnswersAreTrue, IsOf
<1>8. ObservedIsPast'
  <2> SUFFICES ASSUME NEW i \in Rows PROVE reports[i].observed <= now'
    BY <1>1 DEF ObservedIsPast
  <2>1. reports[i].observed \in Int /\ reports[i].observed <= now
    <3>1. reports[i] \in Report
      BY DEF IInv, TypeOK, Rows
    <3> QED
      BY <3>1 DEF Report, IInv, ObservedIsPast
  <2>2. now \in Int
    BY DEF IInv, TypeOK
  <2> QED
    BY <2>1, <2>2
<1>9. TrailTellsReport'
  BY <1>1, <1>3 DEF TrailTellsReport, EndsTrail, Precedes
<1>10. ASSUME NEW i \in Rows PROVE Judged(reports[i])'
  <2>1. reports \in Seq(Report) /\ reports' \in Seq(Report) /\ Grown
    BY <1>1 DEF IInv, TypeOK, Grown, SameOrigin
  <2>2. PICK b : b = reports[i]
    OBVIOUS
  <2>3. Judged(b)
    BY <1>3, <2>2, JudgedRows
  <2>4. Judged(b)'
    BY <2>1, <2>3, StillJudged
  <2> QED
    BY <1>1, <2>2, <2>4
<1>11. SupportTakesObservers' /\ TrustIsEarned'
  BY <1>1, <1>10 DEF SupportTakesObservers, TrustIsEarned, Judged, OthersThan
<1> QED
  BY <1>2, <1>4, <1>5, <1>6, <1>7, <1>9, <1>10, <1>11, <1>8 DEF IInv

LEMMA ReplayKeeps ==
  ASSUME IInv, NEW u \in Users, NEW k \in Keys \cup {NoKey}, Replay(u, k) PROVE IInv'
<1>1. PICK redis \in BOOLEAN :
        \E i \in Lookup(u, k, redis) : answers' = answers \cup {<<u, k, i>>}
  BY DEF Replay
<1>2. PICK i \in Lookup(u, k, redis) : answers' = answers \cup {<<u, k, i>>}
  BY <1>1
<1>3. k \in Keys /\ IsOf(i, u, k)
  BY LookupFinds
<1>4. UNCHANGED <<reports, trail, cached, linked, now>>
  BY DEF Replay
<1>5. answers' \subseteq Users \X Keys \X ({0} \cup Rows)
  BY <1>2, <1>3 DEF IInv, TypeOK, IsOf
<1>6. \A x \in answers' : IsOf(x[3], x[1], x[2])
  BY <1>2, <1>3 DEF IInv, AnswersAreTrue
<1>7. now' \in {now, now + 1} \cap (0 .. MaxWeeks) /\ cached' \in [Users \X Keys -> {0} \cup Rows]
      /\ \A v \in Users, h \in Keys : cached'[<<v, h>>] \in {0, cached[<<v, h>>]}
  BY <1>4 DEF IInv, TypeOK
<1> QED
  BY <1>4, <1>5, <1>6, <1>7, ReadOnlyKeeps

LEMMA WeekPassesKeeps == ASSUME IInv, WeekPasses PROVE IInv'
<1>1. /\ UNCHANGED <<reports, trail, linked, answers>> /\ now < MaxWeeks /\ now' = now + 1
      /\ cached' = [x \in Users \X Keys |-> 0]
  BY DEF WeekPasses
<1>2. now' \in {now, now + 1} \cap (0 .. MaxWeeks)
  BY <1>1, GroundAssumption DEF IInv, TypeOK
<1>3. cached' \in [Users \X Keys -> {0} \cup Rows]
      /\ \A u \in Users, k \in Keys : cached'[<<u, k>>] \in {0, cached[<<u, k>>]}
  BY <1>1
<1>4. answers' \subseteq Users \X Keys \X ({0} \cup Rows)
      /\ \A x \in answers' : IsOf(x[3], x[1], x[2])
  BY <1>1 DEF IInv, TypeOK, AnswersAreTrue
<1> QED
  BY <1>1, <1>2, <1>3, <1>4, ReadOnlyKeeps

LEMMA CreateKeeps ==
  ASSUME IInv, NEW u \in Users, NEW k \in Keys \cup {NoKey}, NEW o \in Observations,
         NEW e \in Evidence \cup {NoEvidence}, NEW done \in 1 .. 4, Create(u, k, o, e, done)
  PROVE  IInv'
<1>1. InTable(u, k) = {}
  <2>1. PICK redis \in BOOLEAN : Lookup(u, k, redis) = {}
    BY DEF Create
  <2> QED
    BY <2>1, LookupFinds
<1>2. PICK id \in Nat : id = Len(reports) + 1
  BY DEF IInv, TypeOK
<1>3. id # 0 /\ id \notin Rows /\ Rows \subseteq Nat
  BY <1>2 DEF IInv, TypeOK, Rows
<1>4. /\ Stored(u, k, o)
      /\ linked' = IF id # 0 /\ done >= 2 /\ e # NoEvidence /\ Owner[e] = u
                   THEN [linked EXCEPT ![e] = id] ELSE linked
      /\ \/ k # NoKey /\ cached' = [cached EXCEPT ![<<u, k>>] = id]
         \/ UNCHANGED cached
      /\ answers' = IF done = 4 /\ k # NoKey THEN answers \cup {<<u, k, id>>} ELSE answers
      /\ UNCHANGED now
  BY <1>1, <1>2, <1>3 DEF Create
<1>5. PICK n : n = New(u, k, o)
  OBVIOUS
<1>6. /\ n \in Report /\ n.user = u /\ n.key = k /\ n.duplicateOf = 0 /\ n.observed <= now
      /\ TypeOK /\ TrailTellsReport
  BY <1>5, NewFields DEF IInv
<1>7. PICK b : b = Deduplicated(n, id)
  OBVIOUS
<1>8. /\ b \in Report /\ b.user = u /\ b.key = k /\ b.observed <= now
      /\ \/ b.duplicateOf = 0 /\ b.group = id
         \/ b.duplicateOf \in Rows /\ b.group = reports[b.duplicateOf].group
  BY <1>6, <1>7, DeduplicatedFields
<1>9. PICK w \in SupportOf(b, id) :
        /\ reports' = Append(reports, Scored(b, w))
        /\ trail' = Append(trail, Entry(id, "CREATED", "NONE", Scored(b, w)))
  BY <1>2, <1>4, <1>5, <1>7, Zenon DEF Stored
<1>10. PICK r : r = Scored(b, w)
  OBVIOUS
<1>11. /\ r \in Report /\ SameOrigin(r, b) /\ Judged(r)
  BY <1>6, <1>8, <1>10, ScoredFields DEF Judged, SameOrigin
<1>12. Writes(id, r, "CREATED")
  BY <1>2, <1>3, <1>9, <1>10 DEF Writes
<1>13. Rows' = Rows \cup {id}
  BY <1>6, <1>11, <1>12, WriteFields DEF Actions
<1>14. r.user = u /\ r.key = k
  BY <1>8, <1>11 DEF SameOrigin
<1>15. r.observed <= now
  BY <1>8, <1>11 DEF SameOrigin
<1>16. Known(id, r)
  <2>1. cached' \in [Users \X Keys -> {0} \cup Rows']
        /\ \A v \in Users, h \in Keys :
             cached'[<<v, h>>] # cached[<<v, h>>] => cached'[<<v, h>>] = id /\ v = u /\ h = k
    <3>1. cached \in [Users \X Keys -> {0} \cup Rows']
      BY <1>6, <1>13 DEF TypeOK
    <3>2. CASE cached' = [cached EXCEPT ![<<u, k>>] = id]
      BY <1>13, <3>1, <3>2
    <3> QED
      BY <1>4, <3>1, <3>2
  <2>2. linked' \in [Evidence -> {0} \cup Rows']
    BY <1>4, <1>6, <1>13 DEF TypeOK
  <2>3. answers' \subseteq answers \/ (answers' = answers \cup {<<u, k, id>>} /\ k \in Keys)
    BY <1>4
  <2> QED
    BY <1>4, <1>14, <1>15, <2>1, <2>2, <2>3 DEF Known
<1>17. r.duplicateOf = b.duplicateOf /\ r.group = b.group
  BY <1>11 DEF SameOrigin
<1> QED
  BY <1>1, <1>8, <1>11, <1>12, <1>14, <1>16, <1>17, WriteKeeps DEF Actions

\* A handler that only writes row i and its entry.
LEMMA RewriteKeeps ==
  ASSUME IInv, NEW i \in Rows, NEW r \in Report, NEW a \in Actions,
         SameOrigin(r, reports[i]), Judged(r),
         reports' = [reports EXCEPT ![i] = r],
         trail' = Append(trail, Entry(i, a, reports[i].status, r)),
         UNCHANGED <<cached, linked, answers, now>>
  PROVE  IInv'
<1>1. Writes(i, r, a) /\ TypeOK
  BY DEF Writes, IInv
<1>2. Rows' = Rows \cup {i}
  BY <1>1, WriteFields
<1>3. r.observed <= now
  BY DEF SameOrigin, IInv, ObservedIsPast
<1>4. Known(i, r)
  BY <1>1, <1>2, <1>3 DEF Known, TypeOK
<1> QED
  BY <1>1, <1>4, WriteKeeps

LEMMA RecalculateKeeps == ASSUME IInv, NEW i \in Rows, Recalculate(i) PROVE IInv'
<1>1. PICK b : b = reports[i]
  OBVIOUS
<1>2. b \in Report /\ TypeOK /\ TrailTellsReport /\ b.observed <= now
  BY <1>1 DEF IInv, TypeOK, Rows, ObservedIsPast
<1>3. PICK w \in SupportOf(b, i) :
        /\ reports' = [reports EXCEPT ![i] = Scored(b, w)]
        /\ trail' = Append(trail, Entry(i, "TRUST_RECALCULATED", Scored(b, w).status, Scored(b, w)))
  BY <1>1, Zenon DEF Recalculate
<1>4. PICK r : r = Scored(b, w)
  OBVIOUS
<1>5. r \in Report /\ SameOrigin(r, b) /\ Judged(r) /\ r.status = b.status
  BY <1>2, <1>4, ScoredFields DEF Judged, SameOrigin
<1>6. UNCHANGED <<cached, linked, answers, now>>
  BY DEF Recalculate
<1> QED
  BY <1>1, <1>3, <1>4, <1>5, <1>6, RewriteKeeps DEF Actions

LEMMA ModerateKeeps ==
  ASSUME IInv, NEW i \in Rows, NEW s \in Verdicts, Moderate(i, s) PROVE IInv'
<1>1. PICK b : b = reports[i]
  OBVIOUS
<1>2. b \in Report /\ s \in Statuses
  BY <1>1, GroundAssumption DEF IInv, TypeOK, Rows
<1>3. Judged(b)
  BY <1>1, JudgedRows DEF IInv
<1> DEFINE m == [b EXCEPT !.status = s]
<1>4. /\ m \in Report /\ SameOrigin(m, b) /\ m.trust = b.trust /\ m.support = b.support
  BY <1>2 DEF Report, SameOrigin
<1>5. PICK r : r = Gated(m)
  OBVIOUS
<1>6. /\ reports' = [reports EXCEPT ![i] = r]
      /\ trail' = Append(trail, Entry(i, "STATUS_UPDATED", reports[i].status, r))
      /\ UNCHANGED <<cached, linked, answers, now>>
  BY <1>1, <1>5, Zenon DEF Moderate
<1> HIDE DEF m
<1>7. /\ r \in Report /\ SameOrigin(r, b) /\ r.trust = b.trust /\ r.support = b.support
      /\ r.eligible => b.trust >= MinTrust
  BY <1>4, <1>5, GatedFields DEF SameOrigin
<1>8. Judged(r)
  BY <1>3, <1>7 DEF Judged, SameOrigin
<1> QED
  BY <1>1, <1>6, <1>7, <1>8, RewriteKeeps DEF Actions

-----------------------------------------------------------------------------
(* The specification.                                                      *)

LEMMA InitHolds == Init => IInv
<1> SUFFICES ASSUME Init PROVE IInv
  OBVIOUS
<1>1. reports = <<>> /\ trail = <<>> /\ Rows = {} /\ DOMAIN trail = {}
  BY DEF Init, Rows
<1>2. TypeOK
  BY <1>1, GroundAssumption DEF Init, TypeOK
<1>3. KeysAreUnique /\ CacheIsTrue /\ AnswersAreTrue /\ ObservedIsPast
  BY <1>1 DEF Init, KeysAreUnique, CacheIsTrue, AnswersAreTrue, ObservedIsPast
<1>4. GroupHasOneRoot /\ TrailTellsReport /\ SupportTakesObservers /\ TrustIsEarned
  BY <1>1 DEF GroupHasOneRoot, TrailTellsReport, SupportTakesObservers, TrustIsEarned
<1> QED
  BY <1>2, <1>3, <1>4 DEF IInv

LEMMA NextKeeps == IInv /\ [Next]_vars => IInv'
<1> SUFFICES ASSUME IInv, [Next]_vars PROVE IInv'
  OBVIOUS
<1>1. ASSUME NEW u \in Users, NEW k \in Headers[u], Post(u, k) PROVE IInv'
  <2>1. k \in Keys \cup {NoKey}
    BY GroundAssumption
  <2>2. CASE Replay(u, k)
    BY <2>1, <2>2, ReplayKeeps
  <2>3. ASSUME NEW o \in Observations, NEW e \in Evidence \cup {NoEvidence}, NEW done \in 1 .. 4,
               Create(u, k, o, e, done)
        PROVE  IInv'
    BY <2>1, <2>3, CreateKeeps
  <2> QED
    BY <1>1, <2>2, <2>3 DEF Post
<1>2. ASSUME NEW i \in Rows, Recalculate(i) \/ \E s \in Verdicts : Moderate(i, s) PROVE IInv'
  BY <1>2, RecalculateKeeps, ModerateKeeps
<1>3. CASE WeekPasses
  BY <1>3, WeekPassesKeeps
<1>4. CASE UNCHANGED vars
  <2>1. UNCHANGED <<reports, trail, linked>> /\ UNCHANGED cached /\ UNCHANGED answers /\ UNCHANGED now
    BY <1>4 DEF vars
  <2>2. /\ now' \in {now, now + 1} \cap (0 .. MaxWeeks) /\ cached' \in [Users \X Keys -> {0} \cup Rows]
        /\ \A u \in Users, k \in Keys : cached'[<<u, k>>] \in {0, cached[<<u, k>>]}
        /\ answers' \subseteq Users \X Keys \X ({0} \cup Rows)
        /\ \A x \in answers' : IsOf(x[3], x[1], x[2])
    BY <2>1 DEF IInv, TypeOK, AnswersAreTrue
  <2> QED
    BY <2>1, <2>2, ReadOnlyKeeps
<1> QED
  BY <1>1, <1>2, <1>3, <1>4 DEF Next

LEMMA Inductive == Spec => []IInv
  BY InitHolds, NextKeeps, PTL DEF Spec

(* Every variable holds a value of its type; every score lies within 0 and 100 *)
(* points, whatever the history of the author.                                 *)
THEOREM TypeCorrect == Spec => []TypeOK
<1>1. IInv => TypeOK
  BY DEF IInv
<1> QED
  BY <1>1, Inductive, PTL

(* A key names one report, whatever Redis loses and wherever the process dies. *)
THEOREM RetriesGetTheirReport == Spec => []EveryRetryGetsItsReport
<1>1. IInv => EveryRetryGetsItsReport
  <2> SUFFICES ASSUME IInv, NEW x \in answers, NEW y \in answers
               PROVE  /\ x[3] \in Rows /\ reports[x[3]].user = x[1]
                      /\ x[1] = y[1] /\ x[2] = y[2] => x[3] = y[3]
    BY DEF EveryRetryGetsItsReport
  <2>1. IsOf(x[3], x[1], x[2]) /\ IsOf(y[3], y[1], y[2])
    BY DEF IInv, AnswersAreTrue
  <2>2. x[2] \in Keys /\ x[2] # NoKey
    BY GroundAssumption DEF IInv, TypeOK
  <2> QED
    BY <2>1, <2>2 DEF IInv, KeysAreUnique, IsOf
<1> QED
  BY <1>1, Inductive, PTL

(* However reports repeat one another, a group has one root. *)
THEOREM GroupsHaveOneRoot == Spec => []GroupHasOneRoot
<1>1. IInv => GroupHasOneRoot
  BY DEF IInv
<1> QED
  BY <1>1, Inductive, PTL

(* The trail of a report is the history of its status, and ends with its row. *)
THEOREM TrailTellsTheReport == Spec => []TrailTellsReport
<1>1. IInv => TrailTellsReport
  BY DEF IInv
<1> QED
  BY <1>1, Inductive, PTL

(* A citizen's report opens the gate to the risk models with the support of   *)
(* somebody else, or when an official has accepted two reports of the author. *)
THEOREM NobodyOpensTheGateAlone == Spec => []EligibilityIsEarned
<1>1. IInv => EligibilityIsEarned
  <2> SUFFICES ASSUME IInv, NEW i \in Rows, reports[i].eligible, reports[i].user \notin Officials,
                      OthersThan(reports[i].user) # {} \/ Cardinality(EverAccepted(reports[i].user)) > 1
               PROVE  \/ \E j \in Rows : reports[j].user # reports[i].user /\ ~ IsDuplicate(reports[j])
                      \/ Cardinality(EverAccepted(reports[i].user)) > 1
    BY DEF IInv, TrustIsEarned, EligibilityIsEarned, Heard
  <2>1. ASSUME OthersThan(reports[i].user) # {}
        PROVE  \E j \in Rows : reports[j].user # reports[i].user /\ ~ IsDuplicate(reports[j])
    BY <2>1 DEF OthersThan
  <2> QED
    BY <2>1
<1> QED
  BY <1>1, Inductive, PTL

(* Support takes another observer, and full support takes two. *)
THEOREM SupportIsOfObservers == Spec => []SupportTakesObservers
<1>1. IInv => SupportTakesObservers
  BY DEF IInv
<1> QED
  BY <1>1, Inductive, PTL

-----------------------------------------------------------------------------
(* The register of field reports.                                          *)

\* What the register has of a row.
Shown(r) == [user |-> r.user, key |-> r.key, group |-> r.group, status |-> r.status]

LEMMA EnteredFields ==
  ASSUME TypeOK
  PROVE  /\ Entered \in Seq({Shown(r) : r \in Report})
         /\ Len(Entered) = Len(reports) /\ DOMAIN Entered = Rows
         /\ \A i \in Rows : Entered[i] = Shown(reports[i])
<1>1. reports \in Seq(Report) /\ Len(reports) \in Nat /\ Rows = 1 .. Len(reports)
  BY DEF TypeOK, Rows
<1>2. Entered = [i \in 1 .. Len(reports) |-> Shown(reports[i])]
  BY <1>1 DEF Entered, Shown
<1>3. \A i \in 1 .. Len(reports) : Shown(reports[i]) \in {Shown(r) : r \in Report}
  BY <1>1
<1> QED
  BY <1>1, <1>2, <1>3

LEMMA EnteredGrows ==
  ASSUME TypeOK, NEW r \in Report, reports' = Append(reports, r)
  PROVE  Entered' = Append(Entered, Shown(r))
<1>1. reports \in Seq(Report) /\ Len(reports) \in Nat /\ Rows = 1 .. Len(reports)
  BY DEF TypeOK, Rows
<1>2. Rows' = 1 .. Len(reports) + 1
  BY <1>1 DEF Rows
<1>3. \A i \in Rows' : reports'[i] = IF i \in Rows THEN reports[i] ELSE r
  BY <1>1, <1>2
<1>4. Entered' = [i \in Rows' |-> Shown(reports'[i])]
  BY DEF Entered, Shown
<1>5. PICK q : q = Entered
  OBVIOUS
<1>6. PICK S : S = {Shown(x) : x \in Report}
  OBVIOUS
<1>7. q \in Seq(S) /\ Len(q) = Len(reports) /\ \A i \in Rows : q[i] = Shown(reports[i])
  BY <1>5, <1>6, EnteredFields
<1>8. PICK e : e = Shown(r)
  OBVIOUS
<1>9. \A i \in Rows' : Shown(reports'[i]) = IF i \in Rows THEN q[i] ELSE e
  BY <1>3, <1>7, <1>8
<1>10. Entered' = [i \in 1 .. Len(q) + 1 |-> IF i \in 1 .. Len(q) THEN q[i] ELSE e]
  BY <1>1, <1>2, <1>4, <1>7, <1>9
<1>11. e \in S
  BY <1>6, <1>8
<1>12. Append(q, e) = [i \in 1 .. Len(q) + 1 |-> IF i \in 1 .. Len(q) THEN q[i] ELSE e]
  <2>1. Append(q, e) \in Seq(S) /\ Len(Append(q, e)) = Len(q) + 1 /\ Len(q) \in Nat
    BY <1>7, <1>11
  <2>2. \A i \in 1 .. Len(q) + 1 : Append(q, e)[i] = IF i \in 1 .. Len(q) THEN q[i] ELSE e
    BY <1>7, <1>11, <2>1
  <2>3. PICK p : p = Append(q, e)
    OBVIOUS
  <2>4. PICK n \in Nat : p \in [1 .. n -> S]
    <3>1. Seq(S) = UNION {[1 .. n -> S] : n \in Nat}
      OBVIOUS
    <3> QED
      BY <2>1, <2>3, <3>1, Zenon
  <2>5. n = Len(q) + 1
    BY <2>1, <2>3, <2>4
  <2>6. p = [i \in 1 .. Len(q) + 1 |-> p[i]]
    BY <2>4, <2>5
  <2> QED
    BY <2>2, <2>3, <2>6
<1> QED
  BY <1>5, <1>8, <1>10, <1>12

LEMMA EnteredRewritten ==
  ASSUME TypeOK, NEW i \in Rows, NEW r \in Report, SameOrigin(r, reports[i]),
         reports' = [reports EXCEPT ![i] = r]
  PROVE  Entered' = [Entered EXCEPT ![i].status = r.status]
<1>1. reports \in Seq(Report) /\ Rows = 1 .. Len(reports) /\ Rows' = Rows
  BY DEF TypeOK, Rows
<1>2. \A j \in Rows : reports'[j] = IF j = i THEN r ELSE reports[j]
  BY <1>1 DEF Rows
<1>3. Entered' = [j \in Rows |-> Shown(reports'[j])]
  BY <1>1 DEF Entered, Shown
<1>4. PICK q : q = Entered
  OBVIOUS
<1>5. q = [j \in Rows |-> Shown(reports[j])]
  BY <1>4 DEF Entered, Shown
<1>6. Shown(r) = [q[i] EXCEPT !.status = r.status]
  BY <1>5 DEF Shown, SameOrigin
<1>7. \A j \in Rows : Shown(reports'[j]) = IF j = i THEN [q[i] EXCEPT !.status = r.status] ELSE q[j]
  BY <1>2, <1>5, <1>6
<1>8. Entered' = [q EXCEPT ![i] = [q[i] EXCEPT !.status = r.status]]
  BY <1>3, <1>5, <1>7
<1> QED
  BY <1>4, <1>8

(* What a row becomes when it is scored again is not seen in the register. *)
LEMMA RecalculateIsUnseen ==
  ASSUME IInv, NEW i \in Rows, Recalculate(i) PROVE UNCHANGED <<Entered, answers>>
<1>1. PICK b : b = reports[i]
  OBVIOUS
<1>2. b \in Report /\ TypeOK /\ TrailTellsReport /\ b.observed <= now
  BY <1>1 DEF IInv, TypeOK, Rows, ObservedIsPast
<1>3. PICK w \in SupportOf(b, i) : reports' = [reports EXCEPT ![i] = Scored(b, w)]
  BY <1>1, Zenon DEF Recalculate
<1>4. PICK r : r = Scored(b, w)
  OBVIOUS
<1>5. r \in Report /\ SameOrigin(r, b) /\ r.status = b.status
  BY <1>2, <1>4, ScoredFields
<1>6. Entered' = [Entered EXCEPT ![i].status = r.status]
  BY <1>1, <1>2, <1>3, <1>4, <1>5, EnteredRewritten
<1>7. Entered[i] = Shown(b)
  BY <1>1, <1>2, EnteredFields
<1>8. Entered[i].status = r.status
  BY <1>5, <1>7 DEF Shown
<1>9. UNCHANGED Entered
  BY <1>6, <1>8 DEF Entered
<1>10. UNCHANGED answers
  BY DEF Recalculate
<1> QED
  BY <1>9, <1>10

LEMMA ModerateDecides ==
  ASSUME IInv, NEW i \in Rows, NEW s \in Verdicts, Moderate(i, s) PROVE Register!Decide(i, s)
<1>1. PICK b : b = reports[i]
  OBVIOUS
<1>2. b \in Report /\ s \in Statuses /\ TypeOK
  BY <1>1, GroundAssumption DEF IInv, TypeOK, Rows
<1> DEFINE m == [b EXCEPT !.status = s]
<1>3. m \in Report /\ SameOrigin(m, b) /\ m.status = s
  BY <1>2 DEF Report, SameOrigin
<1>4. PICK r : r = Gated(m)
  OBVIOUS
<1>5. reports' = [reports EXCEPT ![i] = r] /\ UNCHANGED answers
  BY <1>1, <1>4, Zenon DEF Moderate
<1> HIDE DEF m
<1>6. r \in Report /\ SameOrigin(r, b) /\ r.status = s
  BY <1>3, <1>4, GatedFields DEF SameOrigin
<1>7. Entered' = [Entered EXCEPT ![i].status = s]
  BY <1>1, <1>2, <1>5, <1>6, EnteredRewritten
<1> QED
  BY <1>5, <1>7 DEF Register!Decide

LEMMA ReplayTells ==
  ASSUME IInv, NEW u \in Users, NEW k \in Keys \cup {NoKey}, Replay(u, k)
  PROVE  \E i \in Rows : Register!Tell(i)
<1>1. PICK redis \in BOOLEAN :
        \E i \in Lookup(u, k, redis) : answers' = answers \cup {<<u, k, i>>}
  BY DEF Replay
<1>2. PICK i \in Lookup(u, k, redis) : answers' = answers \cup {<<u, k, i>>}
  BY <1>1
<1>3. k # NoKey /\ i \in Rows /\ reports[i].user = u /\ reports[i].key = k
  BY LookupFinds, GroundAssumption DEF IsOf
<1>4. Entered[i] = Shown(reports[i])
  BY <1>3, EnteredFields DEF IInv
<1>5. Entered[i].user = u /\ Entered[i].key = k
  BY <1>3, <1>4 DEF Shown
<1>6. UNCHANGED Entered
  BY DEF Replay, Entered, Rows
<1>7. Register!Tell(i)
  BY <1>2, <1>3, <1>5, <1>6 DEF Register!Tell
<1> QED
  BY <1>3, <1>7

LEMMA CreateEnters ==
  ASSUME IInv, NEW u \in Users, NEW k \in Keys \cup {NoKey}, NEW o \in Observations,
         NEW e \in Evidence \cup {NoEvidence}, NEW done \in 1 .. 4, Create(u, k, o, e, done)
  PROVE  Register!Enter(u, k)
<1>1. InTable(u, k) = {}
  <2>1. PICK redis \in BOOLEAN : Lookup(u, k, redis) = {}
    BY DEF Create
  <2> QED
    BY <2>1, LookupFinds
<1>2. PICK id \in Nat : id = Len(reports) + 1
  BY DEF IInv, TypeOK
<1>3. id # 0 /\ id \notin Rows
  BY <1>2 DEF IInv, TypeOK, Rows
<1>4. /\ Stored(u, k, o)
      /\ answers' = IF done = 4 /\ k # NoKey THEN answers \cup {<<u, k, id>>} ELSE answers
  BY <1>1, <1>2, <1>3 DEF Create
<1>5. PICK n : n = New(u, k, o)
  OBVIOUS
<1>6. /\ n \in Report /\ n.user = u /\ n.key = k /\ n.duplicateOf = 0 /\ n.observed <= now
      /\ n.status = "SUBMITTED" /\ TypeOK /\ TrailTellsReport
  BY <1>5, NewFields DEF IInv
<1>7. PICK b : b = Deduplicated(n, id)
  OBVIOUS
<1>8. /\ b \in Report /\ b.user = u /\ b.key = k /\ b.observed <= now
      /\ \/ b.group = id /\ b.status = "SUBMITTED"
         \/ \E f \in Rows : b.group = reports[f].group /\ b.status = "DUPLICATE"
  BY <1>6, <1>7, DeduplicatedFields
<1>9. PICK w \in SupportOf(b, id) : reports' = Append(reports, Scored(b, w))
  BY <1>2, <1>4, <1>5, <1>7, Zenon DEF Stored
<1>10. PICK r : r = Scored(b, w)
  OBVIOUS
<1>11. r \in Report /\ SameOrigin(r, b) /\ r.status = b.status
  BY <1>6, <1>8, <1>10, ScoredFields
<1>12. Entered' = Append(Entered, Shown(r))
  BY <1>6, <1>9, <1>10, <1>11, EnteredGrows
<1>13. /\ Len(Entered) + 1 = id /\ DOMAIN Entered = Rows
       /\ \A i \in Rows : Entered[i] = Shown(reports[i])
  BY <1>2, <1>6, EnteredFields
<1>14. \A i \in Rows : reports[i].group \in Rows
  BY DEF IInv, GroupHasOneRoot
<1>15. /\ b.group \in {id} \cup {Entered[i].group : i \in DOMAIN Entered}
       /\ b.status = IF b.group = id THEN "SUBMITTED" ELSE "DUPLICATE"
  <2>1. CASE b.group = id /\ b.status = "SUBMITTED"
    BY <2>1
  <2>2. ASSUME NEW f \in Rows, b.group = reports[f].group, b.status = "DUPLICATE"
        PROVE  /\ b.group \in {id} \cup {Entered[i].group : i \in DOMAIN Entered}
               /\ b.status = IF b.group = id THEN "SUBMITTED" ELSE "DUPLICATE"
    <3>1. Entered[f].group = b.group
      BY <1>13, <2>2 DEF Shown
    <3>2. b.group # id
      BY <1>3, <1>14, <2>2
    <3> QED
      BY <1>13, <2>2, <3>1, <3>2
  <2> QED
    BY <1>8, <2>1, <2>2
<1>16. Shown(r) = [user |-> u, key |-> k, group |-> b.group,
                   status |-> IF b.group = id THEN "SUBMITTED" ELSE "DUPLICATE"]
  BY <1>8, <1>11, <1>15 DEF Shown, SameOrigin
<1>17. k # NoKey => ~ Register!Has(u, k)
  <2> SUFFICES ASSUME k # NoKey, NEW i \in DOMAIN Entered, Entered[i].user = u, Entered[i].key = k
               PROVE  FALSE
    BY DEF Register!Has
  <2>1. i \in Rows /\ reports[i].user = u /\ reports[i].key = k
    BY <1>13 DEF Shown
  <2> QED
    BY <1>1, <2>1 DEF InTable
<1>18. \/ answers' = answers
       \/ k # NoKey /\ answers' = answers \cup {<<u, k, id>>}
  BY <1>4
<1> QED
  BY <1>12, <1>13, <1>15, <1>16, <1>17, <1>18 DEF Register!Enter

(* The field observations implement the register. *)
THEOREM ImplementsRegister == Spec => RegisterSpec
<1>1. Init => Register!Init
  BY DEF Init, Register!Init, Entered, Rows
<1>2. IInv /\ [Next]_vars => [Register!Next]_<<Entered, answers>>
  <2> SUFFICES ASSUME IInv, [Next]_vars
               PROVE  Register!Next \/ UNCHANGED <<Entered, answers>>
    OBVIOUS
  <2>1. DOMAIN Entered = Rows
    BY DEF Entered
  <2>2. ASSUME NEW u \in Users, NEW k \in Headers[u], Post(u, k) PROVE Register!Next
    <3>1. k \in Keys \cup {NoKey}
      BY GroundAssumption
    <3>2. CASE Replay(u, k)
      BY <2>1, <3>1, <3>2, ReplayTells DEF Register!Next
    <3>3. ASSUME NEW o \in Observations, NEW e \in Evidence \cup {NoEvidence}, NEW done \in 1 .. 4,
                 Create(u, k, o, e, done)
          PROVE  Register!Next
      BY <3>1, <3>3, CreateEnters DEF Register!Next
    <3> QED
      BY <2>2, <3>2, <3>3 DEF Post
  <2>3. ASSUME NEW i \in Rows, Recalculate(i) PROVE UNCHANGED <<Entered, answers>>
    BY <2>3, RecalculateIsUnseen
  <2>4. ASSUME NEW i \in Rows, NEW s \in Verdicts, Moderate(i, s) PROVE Register!Next
    BY <2>1, <2>4, ModerateDecides DEF Register!Next
  <2>5. CASE WeekPasses
    BY <2>5 DEF WeekPasses, Entered, Rows
  <2>6. CASE UNCHANGED vars
    BY <2>6 DEF vars, Entered, Rows
  <2> QED
    BY <2>2, <2>3, <2>4, <2>5, <2>6 DEF Next
<1> QED
  BY <1>1, <1>2, Inductive, PTL DEF Spec, RegisterSpec, Register!Spec

=============================================================================
