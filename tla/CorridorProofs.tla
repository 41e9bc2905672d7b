--------------------------- MODULE CorridorProofs ---------------------------
(***************************************************************************)
(* Proofs about the answers of the engines: Corridor for any landslides,   *)
(* weather, rainfall, field reports and road graphs, and LiveFeeds, the    *)
(* caches the weather comes through, for any number of tasks and points,   *)
(* any lives of the caches and any length of a fetch.                      *)
(*                                                                         *)
(* Corridor: the answer a client holds was computed from the rows that are *)
(* there now (AnswerIsOfNow, AnswerIsOfRoads).  What is left is arithmetic *)
(* of the scores, that more rows around a point never lower its spatial    *)
(* score, and that the fold over the segments divides the junctions into   *)
(* what they connect (Parted), in one way only, so that a part is lost     *)
(* with a segment exactly when some bank is crossed by no other.           *)
(*                                                                         *)
(* LiveFeeds: an entry of the cache and a fetch that runs share one budget *)
(* of minutes (GoodEntry: what has gone by since the fetch began, and what *)
(* is left of the life, are a fetch and a life at most), and a scan        *)
(* carries its oldest observation relative to its own start (GoodTask), so *)
(* that the stamp of the watch bounds it.                                  *)
(***************************************************************************)
EXTENDS Corridor, LiveFeeds, FiniteSetTheorems, WellFoundedInduction, TLAPS

\* A request for an alert, as its severity and its type are determined from it.
AlertInput(x) == x.isolation \in {"", "MODERATE", "HIGH", "CRITICAL"}

\* What the live engine makes of the rows, with its baseline.
LiveOf(S, sky) == LiveScore(TRUE, S, sky)
ConfidenceOf(S, sky) == LiveConfidence(TRUE, S, sky)

AnswerIsOfNow ==
    /\ answer.kind = "baseline" => \E x \in Anomalies :
          /\ answer.spatial = SpatialScore[slides]
          /\ answer.rain = RainScore(Anomaly(x.observed, x.mean, x.deviation))
          /\ answer.score = Composite(answer.spatial, answer.rain)
    /\ answer.kind = "live" =>
          /\ answer.sky \in Skies /\ answer.baseline \in BOOLEAN
          /\ answer.baseline => /\ answer.score = LiveOf(slides, answer.sky)
                                /\ answer.confidence = ConfidenceOf(slides, answer.sky)
    /\ answer.kind = "alert" => \E x :
          /\ AlertInput(x)
          /\ answer.levels = {x.riskLevel, x.priorityLevel}
          /\ answer.severity = Severity(x) /\ answer.type = AlertType(x)

IInv == slides \in SUBSET Slides /\ AnswerIsOfNow

-----------------------------------------------------------------------------
(* Numbers.                                                                *)

LEMMA MaxOfTwo ==
  ASSUME NEW a \in Int, NEW b \in Int PROVE Max({a, b}) = IF a >= b THEN a ELSE b
<1> DEFINE m == IF a >= b THEN a ELSE b
<1>1. m \in {a, b} /\ \A y \in {a, b} : m >= y
  OBVIOUS
<1>2. \A x \in {a, b} : (\A y \in {a, b} : x >= y) => x = m
  OBVIOUS
<1> HIDE DEF m
<1> QED
  BY <1>1, <1>2 DEF Max

LEMMA MinOfTwo ==
  ASSUME NEW a \in Int, NEW b \in Int PROVE Min({a, b}) = IF a <= b THEN a ELSE b
<1> DEFINE m == IF a <= b THEN a ELSE b
<1>1. m \in {a, b} /\ \A y \in {a, b} : m <= y
  OBVIOUS
<1>2. \A x \in {a, b} : (\A y \in {a, b} : x <= y) => x = m
  OBVIOUS
<1> HIDE DEF m
<1> QED
  BY <1>1, <1>2 DEF Min

LEMMA ClampedScore ==
  ASSUME NEW n \in Int
  PROVE  Clamped(n) = IF n < 0 THEN 0 ELSE IF n > 1000 THEN 1000 ELSE n
<1>1. Min({1000, n}) = IF 1000 <= n THEN 1000 ELSE n
  BY MinOfTwo
<1>2. Min({1000, n}) \in Int
  BY <1>1
<1>3. Clamped(n) = IF 0 >= Min({1000, n}) THEN 0 ELSE Min({1000, n})
  BY <1>2, MaxOfTwo DEF Clamped
<1> QED
  BY <1>1, <1>3

(* A set of numbers that is not empty has a least element. *)
LEMMA LeastElement ==
  ASSUME NEW S \in SUBSET Nat, S # {} PROVE Min(S) \in S /\ \A y \in S : Min(S) <= y
<1> DEFINE Below == OpToRel(<, Nat)
<1>1. \A x, y \in Nat : <<y, x>> \in Below <=> y < x
  BY DEF OpToRel
<1>2. IsWellFoundedOn(Below, Nat)
  BY NatLessThanWellFounded
<1> HIDE DEF Below
<1>3. PICK x \in S : \A y \in S : ~ (<<y, x>> \in Below)
  BY <1>2, WFMin, Zenon
<1>4. ASSUME NEW y \in S PROVE x <= y
  <2>1. x \in Nat /\ y \in Nat
    OBVIOUS
  <2>2. ~ (y < x)
    BY <1>1, <1>3, <2>1, Zenon
  <2> QED
    BY <2>1, <2>2
<1>5. \E m \in S : \A y \in S : m <= y
  BY <1>4
<1> QED
  BY <1>5 DEF Min

-----------------------------------------------------------------------------
(* The composite and the confidence.                                       *)

LEMMA RainScoreRange ==
  ASSUME NEW a \in Int PROVE RainScore(a) \in 0 .. 1000
<1>1. CASE a <= 0
  BY <1>1 DEF RainScore
<1>2. CASE a > 300
  BY <1>2 DEF RainScore
<1>3. CASE a > 0 /\ a <= 300
  <2>1. RainScore(a) = (2 * (a * 3333) + 1000) \div (2 * 1000)
    BY <1>3 DEF RainScore, Rounded
  <2> QED
    BY <1>3, <2>1, SMT
<1> QED
  BY <1>1, <1>2, <1>3

LEMMA AnomalyType ==
  ASSUME NEW x \in Anomalies PROVE Anomaly(x.observed, x.mean, x.deviation) \in Int
<1>1. x \in [observed : Int, mean : Int, deviation : Int]
  BY CorridorAssumption
<1>2. x.observed \in Int /\ x.mean \in Int /\ x.deviation \in Int
  BY <1>1
<1> QED
  BY <1>2 DEF Anomaly, Rounded

LEMMA CompositeLies ==
  ASSUME NEW s \in 0 .. 1000, NEW r \in 0 .. 1000
  PROVE  Min({s, r}) <= Composite(s, r) /\ Composite(s, r) <= Max({s, r})
<1>1. Min({s, r}) = (IF s <= r THEN s ELSE r) /\ Max({s, r}) = (IF s >= r THEN s ELSE r)
  BY MinOfTwo, MaxOfTwo
<1>2. Composite(s, r) = (2 * (625 * s + 375 * r) + 1000) \div 2000
  BY DEF Composite, Rounded
<1>3. (IF s <= r THEN s ELSE r) <= (2 * (625 * s + 375 * r) + 1000) \div 2000
  OBVIOUS
<1>4. (2 * (625 * s + 375 * r) + 1000) \div 2000 <= (IF s >= r THEN s ELSE r)
  OBVIOUS
<1> QED
  BY <1>1, <1>2, <1>3, <1>4

-----------------------------------------------------------------------------
(* The spatial score.                                                      *)

Inner(S) == {s \in Around(S) : Distance[s] <= 5}
Mid(S) == {s \in Around(S) : Distance[s] > 5 /\ Distance[s] <= 10}
Outer(S) == Around(S) \ (Inner(S) \cup Mid(S))
Density(S) == 80 * Cardinality(Inner(S)) + 30 * Cardinality(Mid(S)) + 10 * Cardinality(Outer(S))

LEMMA FewerRows ==
  ASSUME NEW B \in SUBSET Slides, NEW A \in SUBSET B
  PROVE  Cardinality(A) \in Nat /\ Cardinality(A) <= Cardinality(B) /\ Cardinality(B) \in Nat
<1>1. IsFiniteSet(B)
  BY CorridorAssumption, FS_Subset
<1>2. IsFiniteSet(A) /\ Cardinality(A) <= Cardinality(B)
  BY <1>1, FS_Subset
<1> QED
  BY <1>1, <1>2, FS_CardinalityType

LEMMA MoreRowsDenser ==
  ASSUME NEW B \in SUBSET Slides, NEW A \in SUBSET B
  PROVE  Density(A) \in Nat /\ Density(B) \in Nat /\ Density(A) <= Density(B)
<1>1. /\ Inner(A) \in SUBSET Inner(B) /\ Inner(B) \in SUBSET Slides
      /\ Mid(A) \in SUBSET Mid(B) /\ Mid(B) \in SUBSET Slides
      /\ Outer(A) \in SUBSET Outer(B) /\ Outer(B) \in SUBSET Slides
  BY DEF Inner, Mid, Outer, Around
<1> DEFINE n(S) == Cardinality(S)
<1>2. /\ n(Inner(A)) \in Nat /\ n(Inner(B)) \in Nat /\ n(Inner(A)) <= n(Inner(B))
      /\ n(Mid(A)) \in Nat /\ n(Mid(B)) \in Nat /\ n(Mid(A)) <= n(Mid(B))
      /\ n(Outer(A)) \in Nat /\ n(Outer(B)) \in Nat /\ n(Outer(A)) <= n(Outer(B))
  BY <1>1, FewerRows
<1> QED
  BY <1>2 DEF Density

LEMMA NearestIsNear ==
  ASSUME NEW S \in SUBSET Slides, Around(S) # {}
  PROVE  /\ Nearest(S) \in 0 .. 25
         /\ \A s \in Around(S) : Nearest(S) <= Distance[s]
         /\ \E s \in Around(S) : Nearest(S) = Distance[s]
<1> DEFINE D == {Distance[s] : s \in Around(S)}
<1>1. \A s \in Around(S) : Distance[s] \in 0 .. 25
  BY CorridorAssumption DEF Around
<1>2. D \in SUBSET Nat /\ D # {}
  BY <1>1
<1>3. Nearest(S) = Min(D)
  BY DEF Nearest
<1>4. Min(D) \in D /\ \A y \in D : Min(D) <= y
  <2> HIDE DEF D
  <2> QED
    BY <1>2, LeastElement
<1> QED
  BY <1>1, <1>3, <1>4

(* Without a row there is no score; with rows it is at most 1000. *)
LEMMA SpatialScoreIs ==
  ASSUME NEW S \in SUBSET Slides
  PROVE  /\ Around(S) = {} => SpatialScore[S] = 0
         /\ Around(S) # {} =>
              LET d == IF Density(S) < 700 THEN Density(S) ELSE 700
                  n == d + 300 - 12 * Nearest(S)
              IN  SpatialScore[S] = (IF n < 1000 THEN n ELSE 1000)
         /\ SpatialScore[S] \in 0 .. 1000
<1>1. SpatialScore[S] = IF Around(S) = {} THEN 0
                        ELSE Min({1000, Min({700, Density(S)}) + 300 - 12 * Nearest(S)})
  BY DEF SpatialScore, Density, Inner, Mid, Outer
<1>2. CASE Around(S) = {}
  BY <1>1, <1>2
<1>3. CASE Around(S) # {}
  <2>1. Nearest(S) \in 0 .. 25
    BY <1>3, NearestIsNear
  <2>2. Density(S) \in Nat
    BY MoreRowsDenser
  <2>3. Min({700, Density(S)}) = IF Density(S) < 700 THEN Density(S) ELSE 700
    BY <2>2, MinOfTwo
  <2> DEFINE n == (IF Density(S) < 700 THEN Density(S) ELSE 700) + 300 - 12 * Nearest(S)
  <2>4. n \in Int /\ n >= 0
    BY <2>1, <2>2
  <2>5. SpatialScore[S] = Min({1000, n})
    BY <1>1, <1>3, <2>3
  <2>6. Min({1000, n}) = IF n < 1000 THEN n ELSE 1000
    <3> HIDE DEF n
    <3> QED
      BY <2>4, MinOfTwo
  <2> QED
    BY <1>3, <2>4, <2>5, <2>6
<1> QED
  BY <1>2, <1>3

(* More rows never lower the spatial score. *)
LEMMA MoreRowsHigher ==
  ASSUME NEW B \in SUBSET Slides, NEW A \in SUBSET B
  PROVE  SpatialScore[A] <= SpatialScore[B]
<1>1. A \in SUBSET Slides /\ Around(A) \subseteq Around(B)
  BY DEF Around
<1>2. CASE Around(A) = {}
  BY <1>1, <1>2, SpatialScoreIs
<1>3. CASE Around(A) # {}
  <2>1. Around(B) # {}
    BY <1>1, <1>3
  <2>2. Density(A) \in Nat /\ Density(B) \in Nat /\ Density(A) <= Density(B)
    BY MoreRowsDenser
  <2>3. Nearest(A) \in 0 .. 25 /\ Nearest(B) \in 0 .. 25 /\ Nearest(B) <= Nearest(A)
    BY <1>1, <1>3, <2>1, NearestIsNear
  <2>4. SpatialScore[A] = LET d == IF Density(A) < 700 THEN Density(A) ELSE 700
                              n == d + 300 - 12 * Nearest(A)
                          IN  IF n < 1000 THEN n ELSE 1000
    BY <1>1, <1>3, SpatialScoreIs
  <2>5. SpatialScore[B] = LET d == IF Density(B) < 700 THEN Density(B) ELSE 700
                              n == d + 300 - 12 * Nearest(B)
                          IN  IF n < 1000 THEN n ELSE 1000
    BY <2>1, SpatialScoreIs
  <2> QED
    BY <2>2, <2>3, <2>4, <2>5
<1> QED
  BY <1>2, <1>3

LEMMA ConfidenceIsNat ==
  ASSUME NEW S \in SUBSET Slides PROVE BaselineConfidence[S][FALSE] \in Nat
<1> DEFINE count == Cardinality(Around(S))
           dated == Cardinality(Around(S) \cap Dated)
           twenty == Min({200, 20 * count})
           share == IF dated > 0 THEN Rounded(200 * dated, count) ELSE 50
<1>1. Around(S) \in SUBSET Slides /\ Around(S) \cap Dated \in SUBSET Around(S)
  BY DEF Around
<1>2. count \in Nat /\ dated \in Nat
  BY <1>1, FewerRows
<1>3. BaselineConfidence[S][FALSE] = (IF count = 0 THEN 100 ELSE twenty + share) + 0
  BY DEF BaselineConfidence
<1> HIDE DEF count, dated
<1>4. twenty \in Nat
  BY <1>2, MinOfTwo
<1>5. count # 0 => share \in Nat
  BY <1>2 DEF Rounded
<1> QED
  BY <1>3, <1>4, <1>5

-----------------------------------------------------------------------------
(* The weather.                                                            *)

LEMMA TriggerGrows ==
  ASSUME NEW one \in Int, NEW two \in Int, one <= two,
         NEW h \in BOOLEAN, NEW k \in BOOLEAN, h => k
  PROVE  Trigger(one, h) \in 0 .. 150 /\ Trigger(two, k) \in 0 .. 150
         /\ Trigger(one, h) <= Trigger(two, k)
<1> DEFINE tier(r) == IF r >= 355 THEN 150 ELSE IF r >= 75 THEN 100 ELSE IF r >= 25 THEN 50 ELSE 0
           sum(r, x) == tier(r) + (IF x THEN 30 ELSE 0)
<1>1. ASSUME NEW r \in Int, NEW x \in BOOLEAN
      PROVE  Trigger(r, x) = (IF sum(r, x) < 150 THEN sum(r, x) ELSE 150)
  <2>1. tier(r) = CASE r >= 355 -> 150
                    [] r >= 75 /\ r < 355 -> 100
                    [] r >= 25 /\ r < 75 -> 50
                    [] r < 25 -> 0
    OBVIOUS
  <2>2. Trigger(r, x) = Min({150, sum(r, x)})
    BY <2>1 DEF Trigger
  <2>3. sum(r, x) \in Int
    OBVIOUS
  <2> HIDE DEF sum
  <2> QED
    BY <2>2, <2>3, MinOfTwo
<1>2. Trigger(one, h) = (IF sum(one, h) < 150 THEN sum(one, h) ELSE 150)
  BY <1>1
<1>3. Trigger(two, k) = (IF sum(two, k) < 150 THEN sum(two, k) ELSE 150)
  BY <1>1
<1> QED
  BY <1>2, <1>3

LEMMA SkyConfidenceIs ==
  ASSUME NEW sky, sky.age \in Int
  PROVE  /\ sky.age <= 600 => SkyConfidence(sky) = 250
         /\ sky.age > 600 => SkyConfidence(sky) = LET n == 250 - (sky.age - 600) \div 50
                                                  IN  IF n > 0 THEN n ELSE 0
         /\ SkyConfidence(sky) \in Nat
<1> DEFINE late == IF sky.age > 600 THEN sky.age - 600 ELSE 0
           n == 250 - late \div 50
<1>1. Max({0, sky.age - 600}) = late
  BY MaxOfTwo
<1>2. late \in Nat
  OBVIOUS
<1>3. n \in Int
  <2> HIDE DEF late
  <2> QED
    BY <1>2
<1>4. SkyConfidence(sky) = Max({0, n})
  BY <1>1 DEF SkyConfidence
<1>5. Max({0, n}) = IF n > 0 THEN n ELSE 0
  <2> HIDE DEF n
  <2> QED
    BY <1>3, MaxOfTwo
<1> QED
  BY <1>3, <1>4, <1>5

LEMMA SkiesType ==
  ASSUME NEW sky \in Skies
  PROVE  sky.known \in BOOLEAN /\ sky.rain \in Int /\ sky.humid \in BOOLEAN /\ sky.age \in Int
<1>1. sky \in [known : BOOLEAN, rain : Int, humid : BOOLEAN, age : Int]
  BY CorridorAssumption
<1> QED
  BY <1>1

\* What the weather adds to the spatial score.
Added(sky) == IF sky.known THEN Trigger(sky.rain, sky.humid) ELSE 0

LEMMA AddedRange ==
  ASSUME NEW sky \in Skies PROVE Added(sky) \in 0 .. 150
<1>1. sky.rain \in Int /\ sky.humid \in BOOLEAN
  BY SkiesType
<1>2. Trigger(sky.rain, sky.humid) \in 0 .. 150
  BY <1>1, TriggerGrows
<1> QED
  BY <1>2 DEF Added

LEMMA LiveScoreIs ==
  ASSUME NEW S \in SUBSET Slides, NEW sky \in Skies
  PROVE  /\ Added(sky) \in 0 .. 150
         /\ LiveOf(S, sky) = (IF SpatialScore[S] + Added(sky) > 1000 THEN 1000
                                       ELSE SpatialScore[S] + Added(sky))
         /\ LiveOf(S, sky) \in 0 .. 1000
<1>1. Added(sky) \in 0 .. 150
  BY AddedRange
<1>2. PICK a \in 0 .. 150 : a = Added(sky)
  BY <1>1
<1>3. PICK b \in 0 .. 1000 : b = SpatialScore[S]
  BY SpatialScoreIs
<1>4. PICK c \in Nat : c = b + a
  OBVIOUS
<1>5. PICK v : v = LiveOf(S, sky)
  OBVIOUS
<1>6. v = Clamped(c)
  BY <1>2, <1>3, <1>4, <1>5 DEF LiveOf, LiveScore, Added
<1>7. v = IF c > 1000 THEN 1000 ELSE c
  BY <1>6, ClampedScore
<1>8. v = (IF SpatialScore[S] + Added(sky) > 1000 THEN 1000 ELSE SpatialScore[S] + Added(sky))
  BY <1>2, <1>3, <1>4, <1>7
<1>9. v \in 0 .. 1000
  BY <1>7
<1> QED
  BY <1>1, <1>5, <1>8, <1>9

LEMMA LiveConfidenceIs ==
  ASSUME NEW S \in SUBSET Slides
  PROVE  \E c \in Nat : \A sky : ConfidenceOf(S, sky)
                                 = c + (IF sky.known THEN SkyConfidence(sky) ELSE 0)
<1> DEFINE c == Rounded(60 * BaselineConfidence[S][FALSE], 100)
<1>1. PICK b \in Nat : b = BaselineConfidence[S][FALSE]
  BY ConfidenceIsNat
<1>2. c \in Nat
  <2>1. c = (2 * (60 * b) + 100) \div (2 * 100)
    BY <1>1 DEF Rounded
  <2> HIDE DEF c
  <2> QED
    BY <2>1
<1>3. \A sky : ConfidenceOf(S, sky) = c + (IF sky.known THEN SkyConfidence(sky) ELSE 0)
  BY DEF ConfidenceOf, LiveConfidence
<1> QED
  BY <1>2, <1>3

-----------------------------------------------------------------------------
(* The priority.                                                           *)

LEMMA LevelGrows ==
  ASSUME NEW one \in Int, NEW two \in Int, one <= two
  PROVE  /\ UrgencyBase(Level(one)) \in {25, 50, 75, 100}
         /\ UrgencyBase(Level(two)) \in {25, 50, 75, 100}
         /\ UrgencyBase(Level(one)) <= UrgencyBase(Level(two))
<1> DEFINE base(n) == IF n <= 240 THEN 25 ELSE IF n <= 490 THEN 50 ELSE IF n <= 740 THEN 75 ELSE 100
<1>1. ASSUME NEW n \in Int PROVE UrgencyBase(Level(n)) = base(n)
  <2>1. CASE n <= 240
    BY <2>1 DEF Level, UrgencyBase
  <2>2. CASE n > 240 /\ n <= 490
    BY <2>2 DEF Level, UrgencyBase
  <2>3. CASE n > 490 /\ n <= 740
    BY <2>3 DEF Level, UrgencyBase
  <2>4. CASE n > 740
    BY <2>4 DEF Level, UrgencyBase
  <2> QED
    BY <2>1, <2>2, <2>3, <2>4
<1>2. UrgencyBase(Level(one)) = base(one) /\ UrgencyBase(Level(two)) = base(two)
  BY <1>1
<1> QED
  BY <1>2

LEMMA PriorityGrows ==
  ASSUME NEW one \in Int, NEW two \in Int, one <= two, NEW confidence \in Nat
  PROVE  PriorityOf(one, confidence) <= PriorityOf(two, confidence)
<1> DEFINE b1 == UrgencyBase(Level(one))
           b2 == UrgencyBase(Level(two))
           u1 == (b1 * (1000 + confidence) + 10) \div 20
           u2 == (b2 * (1000 + confidence) + 10) \div 20
           w == 1000 + confidence
<1>1. b1 \in {25, 50, 75, 100} /\ b2 \in {25, 50, 75, 100} /\ b1 <= b2
  BY LevelGrows
<1>2. /\ PriorityOf(one, confidence) = (45 * 10 * one + 40 * 0 + 15 * u1 + 50) \div 100
      /\ PriorityOf(two, confidence) = (45 * 10 * two + 40 * 0 + 15 * u2 + 50) \div 100
  BY DEF PriorityOf, Priority, Urgency
<1> HIDE DEF b1, b2
<1>3. w \in Nat
  OBVIOUS
<1>4. b1 * w \in Nat /\ b2 * w \in Nat /\ b1 * w <= b2 * w
  <2> HIDE DEF w
  <2> QED
    BY <1>1, <1>3
<1>5. u1 \in Int /\ u2 \in Int /\ u1 <= u2
  <2>1. u1 = (b1 * w + 10) \div 20 /\ u2 = (b2 * w + 10) \div 20
    OBVIOUS
  <2> DEFINE p == b1 * w
             q == b2 * w
  <2>2. p \in Nat /\ q \in Nat /\ p <= q /\ u1 = (p + 10) \div 20 /\ u2 = (q + 10) \div 20
    BY <1>4, <2>1
  <2> HIDE DEF p, q, u1, u2
  <2> QED
    BY <2>2
<1> HIDE DEF u1, u2, w
<1> QED
  BY <1>2, <1>5

-----------------------------------------------------------------------------
(* The alerts.                                                             *)

LEMMA Ranks ==
  /\ Precedence("INFO") = 1 /\ Precedence("WARNING") = 2
  /\ Precedence("HIGH") = 3 /\ Precedence("CRITICAL") = 4
<1>1. /\ DOMAIN Severities = 1 .. 4
      /\ Severities[1] = "INFO" /\ Severities[2] = "WARNING"
      /\ Severities[3] = "HIGH" /\ Severities[4] = "CRITICAL"
  BY DEF Severities
<1>2. \A i \in DOMAIN Severities : /\ Severities[i] = "INFO" => i = 1
                                   /\ Severities[i] = "WARNING" => i = 2
                                   /\ Severities[i] = "HIGH" => i = 3
                                   /\ Severities[i] = "CRITICAL" => i = 4
  BY <1>1
<1> QED
  BY <1>1, <1>2 DEF Precedence

\* The candidates of determine_alert_severity.
FromIsolation(x) ==
  CASE x.isolation = "CRITICAL" -> {"HIGH"}
    [] x.isolation \in {"HIGH", "MODERATE"} -> {"WARNING"}
    [] x.isolation = "" -> {}
FromGround(x) ==
  IF x.ground.trust = "HIGH" /\ x.ground.count >= 2 /\ x.ground.score >= 800 THEN {"HIGH"}
  ELSE IF Corroborates(x.ground) THEN {"WARNING"} ELSE {}
Candidates(x) ==
  ByScoreOrLevel(x.riskLevel, x.risk, 700) \cup ByScoreOrLevel(x.priorityLevel, x.priority, 750)
  \cup FromIsolation(x) \cup FromGround(x)

(* The severity is the greatest candidate. *)
LEMMA SeverityIsGreatest ==
  ASSUME NEW x, AlertInput(x)
  PROVE  /\ Candidates(x) \subseteq {"WARNING", "HIGH", "CRITICAL"}
         /\ \A c \in Candidates(x) : AtLeast(Severity(x), c)
         /\ Candidates(x) = {} => Severity(x) = "INFO"
         /\ Candidates(x) # {} => Severity(x) \in Candidates(x)
<1> DEFINE C == Candidates(x)
<1>1. C \subseteq {"WARNING", "HIGH", "CRITICAL"}
  <2>1. FromIsolation(x) \subseteq {"WARNING", "HIGH", "CRITICAL"}
    BY DEF FromIsolation, AlertInput
  <2>2. FromGround(x) \subseteq {"WARNING", "HIGH", "CRITICAL"}
    BY DEF FromGround
  <2>3. \A l, s, t : ByScoreOrLevel(l, s, t) \subseteq {"WARNING", "HIGH", "CRITICAL"}
    BY DEF ByScoreOrLevel
  <2> QED
    BY <2>1, <2>2, <2>3 DEF Candidates
<1>2. Severity(x) = IF C = {} THEN "INFO" ELSE CHOOSE c \in C : \A other \in C : AtLeast(c, other)
  BY DEF Severity, Candidates, FromIsolation, FromGround
<1> HIDE DEF C
<1>3. C # {} => \E c \in C : \A other \in C : AtLeast(c, other)
  <2>1. \A c, d \in {"WARNING", "HIGH", "CRITICAL"} :
          AtLeast(c, d) <=> c = "CRITICAL" \/ d = "WARNING" \/ c = d
    BY Ranks DEF AtLeast
  <2>2. CASE "CRITICAL" \in C
    BY <1>1, <2>1, <2>2
  <2>3. CASE "CRITICAL" \notin C /\ "HIGH" \in C
    BY <1>1, <2>1, <2>3
  <2>4. CASE "CRITICAL" \notin C /\ "HIGH" \notin C
    <3>1. \A c, d \in C : AtLeast(c, d)
      BY <1>1, <2>1, <2>4
    <3> QED
      BY <3>1
  <2> QED
    BY <2>2, <2>3, <2>4
<1>4. C # {} => Severity(x) \in C /\ \A other \in C : AtLeast(Severity(x), other)
  BY <1>2, <1>3
<1> QED
  BY <1>1, <1>2, <1>4 DEF C

(* The type and the severity of an alert agree. *)
LEMMA TypeMeetsSeverity ==
  ASSUME NEW x, AlertInput(x)
  PROVE  /\ AlertType(x) \in {"CRITICAL_RISK", "CRITICAL_PRIORITY"} <=> Severity(x) = "CRITICAL"
         /\ AlertType(x) = "HIGH_PRIORITY" => AtLeast(Severity(x), "HIGH")
         /\ AlertType(x) \in {"CONNECTIVITY_DISRUPTION", "GROUND_INTELLIGENCE"}
              => AtLeast(Severity(x), "WARNING")
         /\ \A level \in {x.riskLevel, x.priorityLevel} \cap {"HIGH", "CRITICAL"} :
              AtLeast(Severity(x), level)
<1> DEFINE risk == ByScoreOrLevel(x.riskLevel, x.risk, 700)
           priority == ByScoreOrLevel(x.priorityLevel, x.priority, 750)
           criticalRisk == x.riskLevel = "CRITICAL" \/ Normal(x.risk) >= 700
           criticalPriority == x.priorityLevel = "CRITICAL" \/ Normal(x.priority) >= 750
           highPriority == x.priorityLevel = "HIGH" \/ Normal(x.priority) >= 500
           S == Severity(x)
<1>1. /\ Candidates(x) \subseteq {"WARNING", "HIGH", "CRITICAL"}
      /\ \A c \in Candidates(x) : AtLeast(S, c)
      /\ Candidates(x) = {} => S = "INFO"
      /\ Candidates(x) # {} => S \in Candidates(x)
  BY SeverityIsGreatest
<1>2. Candidates(x) = risk \cup priority \cup FromIsolation(x) \cup FromGround(x)
  BY DEF Candidates
<1>3. /\ "CRITICAL" \in risk <=> criticalRisk
      /\ "CRITICAL" \in priority <=> criticalPriority
      /\ ~ criticalPriority /\ highPriority => "HIGH" \in priority
      /\ x.riskLevel = "HIGH" => risk \cap {"HIGH", "CRITICAL"} # {}
      /\ x.priorityLevel = "HIGH" => priority \cap {"HIGH", "CRITICAL"} # {}
  BY DEF ByScoreOrLevel
<1>4. "CRITICAL" \notin FromIsolation(x) /\ "CRITICAL" \notin FromGround(x)
  BY DEF FromIsolation, FromGround, AlertInput
<1>5. /\ x.isolation # "" => FromIsolation(x) # {}
      /\ Corroborates(x.ground) => FromGround(x) # {}
  BY DEF FromIsolation, FromGround, AlertInput
<1>6. \A c, d \in {"INFO", "WARNING", "HIGH", "CRITICAL"} :
        AtLeast(c, d) <=> \/ c = "CRITICAL" \/ d = "INFO" \/ c = d
                          \/ c = "HIGH" /\ d = "WARNING"
  BY Ranks DEF AtLeast
<1>7. S = "CRITICAL" <=> criticalRisk \/ criticalPriority
  BY <1>1, <1>2, <1>3, <1>4, <1>6
<1> DEFINE highRisk == x.riskLevel = "HIGH" \/ Normal(x.risk) >= 500
<1>8. AlertType(x) =
        IF criticalPriority THEN "CRITICAL_PRIORITY"
        ELSE IF criticalRisk THEN "CRITICAL_RISK"
        ELSE IF highPriority THEN "HIGH_PRIORITY"
        ELSE IF highRisk THEN "HIGH_RISK"
        ELSE IF x.isolation # "" /\ ~ Corroborates(x.ground) THEN "CONNECTIVITY_DISRUPTION"
        ELSE IF Corroborates(x.ground) THEN "GROUND_INTELLIGENCE"
        ELSE "HIGH_RISK"
  BY Zenon DEF AlertType
<1> HIDE DEF criticalRisk, criticalPriority, highPriority, highRisk
<1>9. AlertType(x) \in {"CRITICAL_RISK", "CRITICAL_PRIORITY"} <=> criticalRisk \/ criticalPriority
  BY <1>8
<1>10. AlertType(x) = "HIGH_PRIORITY" => ~ criticalPriority /\ highPriority
  BY <1>8
<1>11. /\ AlertType(x) = "CONNECTIVITY_DISRUPTION" => x.isolation # ""
       /\ AlertType(x) = "GROUND_INTELLIGENCE" => Corroborates(x.ground)
  BY <1>8
<1> HIDE DEF risk, priority, S
<1>12. AlertType(x) = "HIGH_PRIORITY" => AtLeast(S, "HIGH")
  BY <1>1, <1>2, <1>3, <1>10
<1>13. AlertType(x) \in {"CONNECTIVITY_DISRUPTION", "GROUND_INTELLIGENCE"} => AtLeast(S, "WARNING")
  <2>1. SUFFICES ASSUME Candidates(x) # {} PROVE AtLeast(S, "WARNING")
    BY <1>2, <1>5, <1>11
  <2>2. S \in {"WARNING", "HIGH", "CRITICAL"}
    BY <1>1, <2>1
  <2> QED
    BY <1>6, <2>2
<1>14. ASSUME NEW level \in {x.riskLevel, x.priorityLevel} \cap {"HIGH", "CRITICAL"}
       PROVE  AtLeast(S, level)
  <2>1. Candidates(x) # {} /\ S \in {"WARNING", "HIGH", "CRITICAL"}
    BY <1>1, <1>2, <1>3, <1>14 DEF criticalRisk, criticalPriority
  <2>2. CASE level = "CRITICAL"
    BY <1>6, <1>7, <1>14, <2>1, <2>2 DEF criticalRisk, criticalPriority
  <2>3. CASE level = "HIGH"
    <3>1. "HIGH" \in Candidates(x) \/ "CRITICAL" \in Candidates(x)
      BY <1>2, <1>3, <1>14, <2>3
    <3> QED
      BY <1>1, <1>6, <2>1, <2>3, <3>1
  <2> QED
    BY <1>14, <2>2, <2>3
<1> QED
  BY <1>7, <1>9, <1>12, <1>13, <1>14 DEF S

-----------------------------------------------------------------------------
(* The steps.                                                              *)

LEMMA InitHolds == Init => IInv
  BY DEF Init, NoAnswer, IInv, AnswerIsOfNow

(* An answer of a kind that AnswerIsOfNow does not tell of, and rows that are as *)
(* they were or come to an end of the answer.                                    *)
LEMMA OtherAnswer ==
  ASSUME IInv, slides' \in SUBSET Slides, answer'.kind \notin {"baseline", "live", "alert"}
  PROVE  IInv'
  BY DEF IInv, AnswerIsOfNow

LEMMA EvaluateRiskKeeps == ASSUME IInv, EvaluateRisk PROVE IInv'
<1>1. PICK x \in Anomalies :
        /\ answer' = [kind |-> "baseline", spatial |-> SpatialScore[slides],
                      rain |-> RainScore(Anomaly(x.observed, x.mean, x.deviation)),
                      score |-> Composite(SpatialScore[slides],
                                          RainScore(Anomaly(x.observed, x.mean, x.deviation))),
                      confidence |-> BaselineConfidence[slides][TRUE]]
        /\ slides' = slides
  BY DEF EvaluateRisk, Answers
<1>2. /\ answer'.kind = "baseline"
      /\ answer'.spatial = SpatialScore[slides]
      /\ answer'.rain = RainScore(Anomaly(x.observed, x.mean, x.deviation))
      /\ answer'.score = Composite(answer'.spatial, answer'.rain)
  BY <1>1
<1> QED
  BY <1>1, <1>2 DEF IInv, AnswerIsOfNow

LEMMA LiveRiskKeeps == ASSUME IInv, LiveRisk PROVE IInv'
<1>1. PICK baseline \in BOOLEAN, sky \in Skies :
        /\ answer' = [kind |-> "live", score |-> LiveScore(baseline, slides, sky),
                      level |-> Level(LiveScore(baseline, slides, sky)), baseline |-> baseline,
                      sky |-> sky, confidence |-> LiveConfidence(baseline, slides, sky)]
        /\ slides' = slides
  BY DEF LiveRisk, Answers
<1>2. /\ answer'.kind = "live" /\ answer'.baseline = baseline /\ answer'.sky = sky
      /\ answer'.score = LiveScore(baseline, slides, sky)
      /\ answer'.confidence = LiveConfidence(baseline, slides, sky)
  BY <1>1
<1>3. baseline => /\ LiveScore(baseline, slides, sky) = LiveOf(slides, sky)
                  /\ LiveConfidence(baseline, slides, sky) = ConfidenceOf(slides, sky)
  BY DEF LiveScore, LiveOf, LiveConfidence, ConfidenceOf
<1> QED
  BY <1>1, <1>2, <1>3 DEF IInv, AnswerIsOfNow

(* What an alert says of its request. *)
AlertOf(x) == [kind |-> "alert", levels |-> {x.riskLevel, x.priorityLevel},
               severity |-> Severity(x), type |-> AlertType(x)]

LEMMA GeneratedFromRequest == ASSUME GenerateAlert PROVE \E x : AlertInput(x) /\ Answers(AlertOf(x))
<1> DEFINE X(scores, levels, isolation, ground) ==
             [risk |-> IF scores THEN answer.score ELSE 0 - 1,
              priority |-> IF scores THEN 10 * answer.priority ELSE 0 - 1,
              riskLevel |-> IF levels THEN answer.level ELSE "",
              priorityLevel |-> IF levels THEN answer.priorityLevel ELSE "",
              isolation |-> isolation, ground |-> ground]
<1>1. \E scores, levels \in BOOLEAN, isolation \in {"", "MODERATE", "CRITICAL"}, ground \in Grounds :
        Answers(AlertOf(X(scores, levels, isolation, ground)))
  BY Zenon DEF GenerateAlert, AlertOf
<1>2. \A scores, levels, ground : \A isolation \in {"", "MODERATE", "CRITICAL"} :
        AlertInput(X(scores, levels, isolation, ground))
  BY DEF AlertInput
<1> HIDE DEF X
<1> QED
  BY <1>1, <1>2

LEMMA GenerateAlertKeeps == ASSUME IInv, GenerateAlert PROVE IInv'
<1>1. PICK x : AlertInput(x) /\ Answers(AlertOf(x))
  BY GeneratedFromRequest
<1>2. answer' = AlertOf(x) /\ slides' = slides
  BY <1>1 DEF Answers
<1>3. /\ answer'.kind = "alert" /\ answer'.levels = {x.riskLevel, x.priorityLevel}
      /\ answer'.severity = Severity(x) /\ answer'.type = AlertType(x)
  BY <1>2 DEF AlertOf
<1> QED
  BY <1>1, <1>2, <1>3 DEF IInv, AnswerIsOfNow

LEMMA SosAlertKeeps == ASSUME IInv, SosAlert PROVE IInv'
<1> DEFINE x == [risk |-> answer.score, priority |-> 0 - 1, riskLevel |-> answer.level,
                 priorityLevel |-> "", isolation |-> "", ground |-> NoGround]
<1>1. /\ answer' = [kind |-> "alert", levels |-> {x.riskLevel, x.priorityLevel},
                    severity |-> Severity(x), type |-> AlertType(x)]
      /\ slides' = slides
  BY DEF SosAlert, Answers
<1>2. AlertInput(x)
  BY DEF AlertInput
<1> HIDE DEF x
<1>3. /\ answer'.kind = "alert" /\ answer'.levels = {x.riskLevel, x.priorityLevel}
      /\ answer'.severity = Severity(x) /\ answer'.type = AlertType(x)
  BY <1>1
<1> QED
  BY <1>1, <1>2, <1>3 DEF IInv, AnswerIsOfNow

LEMMA PrioritiseKeeps == ASSUME IInv, Prioritise PROVE IInv'
<1>1. ASSUME NEW score, NEW level, NEW confidence, NEW isolation,
             Prioritised(score, level, confidence, isolation)
      PROVE  answer'.kind = "priority" /\ slides' = slides
  BY <1>1 DEF Prioritised, Answers
<1>2. answer'.kind = "priority" /\ slides' = slides
  BY <1>1 DEF Prioritise
<1> QED
  BY <1>2, OtherAnswer DEF IInv

LEMMA NextKeeps == IInv /\ [Next]_vars => IInv'
<1> SUFFICES ASSUME IInv, [Next]_vars PROVE IInv'
  OBVIOUS
<1>1. slides \in SUBSET Slides
  BY DEF IInv
<1>2. CASE UNCHANGED vars
  BY <1>2 DEF vars, IInv, AnswerIsOfNow
<1>3. CASE SlideIngested
  <2>1. slides' \in SUBSET Slides /\ answer' = NoAnswer
    BY <1>1, <1>3, CorridorAssumption DEF SlideIngested
  <2> QED
    BY <2>1, OtherAnswer DEF NoAnswer
<1>4. CASE SegmentIngested \/ RoadsCleared \/ Done
  <2>1. slides' = slides /\ answer' = NoAnswer
    BY <1>4 DEF SegmentIngested, RoadsCleared, Done
  <2> QED
    BY <1>1, <2>1, OtherAnswer DEF NoAnswer
<1>5. CASE SimulateRoadBlockage
  <2>1. slides' = slides /\ answer'.kind = "impact"
    BY <1>5 DEF SimulateRoadBlockage, Answers
  <2> QED
    BY <1>1, <2>1, OtherAnswer
<1>6. CASE AssessRoad
  <2>1. slides' = slides /\ answer'.kind \in {"none", "none found"}
    <3>1. slides' = slides
      BY <1>6 DEF AssessRoad
    <3>2. \/ answer' = NoAnswer
          \/ answer' = [kind |-> "none found", score |-> 0, level |-> "LOW", confidence |-> 200]
      BY <1>6 DEF AssessRoad
    <3> QED
      <4>1. CASE answer' = NoAnswer
        BY <3>1, <4>1 DEF NoAnswer
      <4>2. CASE answer' = [kind |-> "none found", score |-> 0, level |-> "LOW", confidence |-> 200]
        BY <3>1, <4>2
      <4> QED
        BY <3>2, <4>1, <4>2
  <2> QED
    BY <1>1, <2>1, OtherAnswer
<1>7. CASE RoadHazard
  <2>1. slides' = slides /\ answer' = answer
    BY <1>7 DEF RoadHazard
  <2> QED
    BY <2>1 DEF IInv, AnswerIsOfNow
<1>8. CASE RoadAnswer
  <2>1. slides' = slides /\ answer'.kind = "road"
    BY <1>8 DEF RoadAnswer
  <2> QED
    BY <1>1, <2>1, OtherAnswer
<1>9. CASE EvaluateRisk \/ LiveRisk \/ Prioritise \/ GenerateAlert \/ SosAlert
  BY <1>9, EvaluateRiskKeeps, LiveRiskKeeps, PrioritiseKeeps, GenerateAlertKeeps, SosAlertKeeps
<1> QED
  BY <1>2, <1>3, <1>4, <1>5, <1>6, <1>7, <1>8, <1>9 DEF Next

LEMMA Inductive == Spec => []IInv
  BY InitHolds, NextKeeps, PTL DEF Spec

-----------------------------------------------------------------------------
(* The theorems.                                                           *)

(* The composite lies between the two kinds of evidence it is made of. *)
THEOREM CompositeLiesBetween == Spec => []CompositeIsBetween
<1>1. IInv => CompositeIsBetween
  <2>1. SUFFICES ASSUME IInv, answer.kind = "baseline"
                 PROVE  /\ Min({answer.spatial, answer.rain}) <= answer.score
                        /\ answer.score <= Max({answer.spatial, answer.rain})
    BY DEF CompositeIsBetween
  <2>2. PICK x \in Anomalies :
          /\ answer.spatial = SpatialScore[slides]
          /\ answer.rain = RainScore(Anomaly(x.observed, x.mean, x.deviation))
          /\ answer.score = Composite(answer.spatial, answer.rain)
    BY <2>1 DEF IInv, AnswerIsOfNow
  <2>3. answer.spatial \in 0 .. 1000
    BY <2>1, <2>2, SpatialScoreIs DEF IInv
  <2>4. answer.rain \in 0 .. 1000
    BY <2>2, AnomalyType, RainScoreRange
  <2>5. PICK a \in 0 .. 1000, b \in 0 .. 1000 : a = answer.spatial /\ b = answer.rain
    BY <2>3, <2>4
  <2>6. Min({a, b}) <= Composite(a, b) /\ Composite(a, b) <= Max({a, b})
    BY CompositeLies
  <2> QED
    BY <2>2, <2>5, <2>6
<1> QED
  BY <1>1, Inductive, PTL

(* An older observation, or none, never makes a live assessment surer. *)
THEOREM OlderIsNeverSurer == Spec => []OlderIsNotSurer
<1>1. IInv => OlderIsNotSurer
  <2>1. SUFFICES ASSUME IInv, answer.kind = "live", answer.baseline, answer.sky.known,
                        NEW sky \in Skies, sky.known => sky.age >= answer.sky.age
                 PROVE  answer.confidence >= ConfidenceOf(slides, sky)
    BY DEF OlderIsNotSurer, ConfidenceOf
  <2>2. PICK old \in Skies : old = answer.sky
    BY <2>1 DEF IInv, AnswerIsOfNow
  <2>3. answer.confidence = ConfidenceOf(slides, old)
    BY <2>1, <2>2 DEF IInv, AnswerIsOfNow
  <2>4. PICK c \in Nat : \A x : ConfidenceOf(slides, x)
                                = c + (IF x.known THEN SkyConfidence(x) ELSE 0)
    BY <2>1, LiveConfidenceIs DEF IInv
  <2>5. old.age \in Int /\ sky.age \in Int /\ sky.known \in BOOLEAN
    BY SkiesType
  <2>6. SkyConfidence(old) \in Nat /\ SkyConfidence(sky) \in Nat
    BY <2>5, SkyConfidenceIs
  <2>7. sky.known => SkyConfidence(old) >= SkyConfidence(sky)
    <3>1. SUFFICES ASSUME sky.age >= old.age PROVE SkyConfidence(old) >= SkyConfidence(sky)
      BY <2>1, <2>2
    <3>2. PICK a \in Int, b \in Int : a = old.age /\ b = sky.age
      BY <2>5
    <3>3. CASE b <= 600
      BY <2>5, <3>1, <3>2, <3>3, SkyConfidenceIs
    <3>4. CASE b > 600 /\ a <= 600
      BY <2>5, <3>1, <3>2, <3>4, SkyConfidenceIs
    <3>5. CASE b > 600 /\ a > 600
      BY <2>5, <3>1, <3>2, <3>5, SkyConfidenceIs
    <3> QED
      BY <3>3, <3>4, <3>5
  <2>8. ConfidenceOf(slides, old) = c + SkyConfidence(old)
    BY <2>1, <2>2, <2>4
  <2>9. ConfidenceOf(slides, sky) = c + (IF sky.known THEN SkyConfidence(sky) ELSE 0)
    BY <2>4
  <2> QED
    BY <2>3, <2>6, <2>7, <2>8, <2>9
<1> QED
  BY <1>1, Inductive, PTL

(* Heavier rain never lowers the score or the priority. *)
THEOREM HeavierRainNeverSafer == Spec => []MoreRainNeverSafer
<1>1. IInv => MoreRainNeverSafer
  <2>1. SUFFICES ASSUME IInv, answer.kind = "live", answer.baseline,
                        NEW sky \in Skies, Heavier(answer.sky, sky)
                 PROVE  LET score == LiveOf(slides, sky)
                        IN  /\ answer.score <= score
                            /\ PriorityOf(answer.score, answer.confidence)
                               <= PriorityOf(score, ConfidenceOf(slides, sky))
    BY DEF MoreRainNeverSafer, LiveOf, ConfidenceOf
  <2>2. PICK old \in Skies : old = answer.sky
    BY <2>1 DEF IInv, AnswerIsOfNow
  <2>3. /\ answer.score = LiveOf(slides, old)
        /\ answer.confidence = ConfidenceOf(slides, old)
    BY <2>1, <2>2 DEF IInv, AnswerIsOfNow
  <2>4. slides \in SUBSET Slides
    BY <2>1 DEF IInv
  <2>5. /\ old.known /\ sky.known /\ old.age = sky.age
        /\ old.rain <= sky.rain /\ (old.humid => sky.humid)
    BY <2>1, <2>2 DEF Heavier
  <2>6. /\ old.rain \in Int /\ sky.rain \in Int /\ old.humid \in BOOLEAN /\ sky.humid \in BOOLEAN
        /\ old.age \in Int
    BY SkiesType
  <2>7. PICK s \in Int, t \in Int : s = answer.score /\ t = LiveOf(slides, sky) /\ s <= t
    <3>1. Added(old) <= Added(sky)
      BY <2>5, <2>6, TriggerGrows DEF Added
    <3>2. PICK p \in 0 .. 150, q \in 0 .. 150 : p = Added(old) /\ q = Added(sky)
      BY AddedRange
    <3>3. PICK r \in 0 .. 1000 : r = SpatialScore[slides]
      BY <2>4, SpatialScoreIs
    <3>4. LiveOf(slides, old) = IF r + p > 1000 THEN 1000 ELSE r + p
      BY <2>4, <3>2, <3>3, LiveScoreIs
    <3>5. LiveOf(slides, sky) = IF r + q > 1000 THEN 1000 ELSE r + q
      BY <2>4, <3>2, <3>3, LiveScoreIs
    <3> DEFINE s == IF r + p > 1000 THEN 1000 ELSE r + p
               t == IF r + q > 1000 THEN 1000 ELSE r + q
    <3>6. s \in Int /\ t \in Int /\ s <= t
      BY <3>1, <3>2
    <3> QED
      BY <2>3, <3>4, <3>5, <3>6
  <2>8. PICK c \in Nat : c = answer.confidence /\ c = ConfidenceOf(slides, sky)
    <3>1. PICK b \in Nat : \A x : ConfidenceOf(slides, x)
                                  = b + (IF x.known THEN SkyConfidence(x) ELSE 0)
      BY <2>4, LiveConfidenceIs
    <3>2. SkyConfidence(old) = SkyConfidence(sky)
      BY <2>5 DEF SkyConfidence
    <3>3. SkyConfidence(old) \in Nat
      BY <2>6, SkyConfidenceIs
    <3> QED
      BY <2>3, <2>5, <3>1, <3>2, <3>3
  <2>9. PriorityOf(s, c) <= PriorityOf(t, c)
    BY <2>7, PriorityGrows
  <2> QED
    BY <2>7, <2>8, <2>9
<1> QED
  BY <1>1, Inductive, PTL

(* The severity of an alert meets its type and the levels it was asked with. *)
THEOREM AlertMeetsItsLevel == Spec => []AlertMeetsLevel
<1>1. IInv => AlertMeetsLevel
  <2>1. SUFFICES ASSUME IInv, answer.kind = "alert" PROVE AlertMeetsLevel
    BY DEF AlertMeetsLevel
  <2>2. PICK x : /\ AlertInput(x)
                 /\ answer.levels = {x.riskLevel, x.priorityLevel}
                 /\ answer.severity = Severity(x) /\ answer.type = AlertType(x)
    BY <2>1 DEF IInv, AnswerIsOfNow
  <2> QED
    BY <2>2, TypeMeetsSeverity DEF AlertMeetsLevel
<1> QED
  BY <1>1, Inductive, PTL

(* A recorded landslide never makes the place look safer. *)
THEOREM RecordedSlideNeverSafer == Spec => SlideNeverSafer
<1>1. IInv /\ [Next]_vars =>
        [slides' # slides =>
           \A sky \in Skies : LiveScore(TRUE, slides', sky) >= LiveScore(TRUE, slides, sky)]_vars
  <2>1. SUFFICES ASSUME IInv, Next, slides' # slides, NEW sky \in Skies
                 PROVE  LiveOf(slides', sky) >= LiveOf(slides, sky)
    BY DEF vars, LiveOf
  <2>2. PICK B \in SUBSET Slides, A \in SUBSET Slides : B = slides' /\ A = slides /\ A \subseteq B
    <3>1. SlideIngested
      BY <2>1 DEF Next, SegmentIngested, RoadsCleared, Done, EvaluateRisk, LiveRisk,
                  SimulateRoadBlockage, AssessRoad, RoadHazard, RoadAnswer, Prioritise, Prioritised,
                  GenerateAlert, SosAlert, Answers
    <3> QED
      BY <2>1, <3>1, CorridorAssumption DEF SlideIngested, IInv
  <2>3. SpatialScore[A] <= SpatialScore[B]
    BY <2>2, MoreRowsHigher
  <2>4. PICK x \in 0 .. 1000, y \in 0 .. 1000, p \in 0 .. 150 :
          x = SpatialScore[A] /\ y = SpatialScore[B] /\ p = Added(sky)
    <3>1. SpatialScore[A] \in 0 .. 1000 /\ SpatialScore[B] \in 0 .. 1000
      BY SpatialScoreIs
    <3>2. Added(sky) \in 0 .. 150
      BY AddedRange
    <3> QED
      BY <3>1, <3>2
  <2>5. LiveOf(B, sky) >= LiveOf(A, sky)
    <3>1. LiveOf(A, sky) = IF x + p > 1000 THEN 1000 ELSE x + p
      BY <2>4, LiveScoreIs
    <3>2. LiveOf(B, sky) = IF y + p > 1000 THEN 1000 ELSE y + p
      BY <2>4, LiveScoreIs
    <3> QED
      BY <2>3, <2>4, <3>1, <3>2
  <2> QED
    BY <2>2, <2>5
<1> QED
  BY <1>1, Inductive, PTL DEF Spec, SlideNeverSafer

-----------------------------------------------------------------------------
(* Parts of the road graph: what a fold of Joined over the segments yields. *)

\* P divides the junctions J into what the segments S connect: no segment leaves
\* its part, and no bank that S does not cross divides one.
Uncut(bank, S) == \A r \in S : ~ Cut(bank, r)

Parted(P, J, S) ==
    /\ IsFiniteSet(P) /\ UNION P = J /\ {} \notin P
    /\ \A p, q \in P : p # q => p \cap q = {}
    /\ \A r \in S : \E p \in P : Ends[r] \subseteq p
    /\ \A p \in P : \A bank \in SUBSET J : Uncut(bank, S) => p \subseteq bank \/ p \cap bank = {}

\* The parts that segment r touches.
Touched(r, P) == {p \in P : p \cap Ends[r] # {}}

LEMMA JoinedParts ==
  ASSUME NEW J, NEW S, NEW P, Parted(P, J, S), NEW r, Ends[r] # {}, Ends[r] \subseteq J
  PROVE  Parted(Joined(r, P), J, S \cup {r})
<1> DEFINE touched == Touched(r, P)
           N == UNION touched
           Q == (P \ touched) \cup {N}
<1>1. Joined(r, P) = Q
  BY DEF Joined, Touched
<1>2. Ends[r] \subseteq N /\ touched # {} /\ touched \subseteq P
  BY DEF Parted, Touched
<1>3. \A p \in P \ touched : p \cap N = {} /\ p \cap Ends[r] = {}
  BY DEF Parted, Touched
<1>4. IsFiniteSet(Q)
  <2>1. IsFiniteSet(P \ touched)
    BY FS_Difference DEF Parted
  <2> HIDE DEF N
  <2> QED
    BY <2>1, FS_AddElement
<1>5. UNION Q = J /\ {} \notin Q
  <2>1. UNION P = J /\ {} \notin P
    BY DEF Parted
  <2>2. N # {} /\ N \subseteq J
    BY <1>2, <2>1
  <2>3. ASSUME NEW j \in J PROVE \E q \in Q : j \in q
    <3>1. PICK p \in P : j \in p
      BY <2>1
    <3> QED
      BY <3>1
  <2>4. ASSUME NEW q \in Q PROVE q \subseteq J /\ q # {}
    BY <2>1, <2>2
  <2> QED
    BY <2>3, <2>4
<1>6. \A p, q \in Q : p # q => p \cap q = {}
  BY <1>3 DEF Parted
<1>7. ASSUME NEW s \in S \cup {r} PROVE \E p \in Q : Ends[s] \subseteq p
  <2>1. CASE s = r
    BY <1>2, <2>1
  <2>2. CASE s \in S
    <3>1. PICK p \in P : Ends[s] \subseteq p
      BY <2>2 DEF Parted
    <3>2. CASE p \in touched
      BY <3>1, <3>2
    <3>3. CASE p \notin touched
      BY <3>1, <3>3
    <3> QED
      BY <3>2, <3>3
  <2> QED
    BY <2>1, <2>2
<1>8. ASSUME NEW p \in Q, NEW bank \in SUBSET J, Uncut(bank, S \cup {r})
      PROVE  p \subseteq bank \/ p \cap bank = {}
  <2>1. \A q \in P : q \subseteq bank \/ q \cap bank = {}
    BY <1>8 DEF Parted, Uncut
  <2>2. CASE p \in P
    BY <2>1, <2>2
  <2>3. CASE p = N
    <3>1. Ends[r] \cap bank = {} \/ Ends[r] \subseteq bank
      BY <1>8 DEF Uncut, Cut
    <3>2. CASE Ends[r] \subseteq bank
      <4>1. \A q \in touched : q \cap bank # {}
        BY <3>2 DEF Touched
      <4>2. \A q \in touched : q \subseteq bank
        BY <1>2, <2>1, <4>1
      <4> QED
        BY <2>3, <4>2
    <3>3. CASE Ends[r] \cap bank = {}
      <4>1. \A q \in touched : ~ q \subseteq bank
        BY <3>3 DEF Touched
      <4>2. \A q \in touched : q \cap bank = {}
        BY <1>2, <2>1, <4>1
      <4> QED
        BY <2>3, <4>2
    <3> QED
      BY <3>1, <3>2, <3>3
  <2> QED
    BY <2>2, <2>3
<1> HIDE DEF Q
<1>9. Parted(Q, J, S \cup {r})
  BY <1>4, <1>5, <1>6, <1>7, <1>8 DEF Parted
<1> QED
  BY <1>1, <1>9

\* A part is a bank that no segment crosses.
LEMMA PartIsUncut ==
  ASSUME NEW J, NEW S, NEW P, Parted(P, J, S), NEW p \in P
  PROVE  p \in SUBSET J /\ Uncut(p, S)
<1>1. ASSUME NEW r \in S, Cut(p, r) PROVE FALSE
  <2>1. PICK q \in P : Ends[r] \subseteq q
    BY DEF Parted
  <2>2. q = p
    BY <1>1, <2>1 DEF Parted, Cut
  <2> QED
    BY <1>1, <2>1, <2>2 DEF Cut
<1> QED
  BY <1>1 DEF Parted, Uncut

\* There is one division only, whatever the order of the fold.
LEMMA PartsAreIncluded ==
  ASSUME NEW J, NEW S, NEW P, NEW Q, Parted(P, J, S), Parted(Q, J, S) PROVE P \subseteq Q
<1>1. SUFFICES ASSUME NEW p \in P PROVE p \in Q
  OBVIOUS
<1>2. PICK x \in p : TRUE
  <2>1. p # {}
    BY DEF Parted
  <2> QED
    BY <2>1
<1>3. PICK q \in Q : x \in q
  BY <1>2 DEF Parted
<1>4. p \in SUBSET J /\ Uncut(p, S) /\ q \in SUBSET J /\ Uncut(q, S)
  BY PartIsUncut
<1>5. p \subseteq q
  BY <1>2, <1>3, <1>4 DEF Parted
<1>6. q \subseteq p
  BY <1>2, <1>3, <1>4 DEF Parted
<1> QED
  BY <1>5, <1>6

LEMMA OneDivision ==
  ASSUME NEW J, NEW S, NEW P, NEW Q, Parted(P, J, S), Parted(Q, J, S) PROVE P = Q
  BY PartsAreIncluded

\* Without segments every junction is a part.
LEMMA SinglesParted ==
  ASSUME NEW J, IsFiniteSet(J) PROVE Parted({{j} : j \in J}, J, {})
<1> DEFINE P == {{j} : j \in J}
           f == [j \in J |-> {j}]
<1>1. f \in Surjection(J, P)
  BY DEF Surjection
<1>2. IsFiniteSet(P)
  BY <1>1, FS_Surjection
<1> QED
  BY <1>2 DEF Parted

\* One round of the fold, over every set of segments.
Fold(g, J, S) ==
    [s \in SUBSET S |-> IF s = {} THEN {{j} : j \in J}
                        ELSE Joined(CHOOSE r \in s : TRUE, g[s \ {CHOOSE r \in s : TRUE}])]

FoldsUpTo(g, J, S, n) ==
    \A s \in SUBSET S : Cardinality(s) <= n =>
        g[s] = IF s = {} THEN {{j} : j \in J}
               ELSE Joined(CHOOSE r \in s : TRUE, g[s \ {CHOOSE r \in s : TRUE}])

LEMMA SmallerRest ==
  ASSUME NEW S, IsFiniteSet(S), NEW s \in SUBSET S, s # {}
  PROVE  LET r == CHOOSE x \in s : TRUE
         IN  /\ r \in s /\ s \ {r} \in SUBSET S
             /\ Cardinality(s) \in Nat /\ Cardinality(s \ {r}) \in Nat
             /\ Cardinality(s \ {r}) = Cardinality(s) - 1
<1> DEFINE r == CHOOSE x \in s : TRUE
<1>1. r \in s
  OBVIOUS
<1> HIDE DEF r
<1>2. IsFiniteSet(s)
  BY FS_Subset
<1>3. IsFiniteSet(s \ {r}) /\ Cardinality(s \ {r}) = Cardinality(s) - 1
  BY <1>1, <1>2, FS_RemoveElement
<1>4. Cardinality(s) \in Nat /\ Cardinality(s \ {r}) \in Nat
  BY <1>2, <1>3, FS_CardinalityType
<1>5. s \ {r} \in SUBSET S
  OBVIOUS
<1> QED
  BY <1>1, <1>3, <1>4, <1>5 DEF r

LEMMA FoldExists ==
  ASSUME NEW J, NEW S, IsFiniteSet(S)
  PROVE  \E g : g = Fold(g, J, S)
<1> DEFINE Bad == {n \in Nat : ~ \E g : FoldsUpTo(g, J, S, n)}
           Body(g) == [s \in SUBSET S |-> IF s = {} THEN {{j} : j \in J}
                          ELSE Joined(CHOOSE r \in s : TRUE, g[s \ {CHOOSE r \in s : TRUE}])]
<1>1. ASSUME NEW n \in Nat, NEW g, \A s \in SUBSET S : s # {} /\ Cardinality(s) <= n =>
                g[s \ {CHOOSE r \in s : TRUE}] = Body(g)[s \ {CHOOSE r \in s : TRUE}]
      PROVE  FoldsUpTo(Body(g), J, S, n)
  <2>1. SUFFICES ASSUME NEW s \in SUBSET S, Cardinality(s) <= n
                 PROVE  Body(g)[s] = IF s = {} THEN {{j} : j \in J}
                          ELSE Joined(CHOOSE r \in s : TRUE, Body(g)[s \ {CHOOSE r \in s : TRUE}])
    BY DEF FoldsUpTo
  <2>2. Body(g)[s] = IF s = {} THEN {{j} : j \in J}
                      ELSE Joined(CHOOSE r \in s : TRUE, g[s \ {CHOOSE r \in s : TRUE}])
    OBVIOUS
  <2> HIDE DEF Body
  <2> QED
    BY <1>1, <2>1, <2>2
<1>2. Bad = {}
  <2>1. SUFFICES ASSUME Bad # {} PROVE FALSE
    OBVIOUS
  <2>2. PICK m \in Bad : \A y \in Bad : m <= y
    <3>1. Bad \in SUBSET Nat
      OBVIOUS
    <3> HIDE DEF Bad
    <3> QED
      BY <2>1, <3>1, LeastElement
  <2>3. m \in Nat /\ ~ \E g : FoldsUpTo(g, J, S, m)
    BY <2>2
  <2>4. CASE m = 0
    <3> DEFINE h == Body([s \in SUBSET S |-> {}])
    <3>1. \A s \in SUBSET S : ~ (s # {} /\ Cardinality(s) <= 0)
      <4>1. SUFFICES ASSUME NEW s \in SUBSET S, s # {}, Cardinality(s) <= 0 PROVE FALSE
        OBVIOUS
      <4>2. IsFiniteSet(s)
        BY FS_Subset
      <4>3. Cardinality(s) \in Nat /\ Cardinality(s) # 0
        BY <4>1, <4>2, FS_EmptySet, FS_CardinalityType
      <4> QED
        BY <4>1, <4>3
    <3> HIDE DEF Body
    <3>2. FoldsUpTo(h, J, S, 0)
      BY <1>1, <3>1
    <3> QED
      BY <2>3, <2>4, <3>2
  <2>5. CASE m # 0
    <3>1. m - 1 \in Nat /\ m - 1 \notin Bad
      BY <2>2, <2>3, <2>5
    <3>2. PICK g : FoldsUpTo(g, J, S, m - 1)
      BY <3>1
    <3>3. ASSUME NEW s \in SUBSET S, s # {}, Cardinality(s) <= m
          PROVE  g[s \ {CHOOSE r \in s : TRUE}] = Body(g)[s \ {CHOOSE r \in s : TRUE}]
      <4> DEFINE u == s \ {CHOOSE r \in s : TRUE}
      <4>1. u \in SUBSET S /\ Cardinality(u) <= m - 1
        <5>1. /\ u \in SUBSET S
              /\ Cardinality(s) \in Nat /\ Cardinality(u) = Cardinality(s) - 1
          BY <3>3, SmallerRest
        <5> HIDE DEF u
        <5> QED
          BY <2>3, <3>3, <5>1
      <4> HIDE DEF u
      <4>2. g[u] = IF u = {} THEN {{j} : j \in J}
                   ELSE Joined(CHOOSE r \in u : TRUE, g[u \ {CHOOSE r \in u : TRUE}])
        BY <3>2, <4>1 DEF FoldsUpTo
      <4>3. Body(g)[u] = g[u]
        BY <4>1, <4>2
      <4> QED
        BY <4>3 DEF u
    <3>4. FoldsUpTo(Body(g), J, S, m)
      BY <1>1, <2>3, <3>3
    <3> QED
      BY <2>3, <3>4
  <2> QED
    BY <2>4, <2>5
<1>3. Cardinality(S) \in Nat
  BY FS_CardinalityType
<1>4. PICK g : FoldsUpTo(g, J, S, Cardinality(S))
  BY <1>2, <1>3
<1>5. \A s \in SUBSET S : Cardinality(s) <= Cardinality(S)
  BY FS_Subset
<1>6. \A s \in SUBSET S : g[s] = Body(g)[s]
  BY <1>4, <1>5 DEF FoldsUpTo
<1> DEFINE h == Body(g)
<1>7. \A s \in SUBSET S : h[s] = g[s]
  BY <1>6
<1>8. \A s \in SUBSET S : s # {} => s \ {CHOOSE r \in s : TRUE} \in SUBSET S
  OBVIOUS
<1>9. h = Body(h)
  <2>1. ASSUME NEW s \in SUBSET S
        PROVE  (IF s = {} THEN {{j} : j \in J}
                ELSE Joined(CHOOSE r \in s : TRUE, g[s \ {CHOOSE r \in s : TRUE}]))
               = (IF s = {} THEN {{j} : j \in J}
                  ELSE Joined(CHOOSE r \in s : TRUE, h[s \ {CHOOSE r \in s : TRUE}]))
    <3> HIDE DEF h
    <3> QED
      BY <1>7, <1>8
  <2> HIDE DEF h
  <2>2. Body(g) = Body(h)
    BY <2>1
  <2> QED
    BY <2>2 DEF h
<1>10. Body(h) = Fold(h, J, S)
  <2> HIDE DEF h
  <2> QED
    BY DEF Fold
<1> QED
  <2> HIDE DEF h, Body
  <2> QED
    BY <1>9, <1>10

LEMMA ComponentsFold ==
  ASSUME NEW J, NEW S, IsFiniteSet(S)
  PROVE  \E g : g = Fold(g, J, S) /\ Components(J, S) = g[S]
<1> DEFINE iter == CHOOSE g : g = Fold(g, J, S)
<1>1. Components(J, S) = iter[S]
  BY DEF Components, FoldSet, MapThenFoldSet, Fold
<1>2. \E g : g = Fold(g, J, S)
  BY FoldExists
<1>3. iter = Fold(iter, J, S)
  BY <1>2, Zenon
<1> QED
  BY <1>1, <1>3

\* nx.connected_components: the fold divides the junctions.
LEMMA ComponentsParted ==
  ASSUME NEW J, IsFiniteSet(J), NEW S, IsFiniteSet(S), \A r \in S : Ends[r] # {} /\ Ends[r] \subseteq J
  PROVE  Parted(Components(J, S), J, S)
<1>1. PICK g : g = Fold(g, J, S) /\ Components(J, S) = g[S]
  BY ComponentsFold
<1> DEFINE Bad == {n \in Nat : \E s \in SUBSET S : Cardinality(s) = n /\ ~ Parted(g[s], J, s)}
<1>2. Bad = {}
  <2>1. SUFFICES ASSUME Bad # {} PROVE FALSE
    OBVIOUS
  <2>2. PICK m \in Bad : \A y \in Bad : m <= y
    <3>1. Bad \in SUBSET Nat
      OBVIOUS
    <3> HIDE DEF Bad
    <3> QED
      BY <2>1, <3>1, LeastElement
  <2>3. PICK s \in SUBSET S : Cardinality(s) = m /\ ~ Parted(g[s], J, s)
    BY <2>2
  <2>4. g[s] = IF s = {} THEN {{j} : j \in J}
               ELSE Joined(CHOOSE r \in s : TRUE, g[s \ {CHOOSE r \in s : TRUE}])
    BY <1>1 DEF Fold
  <2>5. s # {}
    <3> SUFFICES ASSUME s = {} PROVE FALSE
      OBVIOUS
    <3>1. g[s] = {{j} : j \in J}
      BY <2>4
    <3> QED
      BY <2>3, <3>1, SinglesParted
  <2> DEFINE r == CHOOSE x \in s : TRUE
             u == s \ {r}
  <2>6. /\ r \in s /\ u \in SUBSET S
        /\ Cardinality(s) \in Nat /\ Cardinality(u) \in Nat /\ Cardinality(u) = Cardinality(s) - 1
    BY <2>5, SmallerRest
  <2>7. g[s] = Joined(r, g[u])
    BY <2>4, <2>5
  <2>8. s = u \cup {r}
    BY <2>6
  <2> HIDE DEF r, u
  <2>9. Parted(g[u], J, u)
    <3>1. Cardinality(u) \notin Bad
      BY <2>2, <2>3, <2>6
    <3> QED
      BY <2>6, <3>1
  <2>10. Parted(g[s], J, s)
    BY <2>6, <2>7, <2>8, <2>9, JoinedParts
  <2> QED
    BY <2>3, <2>10
<1>3. Cardinality(S) \in Nat
  BY FS_CardinalityType
<1> QED
  BY <1>1, <1>2, <1>3

-----------------------------------------------------------------------------
(* A bridge.                                                                *)

\* The segments are a finite graph.
FiniteGraph(S) == IsFiniteSet(S) /\ \A r \in S : IsFiniteSet(Ends[r]) /\ Ends[r] # {}

LEMMA JunctionsAreFinite == ASSUME NEW S, FiniteGraph(S) PROVE IsFiniteSet(Junctions(S))
<1> DEFINE T == {Ends[r] : r \in S}
           f == [r \in S |-> Ends[r]]
<1>1. f \in Surjection(S, T)
  BY DEF Surjection
<1>2. IsFiniteSet(T)
  BY <1>1, FS_Surjection DEF FiniteGraph
<1>3. \A t \in T : IsFiniteSet(t)
  BY DEF FiniteGraph
<1> HIDE DEF T
<1>4. IsFiniteSet(UNION T)
  BY <1>2, <1>3, FS_UNION
<1> QED
  BY <1>4 DEF Junctions, T

\* Joining never adds a part, and takes one away exactly when two are touched.
LEMMA JoinedIsFewer ==
  ASSUME NEW P, IsFiniteSet(P), NEW r, Touched(r, P) # {}
  PROVE  Cardinality(Joined(r, P)) < Cardinality(P)
         <=> \E p, q \in Touched(r, P) : p # q
<1> DEFINE touched == Touched(r, P)
           others == P \ touched
           N == UNION touched
<1>1. Joined(r, P) = others \cup {N}
  BY DEF Joined, Touched
<1>2. IsFiniteSet(others) /\ Cardinality(others) \in Nat /\ Cardinality(P) \in Nat
  BY FS_Difference, FS_CardinalityType
<1>3. touched \subseteq P
  BY DEF Touched
<1> HIDE DEF others, N, touched
<1>4. IsFiniteSet(others \cup {N}) /\ Cardinality(others \cup {N}) <= Cardinality(others) + 1
      /\ Cardinality(others \cup {N}) \in Nat
  <2>1. /\ IsFiniteSet(others \cup {N})
        /\ Cardinality(others \cup {N}) = IF N \in others THEN Cardinality(others) ELSE Cardinality(others) + 1
    BY <1>2, FS_AddElement
  <2> QED
    BY <1>2, <2>1
<1>5. CASE \E p, q \in touched : p # q
  <2>1. PICK p \in touched, q \in touched : p # q
    BY <1>5
  <2>2. p \notin others /\ q \notin others \cup {p} /\ (others \cup {p}) \cup {q} \in SUBSET P
    BY <1>3, <2>1 DEF others
  <2>3. IsFiniteSet(others \cup {p}) /\ Cardinality(others \cup {p}) = Cardinality(others) + 1
    BY <1>2, <2>2, FS_AddElement
  <2>4. Cardinality((others \cup {p}) \cup {q}) = Cardinality(others \cup {p}) + 1
    BY <2>2, <2>3, FS_AddElement
  <2>5. Cardinality((others \cup {p}) \cup {q}) <= Cardinality(P)
    BY <2>2, FS_Subset
  <2> QED
    BY <1>1, <1>2, <1>4, <1>5, <2>3, <2>4, <2>5 DEF touched
<1>6. CASE ~ \E p, q \in touched : p # q
  <2>1. PICK p \in touched : touched = {p}
    BY <1>6 DEF touched
  <2>2. N = p
    BY <2>1 DEF N
  <2>3. others \cup {N} = P
    BY <1>3, <2>1, <2>2 DEF others
  <2> QED
    BY <1>1, <1>2, <1>6, <2>3 DEF touched
<1> QED
  BY <1>5, <1>6

\* The count of the parts finds out whether there is a detour.
LEMMA BridgeIsFound ==
  ASSUME NEW graph \in SUBSET Segments, FiniteGraph(graph), NEW t \in graph
  PROVE  Cardinality(Components(Junctions(graph), After(graph, t)))
            > Cardinality(Components(Junctions(graph), graph))
         <=> ~ Detour[graph][t]
<1> DEFINE J == Junctions(graph)
           left == graph \ {t}
           A == Components(J, left)
           B == Components(J, graph)
<1>1. IsFiniteSet(J)
  BY JunctionsAreFinite
<1>2. IsFiniteSet(graph) /\ IsFiniteSet(left)
  BY FS_RemoveElement DEF FiniteGraph
<1>3. \A r \in graph : Ends[r] # {} /\ Ends[r] \subseteq J
  BY DEF FiniteGraph, Junctions
<1> HIDE DEF J
<1>4. Parted(A, J, left) /\ Parted(B, J, graph)
  BY <1>1, <1>2, <1>3, ComponentsParted
<1> HIDE DEF A, B
<1>5. Ends[t] # {} /\ Ends[t] \subseteq J /\ left \cup {t} = graph
  BY <1>3
<1>6. B = Joined(t, A)
  BY <1>4, <1>5, JoinedParts, OneDivision
<1>7. Touched(t, A) # {}
  BY <1>4, <1>5 DEF Parted, Touched
<1>8. Cardinality(A) \in Nat /\ Cardinality(B) \in Nat
  BY <1>4, FS_CardinalityType DEF Parted
<1>9. Cardinality(A) > Cardinality(B) <=> \E p, q \in Touched(t, A) : p # q
  BY <1>4, <1>6, <1>7, <1>8, JoinedIsFewer DEF Parted
<1>10. Detour[graph][t] <=> \A bank \in SUBSET J : Cut(bank, t) => \E other \in left : Cut(bank, other)
  BY DEF Detour, J
<1>11. ASSUME NEW p \in Touched(t, A), NEW q \in Touched(t, A), p # q PROVE ~ Detour[graph][t]
  <2>1. p \in A /\ q \in A /\ p \cap Ends[t] # {} /\ q \cap Ends[t] # {} /\ p \cap q = {}
    BY <1>4, <1>11 DEF Touched, Parted
  <2>2. p \in SUBSET J /\ Uncut(p, left)
    BY <1>4, <2>1, PartIsUncut
  <2>3. Cut(p, t)
    BY <2>1 DEF Cut
  <2> QED
    BY <1>10, <2>2, <2>3 DEF Uncut
<1>12. ASSUME NEW p \in Touched(t, A), \A q \in Touched(t, A) : q = p PROVE Detour[graph][t]
  <2>1. Ends[t] \subseteq p
    <3>1. ASSUME NEW e \in Ends[t] PROVE e \in p
      <4>1. PICK q \in A : e \in q
        BY <1>4, <1>5 DEF Parted
      <4>2. q \in Touched(t, A)
        BY <4>1 DEF Touched
      <4> QED
        BY <1>12, <4>1, <4>2
    <3> QED
      BY <3>1
  <2>2. ASSUME NEW bank \in SUBSET J, Cut(bank, t), Uncut(bank, left) PROVE FALSE
    <3>1. p \subseteq bank \/ p \cap bank = {}
      BY <1>4, <2>2 DEF Parted, Touched
    <3> QED
      BY <2>1, <2>2, <3>1 DEF Cut
  <2> QED
    BY <1>10, <2>2 DEF Uncut
<1>13. (\E p, q \in Touched(t, A) : p # q) <=> ~ Detour[graph][t]
  BY <1>7, <1>11, <1>12
<1> QED
  BY <1>8, <1>9, <1>13 DEF A, B, J, After

\* More segments take no detour away.
LEMMA DetourStays ==
  ASSUME NEW S \in SUBSET Segments, NEW graph \in SUBSET S, NEW t \in graph, Detour[graph][t]
  PROVE  Detour[S][t]
<1> DEFINE J == Junctions(graph)
<1>1. \A r \in graph : Ends[r] \subseteq J
  BY DEF Junctions
<1>2. \A bank \in SUBSET J : Cut(bank, t) => \E other \in graph \ {t} : Cut(bank, other)
  BY DEF Detour
<1> HIDE DEF J
<1>3. ASSUME NEW bank \in SUBSET Junctions(S), Cut(bank, t)
      PROVE  \E other \in S \ {t} : Cut(bank, other)
  <2>1. Cut(bank \cap J, t) /\ bank \cap J \in SUBSET J
    BY <1>1, <1>3 DEF Cut
  <2>2. PICK other \in graph \ {t} : Cut(bank \cap J, other)
    BY <1>2, <2>1
  <2>3. Cut(bank, other)
    BY <1>1, <2>2 DEF Cut
  <2> QED
    BY <2>3
<1> QED
  BY <1>3 DEF Detour

LEMMA AnyGraphIsFinite == ASSUME NEW graph \in SUBSET Segments PROVE FiniteGraph(graph)
  BY CorridorAssumption, FS_Subset DEF FiniteGraph

\* What a client is told of a segment that is in the graph.
LEMMA SimulationIs ==
  ASSUME NEW graph \in SUBSET Segments, NEW t \in graph
  PROVE  LET s == Simulated[graph][After(graph, t)]
         IN  s.available /\ (s.bridge <=> ~ Detour[graph][t])
<1> DEFINE left == After(graph, t)
           s == Simulated[graph][left]
           more == Cardinality(Components(Junctions(graph), left))
                      > Cardinality(Components(Junctions(graph), graph))
<1>1. left \in SUBSET Segments /\ left \subseteq graph /\ graph # {}
  BY DEF After
<1> HIDE DEF left
<1> DEFINE junctions == Junctions(graph)
           before == Components(junctions, graph)
           after == Components(junctions, left)
           parts == Cardinality(before)
           increase == Max({0, Cardinality(after) - parts})
           affected == Cardinality(UNION (after \ before))
           total == Cardinality(junctions)
           severity == IF increase > 0 /\ affected > 0
                       THEN (2 * (4000 * Min({parts, increase}) * total + 6000 * affected * parts) + parts * total)
                            \div (2 * parts * total)
                       ELSE 0
<1>2. s = IF graph = {} \/ ~ left \subseteq graph THEN NotSimulated
          ELSE [available |-> TRUE, bridge |-> Cardinality(after) > parts, severity |-> severity]
  BY <1>1, Zenon DEF Simulated
<1>3. s = [available |-> TRUE, bridge |-> more, severity |-> severity]
  BY <1>1, <1>2
<1> HIDE DEF more, s, severity
<1>4. s.available = TRUE /\ s.bridge = more
  BY <1>3
<1>5. more <=> ~ Detour[graph][t]
  BY AnyGraphIsFinite, BridgeIsFound DEF more, left
<1> QED
  BY <1>4, <1>5 DEF s, left

LEMMA NothingIsSimulated ==
  ASSUME NEW t PROVE Simulated[{}][After({}, t)].available = FALSE /\ Simulated[{}][After({}, t)].bridge = FALSE
<1>1. After({}, t) = {}
  BY DEF After
<1>2. Simulated[{}][{}] = NotSimulated
  BY Zenon DEF Simulated
<1> QED
  BY <1>1, <1>2 DEF NotSimulated

-----------------------------------------------------------------------------
(* The assessment of a road, between its two reads of the segments.        *)

GoodRequest(q) ==
    \/ q = NoRequest
    \/ q \in [pc : {"resolved"}, target : Segments, radius : Radii, stale : BOOLEAN]
    \/ \E live, confidence :
          q \in [pc : {"scored"}, target : Segments, radius : Radii, stale : BOOLEAN,
                 baseline : BOOLEAN, live : {live}, confidence : {confidence}]

TargetIsThere == (request # NoRequest /\ ~ request.stale) => request.target \in segments

AnswerIsOfRoads ==
    (answer.kind \in {"impact", "road"} /\ ~ answer.stale) =>
        /\ answer.target \in segments
        /\ \E radius : answer.graph = Subgraph(segments, radius, answer.target)
        /\ answer.simulated = Simulated[answer.graph][After(answer.graph, answer.target)]

RoadInv == segments \in SUBSET Segments /\ GoodRequest(request) /\ TargetIsThere /\ AnswerIsOfRoads

LEMMA OtherRoadAnswer ==
  ASSUME RoadInv, segments' = segments, request' = request, answer'.kind \notin {"impact", "road"}
  PROVE  RoadInv'
  BY DEF RoadInv, TargetIsThere, AnswerIsOfRoads

LEMMA SegmentIngestedKeeps == ASSUME RoadInv, SegmentIngested PROVE RoadInv'
<1>1. PICK r \in Segments \ segments :
        segments' = segments \cup {r} /\ answer' = NoAnswer /\ request' = request
  BY DEF SegmentIngested
<1>2. answer'.kind = "none"
  BY <1>1 DEF NoAnswer
<1> QED
  BY <1>1, <1>2 DEF RoadInv, TargetIsThere, AnswerIsOfRoads

LEMMA RoadsClearedKeeps == ASSUME RoadInv, RoadsCleared PROVE RoadInv'
<1>1. /\ segments' = {} /\ answer' = NoAnswer
      /\ request' = IF request = NoRequest THEN request ELSE [request EXCEPT !.stale = TRUE]
  BY DEF RoadsCleared
<1>2. answer'.kind = "none"
  BY <1>1 DEF NoAnswer
<1>3. GoodRequest(request') /\ (request' # NoRequest => request'.stale)
  <2>1. CASE request = NoRequest
    BY <1>1, <2>1 DEF GoodRequest
  <2>2. CASE request # NoRequest
    <3> DEFINE q == [request EXCEPT !.stale = TRUE]
    <3>1. request' = q
      BY <1>1, <2>2
    <3>2. CASE request \in [pc : {"resolved"}, target : Segments, radius : Radii, stale : BOOLEAN]
      <4>1. q \in [pc : {"resolved"}, target : Segments, radius : Radii, stale : BOOLEAN] /\ q.stale
        BY <3>2
      <4> QED
        BY <3>1, <4>1 DEF GoodRequest
    <3>3. ASSUME NEW live, NEW confidence,
                 request \in [pc : {"scored"}, target : Segments, radius : Radii, stale : BOOLEAN,
                              baseline : BOOLEAN, live : {live}, confidence : {confidence}]
          PROVE  GoodRequest(request') /\ request'.stale
      <4>1. /\ q \in [pc : {"scored"}, target : Segments, radius : Radii, stale : BOOLEAN,
                      baseline : BOOLEAN, live : {live}, confidence : {confidence}]
            /\ q.stale
        BY <3>3
      <4> QED
        BY <3>1, <4>1 DEF GoodRequest
    <3> QED
      BY <2>2, <3>2, <3>3 DEF RoadInv, GoodRequest
  <2> QED
    BY <2>1, <2>2
<1> QED
  BY <1>1, <1>2, <1>3 DEF RoadInv, TargetIsThere, AnswerIsOfRoads

LEMMA SimulateRoadBlockageKeeps == ASSUME RoadInv, SimulateRoadBlockage PROVE RoadInv'
<1>1. PICK target \in segments, radius \in Radii :
        LET graph == Subgraph(segments, Max({radius, SearchRadius + 1}), target)
            simulated == Simulated[graph][After(graph, target)]
        IN  Answers([kind |-> "impact", target |-> target, stale |-> FALSE, graph |-> graph,
                     simulated |-> simulated])
  BY DEF SimulateRoadBlockage
<1> DEFINE reach == Max({radius, SearchRadius + 1})
           graph == Subgraph(segments, reach, target)
           simulated == Simulated[graph][After(graph, target)]
<1>2. /\ answer' = [kind |-> "impact", target |-> target, stale |-> FALSE, graph |-> graph,
                    simulated |-> simulated]
      /\ segments' = segments /\ request' = request
  BY <1>1 DEF Answers
<1>3. answer'.target = target /\ answer'.graph = graph /\ answer'.simulated = simulated
  BY <1>2
<1> QED
  BY <1>2, <1>3 DEF RoadInv, TargetIsThere, AnswerIsOfRoads

LEMMA AssessRoadKeeps == ASSUME RoadInv, AssessRoad PROVE RoadInv'
<1>1. segments' = segments
  BY DEF AssessRoad
<1>2. ASSUME NEW target \in segments, NEW radius \in Radii, answer' = NoAnswer,
             request' = [pc |-> "resolved", target |-> target, radius |-> radius, stale |-> FALSE]
      PROVE  RoadInv'
  <2>1. /\ request' \in [pc : {"resolved"}, target : Segments, radius : Radii, stale : BOOLEAN]
        /\ request'.target = target /\ answer'.kind = "none"
    BY <1>2 DEF RoadInv, NoAnswer
  <2> QED
    BY <1>1, <1>2, <2>1 DEF RoadInv, GoodRequest, TargetIsThere, AnswerIsOfRoads
<1>3. ASSUME answer' = [kind |-> "none found", score |-> 0, level |-> "LOW", confidence |-> 200],
             UNCHANGED request
      PROVE  RoadInv'
  <2>1. answer'.kind = "none found"
    BY <1>3
  <2> QED
    BY <1>1, <1>3, <2>1, OtherRoadAnswer
<1> QED
  BY <1>2, <1>3 DEF AssessRoad

LEMMA RoadHazardKeeps == ASSUME RoadInv, RoadHazard PROVE RoadInv'
<1>1. PICK baseline \in BOOLEAN, sky \in Skies :
        request' = [pc |-> "scored", target |-> request.target, radius |-> request.radius,
                    stale |-> request.stale, baseline |-> baseline,
                    live |-> LiveScore(baseline, slides, sky),
                    confidence |-> LiveConfidence(baseline, slides, sky)]
  BY DEF RoadHazard
<1>2. segments' = segments /\ answer' = answer /\ request.pc = "resolved"
  BY DEF RoadHazard
<1>3. request # NoRequest
  BY <1>2 DEF NoRequest
<1>4. request.target \in Segments /\ request.radius \in Radii /\ request.stale \in BOOLEAN
  BY <1>2, <1>3 DEF RoadInv, GoodRequest
<1>5. \E live, confidence :
        request' \in [pc : {"scored"}, target : Segments, radius : Radii, stale : BOOLEAN,
                      baseline : BOOLEAN, live : {live}, confidence : {confidence}]
  BY <1>1, <1>4
<1>6. request'.target = request.target /\ request'.stale = request.stale
  BY <1>1
<1> QED
  BY <1>2, <1>3, <1>5, <1>6 DEF RoadInv, GoodRequest, TargetIsThere, AnswerIsOfRoads

LEMMA RoadAnswerKeeps == ASSUME RoadInv, RoadAnswer PROVE RoadInv'
<1> DEFINE target == request.target
           radius == Max({request.radius, 2})
           graph == Subgraph(segments, radius, target)
           left == IF request.stale /\ target \in Local(segments, radius) THEN graph
                   ELSE After(graph, target)
           simulated == Simulated[graph][left]
<1>1. \E score, level, confidence :
        answer' = [kind |-> "road", score |-> score, level |-> level, confidence |-> confidence,
                   target |-> target, stale |-> request.stale, graph |-> graph, simulated |-> simulated]
  BY Zenon DEF RoadAnswer
<1>2. segments' = segments /\ request' = NoRequest /\ request.pc = "scored"
  BY DEF RoadAnswer
<1>3. request # NoRequest
  BY <1>2 DEF NoRequest
<1>4. /\ answer'.target = target /\ answer'.stale = request.stale
      /\ answer'.graph = graph /\ answer'.simulated = simulated
  BY <1>1
<1>5. ~ request.stale => target \in segments /\ left = After(graph, target)
  BY <1>3 DEF RoadInv, TargetIsThere
<1>6. AnswerIsOfRoads'
  BY <1>2, <1>4, <1>5 DEF AnswerIsOfRoads
<1> QED
  BY <1>2, <1>6 DEF RoadInv, GoodRequest, TargetIsThere

LEMMA OtherKeeps ==
  ASSUME RoadInv, SlideIngested \/ Done \/ EvaluateRisk \/ LiveRisk \/ Prioritise \/ GenerateAlert \/ SosAlert
  PROVE  RoadInv'
<1>1. segments' = segments /\ request' = request
  BY DEF SlideIngested, Done, EvaluateRisk, LiveRisk, Prioritise, Prioritised, GenerateAlert, SosAlert, Answers
<1>2. CASE SlideIngested \/ Done
  BY <1>1, <1>2, OtherRoadAnswer DEF SlideIngested, Done, NoAnswer
<1>3. ASSUME EvaluateRisk PROVE answer'.kind = "baseline"
  BY <1>3 DEF EvaluateRisk, Answers
<1>4. ASSUME LiveRisk PROVE answer'.kind = "live"
  BY <1>4 DEF LiveRisk, Answers
<1>5. ASSUME NEW score, NEW level, NEW confidence, NEW isolation,
             Prioritised(score, level, confidence, isolation)
      PROVE  answer'.kind = "priority"
  BY <1>5 DEF Prioritised, Answers
<1>6. ASSUME Prioritise PROVE answer'.kind = "priority"
  BY <1>5, <1>6 DEF Prioritise
<1>7. ASSUME GenerateAlert PROVE answer'.kind = "alert"
  BY <1>7, GeneratedFromRequest DEF AlertOf, Answers
<1>8. ASSUME SosAlert PROVE answer'.kind = "alert"
  BY <1>8 DEF SosAlert, Answers
<1> QED
  BY <1>1, <1>2, <1>3, <1>4, <1>6, <1>7, <1>8, OtherRoadAnswer

LEMMA RoadNextKeeps == RoadInv /\ [Next]_vars => RoadInv'
<1> SUFFICES ASSUME RoadInv, [Next]_vars PROVE RoadInv'
  OBVIOUS
<1>1. CASE UNCHANGED vars
  BY <1>1 DEF vars, RoadInv, TargetIsThere, AnswerIsOfRoads
<1>2. CASE Next
  BY <1>2, SegmentIngestedKeeps, RoadsClearedKeeps, SimulateRoadBlockageKeeps, AssessRoadKeeps,
     RoadHazardKeeps, RoadAnswerKeeps, OtherKeeps DEF Next
<1> QED
  BY <1>1, <1>2

LEMMA RoadInductive == Spec => []RoadInv
<1>1. Init => RoadInv
  BY DEF Init, NoAnswer, RoadInv, GoodRequest, TargetIsThere, AnswerIsOfRoads
<1> QED
  BY <1>1, RoadNextKeeps, PTL DEF Spec

\* What is reported as a bridge is one, and what is said to have a detour has one: on
\* every multigraph of segments, whatever the radius, the target and what was ingested
\* while the request waited (impact/isolation.py:103-177, road_risk/engine.py:241-260).
THEOREM BridgesAreCuts == Spec => []BridgeIsCut
<1>1. RoadInv => BridgeIsCut
  <2>1. SUFFICES ASSUME RoadInv, answer.kind \in {"impact", "road"}, ~ answer.stale
                 PROVE  /\ answer.simulated.bridge
                           <=> answer.graph # {} /\ ~ Detour[answer.graph][answer.target]
                        /\ (answer.simulated.available /\ ~ answer.simulated.bridge)
                           => Detour[segments][answer.target]
    BY DEF BridgeIsCut
  <2>2. \E S \in SUBSET Segments : \E t \in S : \E graph, radius :
          /\ S = segments /\ t = answer.target /\ graph = answer.graph
          /\ graph = Subgraph(S, radius, t)
          /\ answer.simulated = Simulated[graph][After(graph, t)]
    BY <2>1 DEF RoadInv, AnswerIsOfRoads
  <2>3. PICK S \in SUBSET Segments : \E t \in S : \E graph, radius :
          /\ S = segments /\ t = answer.target /\ graph = answer.graph
          /\ graph = Subgraph(S, radius, t)
          /\ answer.simulated = Simulated[graph][After(graph, t)]
    BY <2>2
  <2>4. PICK t \in S : \E graph, radius :
          /\ S = segments /\ t = answer.target /\ graph = answer.graph
          /\ graph = Subgraph(S, radius, t)
          /\ answer.simulated = Simulated[graph][After(graph, t)]
    BY <2>3
  <2>5. PICK graph, radius :
          /\ S = segments /\ t = answer.target /\ graph = answer.graph
          /\ graph = Subgraph(S, radius, t)
          /\ answer.simulated = Simulated[graph][After(graph, t)]
    BY <2>4
  <2>6. graph = {} \/ (t \in graph /\ graph \in SUBSET S)
    BY <2>5 DEF Subgraph, Local
  <2>7. CASE graph = {}
    <3>1. answer.simulated.available = FALSE /\ answer.simulated.bridge = FALSE
      BY <2>5, <2>7, NothingIsSimulated
    <3> QED
      BY <2>5, <2>7, <3>1
  <2>8. CASE t \in graph /\ graph \in SUBSET S
    <3>1. answer.simulated.available /\ (answer.simulated.bridge <=> ~ Detour[graph][t])
      BY <2>5, <2>8, SimulationIs
    <3>2. Detour[graph][t] => Detour[S][t]
      BY <2>5, <2>8, DetourStays
    <3> QED
      BY <2>5, <2>8, <3>1, <3>2
  <2> QED
    BY <2>6, <2>7, <2>8
<1> QED
  BY <1>1, RoadInductive, PTL

-----------------------------------------------------------------------------
(* The live feeds: how old an observation may be when a request or the      *)
(* watch is answered from it.                                              *)

Got == [status : {"NONE", "FAILED", "OK", "CACHED"}, rain : Rains \cup {0}, fetched : Nat, seen : Nat]

Call == [pc : {"idle", "waiting", "fetching", "fetched", "served"}, point : Points \cup {NoPoint},
         since : Nat, tries : Nat, got : Got]

Entry == [rain : Rains \cup {0}, fetched : Nat, seen : Nat, left : Nat]

Job == [kind : {"none", "reading", "scan"}, places : Seq(Points), stamp : Nat, oldest : Nat]

FeedsTypeOK ==
    /\ entry \in [Points -> Entry] /\ call \in [Callers -> Call] /\ job \in [Callers -> Job]
    /\ watch \in [stamp : Nat, oldest : Nat] /\ loop \in Callers \cup {Free}

\* The oldest observation that comes out of the cache.
Bound == WeatherTtl - 1 + MaxFetch

GoodEntry(e) ==
    e.left > 0 => /\ e.seen <= e.fetched
                  /\ e.fetched + e.left <= MaxFetch + WeatherTtl

\* The call a task is in.
GoodCall(k) ==
    /\ k.since <= MaxFetch
    /\ k.pc \in {"idle", "waiting", "fetching"} => k.got = Nothing
    /\ k.pc = "fetched" => k.got.status \in {"OK", "FAILED"} /\ k.got.seen <= k.since
    /\ k.pc = "served" => /\ k.got.seen <= Bound
                          /\ k.got.status = "CACHED" => k.got.seen <= k.got.fetched
    /\ k.pc \in {"fetching", "fetched", "served"} => k.point \in Points

\* The request of the task, with the call it makes.
GoodTask(j, k) ==
    /\ j.kind = "none" => k.pc = "idle"
    /\ k.pc \in {"fetching", "fetched", "served"} => j.places # <<>>
    /\ j.oldest <= j.stamp + Bound

GoodWatch(w) == w.stamp < WatchTtl => w.oldest <= w.stamp + Bound

FeedsInv ==
    /\ FeedsTypeOK
    /\ \A p \in Points : GoodEntry(entry[p])
    /\ \A c \in Callers : GoodCall(call[c]) /\ GoodTask(job[c], call[c])
    /\ \A c \in Callers : call[c].pc = "served" <=> loop = c
    /\ GoodWatch(watch)

-----------------------------------------------------------------------------
(* The records of the model.                                               *)

LEMMA BoundIsNat == WeatherTtl \in Nat \ {0} /\ MaxFetch \in Nat \ {0} /\ Bound \in Nat
<1>1. WeatherTtl \in Nat \ {0} /\ MaxFetch \in Nat \ {0}
  BY WeatherAssumption
<1> QED
  BY <1>1 DEF Bound

LEMMA NothingIsGot == Nothing \in Got /\ Failed \in Got /\ Failed = [Nothing EXCEPT !.status = "FAILED"]
  BY DEF Nothing, Failed, Got

LEMMA IdleIsCall == Idle \in Call /\ GoodCall(Idle)
<1>1. Idle \in Call
  BY NothingIsGot DEF Idle, Call
<1> QED
  BY <1>1, BoundIsNat DEF Idle, GoodCall

\* What one task does, with the request and the call it has then.
LEMMA OneTask ==
  ASSUME FeedsInv, NEW c \in Callers, NEW k \in Call, NEW j \in Job,
         GoodCall(k), GoodTask(j, k),
         call' = [call EXCEPT ![c] = k], job' = [job EXCEPT ![c] = j],
         loop' \in Callers \cup {Free},
         \A d \in Callers \ {c} : loop' = d <=> loop = d,
         k.pc = "served" <=> loop' = c,
         entry' \in [Points -> Entry], \A p \in Points : GoodEntry(entry'[p]),
         watch' \in [stamp : Nat, oldest : Nat], GoodWatch(watch')
  PROVE  FeedsInv'
<1>1. /\ call' \in [Callers -> Call] /\ job' \in [Callers -> Job]
      /\ call'[c] = k /\ job'[c] = j
      /\ \A d \in Callers \ {c} : call'[d] = call[d] /\ job'[d] = job[d]
  BY DEF FeedsInv, FeedsTypeOK
<1>2. FeedsTypeOK'
  BY <1>1 DEF FeedsTypeOK
<1>3. ASSUME NEW d \in Callers
      PROVE  /\ GoodCall(call'[d]) /\ GoodTask(job'[d], call'[d])
             /\ call'[d].pc = "served" <=> loop' = d
  BY <1>1 DEF FeedsInv
<1> QED
  BY <1>2, <1>3 DEF FeedsInv, GoodEntry, GoodWatch, GoodCall, GoodTask

\* A task that asks for a place of the cache: the thread fetches it, or it has it.
LEMMA AskedIsGood ==
  ASSUME FeedsInv, NEW p \in Points, NEW k \in Asked(p)
  PROVE  k \in Call /\ GoodCall(k) /\ k.pc \in {"fetching", "served"}
<1> DEFINE fetching == [Idle EXCEPT !.pc = "fetching", !.point = p]
           served == [Idle EXCEPT !.pc = "served", !.point = p, !.got = Hit(p)]
<1>1. fetching \in [pc : {"fetching"}, point : {p}, since : {0}, tries : {0}, got : {Nothing}]
  BY DEF Idle
<1>2. served \in [pc : {"served"}, point : {p}, since : {0}, tries : {0}, got : {Hit(p)}]
  BY DEF Idle
<1>3. \/ k = fetching
      \/ k = served /\ entry[p].left > 0
  BY DEF Asked
<1>4. entry[p] \in Entry /\ GoodEntry(entry[p])
  BY DEF FeedsInv, FeedsTypeOK
<1> HIDE DEF fetching, served
<1>5. CASE k = fetching
  <2>1. k \in Call
    BY <1>1, <1>5, NothingIsGot DEF Call
  <2> QED
    BY <2>1, <1>1, <1>5, BoundIsNat DEF GoodCall
<1>6. CASE k = served /\ entry[p].left > 0
  <2> DEFINE g == Hit(p)
  <2>1. g \in Got /\ g.seen = entry[p].seen /\ g.fetched = entry[p].fetched
    BY <1>4 DEF Hit, Got, Entry
  <2>2. entry[p].seen <= Bound /\ entry[p].seen <= entry[p].fetched
    BY <1>4, <1>6, BoundIsNat DEF GoodEntry, Entry, Bound
  <2> HIDE DEF g
  <2>3. k \in Call
    BY <1>2, <1>6, <2>1 DEF Call, g
  <2>4. k.pc = "served" /\ k.point = p /\ k.since = 0 /\ k.got = g
    BY <1>2, <1>6 DEF g
  <2> QED
    BY <2>1, <2>2, <2>3, <2>4, BoundIsNat DEF GoodCall
<1> QED
  BY <1>3, <1>5, <1>6

\* A task that has the loop, or finds it free, asks for the first of its places.
LEMMA AskKeeps ==
  ASSUME FeedsInv, NEW c \in Callers, NEW places \in Seq(Points), places # <<>>, Ask(c, places),
         NEW j \in Job, j.kind # "none", j.places # <<>>, j.oldest <= j.stamp + Bound,
         job' = [job EXCEPT ![c] = j], loop \in {c, Free}, UNCHANGED <<entry, watch>>
  PROVE  FeedsInv'
<1>1. Head(places) \in Points
  OBVIOUS
<1>2. PICK k \in Asked(Head(places)) :
           /\ call' = [call EXCEPT ![c] = k]
           /\ loop' = IF k.pc = "served" THEN c ELSE Free
  BY DEF Ask
<1>3. k \in Call /\ GoodCall(k) /\ k.pc \in {"fetching", "served"}
  BY <1>1, <1>2, AskedIsGood
<1>4. Free \notin Callers
  BY WeatherAssumption
<1>5. /\ loop' \in Callers \cup {Free} /\ \A d \in Callers \ {c} : loop' = d <=> loop = d
      /\ k.pc = "served" <=> loop' = c
  BY <1>2, <1>3, <1>4
<1>6. GoodTask(j, k)
  BY <1>3 DEF GoodTask
<1>7. /\ entry' \in [Points -> Entry] /\ \A p \in Points : GoodEntry(entry'[p])
      /\ watch' \in [stamp : Nat, oldest : Nat] /\ GoodWatch(watch')
  BY DEF FeedsInv, FeedsTypeOK
<1> QED
  BY <1>2, <1>3, <1>5, <1>6, <1>7, OneTask

-----------------------------------------------------------------------------
(* The steps.                                                              *)

LEMMA FeedsInitHolds == FeedsInit => FeedsInv
<1> SUFFICES ASSUME FeedsInit PROVE FeedsInv
  OBVIOUS
<1>1. NoEntry \in Entry /\ GoodEntry(NoEntry)
  BY DEF NoEntry, Entry, GoodEntry
<1>2. NoJob \in Job /\ GoodTask(NoJob, Idle)
  BY BoundIsNat DEF NoJob, Job, GoodTask, Idle
<1>3. NoWatch \in [stamp : Nat, oldest : Nat] /\ GoodWatch(NoWatch)
  BY FeedsAssumption DEF NoWatch, GoodWatch
<1>4. Idle.pc # "served" /\ Free \notin Callers
  BY WeatherAssumption DEF Idle
<1> QED
  BY <1>1, <1>2, <1>3, <1>4, IdleIsCall DEF FeedsInit, WeatherInit, FeedsInv, FeedsTypeOK

\* A request that has begun: its task had none, and the loop was free.
LEMMA BeginsWith ==
  ASSUME FeedsInv, NEW c \in Callers, NEW callers, Begins(c, callers)
  PROVE  /\ loop = Free /\ job[c] \in Job /\ job[c].oldest <= job[c].stamp + Bound
         /\ UNCHANGED entry
  BY DEF Begins, FeedsInv, FeedsTypeOK, GoodTask

LEMMA CurrentWeatherKeeps == ASSUME FeedsInv, NEW c \in Callers, CurrentWeather(c) PROVE FeedsInv'
<1>1. PICK p \in Points : /\ job' = [job EXCEPT ![c].kind = "reading", ![c].places = <<p>>]
                          /\ Ask(c, <<p>>)
  BY DEF CurrentWeather
<1>2. loop = Free /\ job[c] \in Job /\ job[c].oldest <= job[c].stamp + Bound /\ UNCHANGED <<entry, watch>>
  BY BeginsWith DEF CurrentWeather
<1> DEFINE places == <<p>>
           j == [job[c] EXCEPT !.kind = "reading", !.places = places]
<1>3. places \in Seq(Points) /\ places # <<>>
  OBVIOUS
<1>4. job' = [job EXCEPT ![c] = j] /\ Ask(c, places)
  BY <1>1 DEF FeedsInv, FeedsTypeOK
<1> HIDE DEF places
<1>5. j \in [kind : {"reading"}, places : {places}, stamp : {job[c].stamp}, oldest : {job[c].oldest}]
  BY <1>2 DEF Job
<1> HIDE DEF j
<1>6. j \in Job /\ j.kind # "none" /\ j.places # <<>> /\ j.oldest <= j.stamp + Bound
  BY <1>2, <1>3, <1>5 DEF Job
<1> QED
  BY <1>2, <1>3, <1>4, <1>6, AskKeeps

LEMMA WaitsKeeps ==
  ASSUME FeedsInv, NEW c \in Callers, NEW places \in Seq(Points), Waits(c, places) PROVE FeedsInv'
<1>1. /\ loop = Free /\ job[c] \in Job /\ job[c].oldest <= job[c].stamp + Bound
      /\ UNCHANGED <<entry, watch, loop>>
  BY BeginsWith DEF Waits
<1> DEFINE j == [job[c] EXCEPT !.kind = "reading", !.places = places]
           k == [call[c] EXCEPT !.pc = "waiting"]
<1>2. job' = [job EXCEPT ![c] = j] /\ call' = [call EXCEPT ![c] = k]
  BY DEF Waits, FeedsInv, FeedsTypeOK
<1>3. j \in [kind : {"reading"}, places : {places}, stamp : {job[c].stamp}, oldest : {job[c].oldest}]
  BY <1>1 DEF Job
<1>4. call[c] \in Call /\ GoodCall(call[c]) /\ call[c].pc = "idle"
  BY DEF Waits, Begins, FeedsInv, FeedsTypeOK, GoodTask
<1>5. k \in Call /\ k.pc = "waiting" /\ k.since = call[c].since /\ k.got = call[c].got
  BY <1>4 DEF Call
<1> HIDE DEF j, k
<1>6. GoodCall(k)
  BY <1>4, <1>5 DEF GoodCall
<1>7. j \in Job /\ GoodTask(j, k)
  BY <1>1, <1>3, <1>5 DEF Job, GoodTask
<1>8. /\ entry' \in [Points -> Entry] /\ \A p \in Points : GoodEntry(entry'[p])
      /\ watch' \in [stamp : Nat, oldest : Nat] /\ GoodWatch(watch')
      /\ loop' = loop /\ loop \in Callers \cup {Free} /\ Free \notin Callers
  BY <1>1, WeatherAssumption DEF FeedsInv, FeedsTypeOK
<1> QED
  BY <1>1, <1>2, <1>5, <1>6, <1>7, <1>8, OneTask

LEMMA AssessKeeps == ASSUME FeedsInv, NEW c \in Callers, Assess(c) PROVE FeedsInv'
<1>1. PICK p \in Points : Waits(c, <<p>>)
  BY DEF Assess
<1>2. <<p>> \in Seq(Points)
  OBVIOUS
<1> QED
  BY <1>1, <1>2, WaitsKeeps

LEMMA ScanOsintKeeps == ASSUME FeedsInv, NEW c \in Callers, ScanOsint(c) PROVE FeedsInv'
  BY WaitsKeeps, FeedsAssumption DEF ScanOsint

LEMMA ScanRegionalHazardsKeeps ==
  ASSUME FeedsInv, NEW c \in Callers, ScanRegionalHazards(c) PROVE FeedsInv'
<1>1. loop = Free /\ job[c] \in Job /\ job[c].oldest <= job[c].stamp + Bound /\ UNCHANGED <<entry, watch>>
  BY BeginsWith DEF ScanRegionalHazards
<1>2. Screening \in Seq(Points) /\ Screening # <<>>
  BY FeedsAssumption
<1> DEFINE j == [job[c] EXCEPT !.kind = "scan", !.places = Screening]
<1>3. job' = [job EXCEPT ![c] = j]
  BY DEF ScanRegionalHazards, FeedsInv, FeedsTypeOK
<1>4. j \in [kind : {"scan"}, places : {Screening}, stamp : {job[c].stamp}, oldest : {job[c].oldest}]
  BY <1>1 DEF Job
<1> HIDE DEF j
<1>5. j \in Job /\ j.kind # "none" /\ j.places # <<>> /\ j.oldest <= j.stamp + Bound
  BY <1>1, <1>2, <1>4 DEF Job
<1> QED
  BY <1>1, <1>2, <1>3, <1>5, AskKeeps DEF ScanRegionalHazards

LEMMA ContinueKeeps == ASSUME FeedsInv, NEW c \in Callers, Continue(c) PROVE FeedsInv'
<1>1. loop = Free /\ call[c].pc = "waiting" /\ UNCHANGED <<entry, watch>>
  BY DEF Continue
<1>2. /\ job[c] \in Job /\ job[c].oldest <= job[c].stamp + Bound /\ job[c].kind # "none"
      /\ entry \in [Points -> Entry] /\ \A p \in Points : GoodEntry(entry[p])
      /\ watch \in [stamp : Nat, oldest : Nat] /\ GoodWatch(watch)
      /\ Free \notin Callers
  BY <1>1, WeatherAssumption DEF FeedsInv, FeedsTypeOK, GoodTask
<1>3. CASE job[c].places = <<>>
  <2>1. job' = [job EXCEPT ![c] = NoJob] /\ call' = [call EXCEPT ![c] = Idle] /\ UNCHANGED loop
    BY <1>3 DEF Continue
  <2>2. NoJob \in Job /\ GoodTask(NoJob, Idle) /\ Idle.pc = "idle"
    BY BoundIsNat DEF NoJob, Job, GoodTask, Idle
  <2>3. loop' \in Callers \cup {Free} /\ loop' # c
    BY <1>1, <1>2, <2>1
  <2> QED
    BY <1>1, <1>2, <2>1, <2>2, <2>3, IdleIsCall, OneTask
<1>4. CASE job[c].places # <<>>
  <2>1. Ask(c, job[c].places) /\ UNCHANGED job
    BY <1>4 DEF Continue
  <2>2. job' = [job EXCEPT ![c] = job[c]] /\ job[c].places \in Seq(Points)
    BY <1>2, <2>1 DEF FeedsInv, FeedsTypeOK, Job
  <2> QED
    BY <1>1, <1>2, <1>4, <2>1, <2>2, AskKeeps
<1> QED
  BY <1>3, <1>4

\* The observation a scan keeps is one of those it has had.
LEMMA OldestIsOne ==
  ASSUME NEW c, job[c].oldest \in Nat, call[c].got.seen \in Nat
  PROVE  Oldest(c) \in {job[c].oldest, call[c].got.seen}
<1> DEFINE S == {job[c].oldest, call[c].got.seen}
           m == IF job[c].oldest >= call[c].got.seen THEN job[c].oldest ELSE call[c].got.seen
<1>1. m \in S /\ \A y \in S : m >= y
  OBVIOUS
<1>2. \E x \in S : \A y \in S : x >= y
  BY <1>1
<1> HIDE DEF S, m
<1>3. Max(S) \in S
  BY <1>2 DEF Max
<1>4. Oldest(c) \in {job[c].oldest, Max(S)}
  BY DEF Oldest, S
<1> QED
  BY <1>3, <1>4 DEF S

LEMMA WatchIsGood ==
  ASSUME NEW stamp \in Nat, NEW oldest \in Nat, oldest <= stamp + Bound
  PROVE  WatchOf(stamp, oldest) \in [stamp : Nat, oldest : Nat] /\ GoodWatch(WatchOf(stamp, oldest))
<1>1. WatchTtl \in Nat
  BY FeedsAssumption
<1>2. CASE stamp < WatchTtl
  BY <1>2 DEF WatchOf, GoodWatch
<1>3. CASE ~ (stamp < WatchTtl)
  BY <1>1, <1>3 DEF WatchOf, NoWatch, GoodWatch
<1> QED
  BY <1>2, <1>3

LEMMA ProceedKeeps == ASSUME FeedsInv, NEW c \in Callers, Proceed(c) PROVE FeedsInv'
<1>1. loop = c /\ call[c].pc = "served" /\ UNCHANGED entry
  BY DEF Proceed
<1>2. /\ job[c] \in Job /\ job[c].places # <<>> /\ job[c].oldest <= job[c].stamp + Bound
      /\ job[c].kind # "none" /\ call[c].got.seen \in Nat /\ call[c].got.seen <= Bound
      /\ entry \in [Points -> Entry] /\ \A p \in Points : GoodEntry(entry[p])
      /\ watch \in [stamp : Nat, oldest : Nat] /\ GoodWatch(watch)
      /\ Free \notin Callers
  BY <1>1, WeatherAssumption DEF FeedsInv, FeedsTypeOK, GoodCall, GoodTask, Call, Got
<1> DEFINE rest == Tail(job[c].places)
           oldest == IF job[c].kind = "scan" THEN Oldest(c) ELSE 0
<1>3. oldest \in Nat /\ oldest <= job[c].stamp + Bound
  <2>1. job[c].oldest \in Nat /\ job[c].stamp \in Nat
    BY <1>2 DEF Job
  <2> QED
    BY <1>2, <2>1, OldestIsOne, BoundIsNat
<1>4. \/ /\ rest # <<>> /\ Ask(c, rest) /\ UNCHANGED watch
         /\ job' = [job EXCEPT ![c].places = rest, ![c].oldest = oldest]
      \/ /\ job' = [job EXCEPT ![c] = NoJob] /\ call' = [call EXCEPT ![c] = Idle] /\ loop' = Free
         /\ watch' = IF job[c].kind = "scan" THEN WatchOf(job[c].stamp, oldest) ELSE watch
  BY DEF Proceed, StampOf
<1>5. rest \in Seq(Points)
  BY <1>2 DEF Job
<1> HIDE DEF rest, oldest
<1>6. CASE /\ rest # <<>> /\ Ask(c, rest) /\ UNCHANGED watch
           /\ job' = [job EXCEPT ![c].places = rest, ![c].oldest = oldest]
  <2> DEFINE j == [job[c] EXCEPT !.places = rest, !.oldest = oldest]
  <2>1. job' = [job EXCEPT ![c] = j]
    BY <1>6 DEF FeedsInv, FeedsTypeOK
  <2>2. j \in [kind : {job[c].kind}, places : {rest}, stamp : {job[c].stamp}, oldest : {oldest}]
    BY <1>2 DEF Job
  <2> HIDE DEF j
  <2>3. j \in Job /\ j.kind # "none" /\ j.places # <<>> /\ j.oldest <= j.stamp + Bound
    BY <1>2, <1>3, <1>5, <1>6, <2>2 DEF Job
  <2> QED
    BY <1>1, <1>5, <1>6, <2>1, <2>3, AskKeeps
<1>7. CASE /\ job' = [job EXCEPT ![c] = NoJob] /\ call' = [call EXCEPT ![c] = Idle] /\ loop' = Free
           /\ watch' = IF job[c].kind = "scan" THEN WatchOf(job[c].stamp, oldest) ELSE watch
  <2>1. NoJob \in Job /\ GoodTask(NoJob, Idle) /\ Idle.pc = "idle"
    BY BoundIsNat DEF NoJob, Job, GoodTask, Idle
  <2>2. job[c].stamp \in Nat
    BY <1>2 DEF Job
  <2>3. watch' \in [stamp : Nat, oldest : Nat] /\ GoodWatch(watch')
    BY <1>2, <1>3, <1>7, <2>2, WatchIsGood
  <2>4. \A d \in Callers \ {c} : loop' = d <=> loop = d
    BY <1>1, <1>2, <1>7
  <2>5. entry' \in [Points -> Entry] /\ \A p \in Points : GoodEntry(entry'[p])
    BY <1>1, <1>2
  <2> QED
    BY <1>2, <1>7, <2>1, <2>3, <2>4, <2>5, IdleIsCall, OneTask
<1> QED
  BY <1>4, <1>6, <1>7

\* What an attempt leaves the call as.
LEMMA AttemptKeeps ==
  ASSUME FeedsInv, NEW c \in Callers, Attempt(c), UNCHANGED <<job, watch>> PROVE FeedsInv'
<1>1. call[c].pc = "fetching" /\ UNCHANGED <<entry, loop, job, watch>>
  BY DEF Attempt
<1>2. /\ call[c] \in Call /\ GoodCall(call[c]) /\ GoodTask(job[c], call[c]) /\ job[c] \in Job
      /\ loop \in Callers \cup {Free} /\ loop # c
      /\ entry \in [Points -> Entry] /\ \A p \in Points : GoodEntry(entry[p])
      /\ watch \in [stamp : Nat, oldest : Nat] /\ GoodWatch(watch)
  BY <1>1 DEF FeedsInv, FeedsTypeOK
<1>3. job' = [job EXCEPT ![c] = job[c]]
  BY <1>1 DEF FeedsInv, FeedsTypeOK
<1>4. ASSUME NEW k \in Call, GoodCall(k), GoodTask(job[c], k), k.pc # "served",
             call' = [call EXCEPT ![c] = k]
      PROVE  FeedsInv'
  BY <1>1, <1>2, <1>3, <1>4, OneTask
<1>5. ASSUME NEW g \in Got, g.seen = 0, g.status \in {"OK", "FAILED"},
             call' = [call EXCEPT ![c] = [@ EXCEPT !.pc = "fetched", !.tries = 0, !.got = g]]
      PROVE  FeedsInv'
  <2> DEFINE k == [call[c] EXCEPT !.pc = "fetched", !.tries = 0, !.got = g]
  <2>1. call' = [call EXCEPT ![c] = k]
    BY <1>5 DEF FeedsInv, FeedsTypeOK
  <2>2. k \in [pc : {"fetched"}, point : {call[c].point}, since : {call[c].since}, tries : {0}, got : {g}]
    BY <1>2 DEF Call
  <2> HIDE DEF k
  <2>3. k \in Call
    BY <1>2, <2>2 DEF Call
  <2>4. GoodCall(k) /\ GoodTask(job[c], k) /\ k.pc # "served"
    BY <1>1, <1>2, <1>5, <2>2 DEF GoodCall, GoodTask, Call
  <2> QED
    BY <1>4, <2>1, <2>3, <2>4
<1>6. ASSUME call' = [call EXCEPT ![c].tries = Tried(c)] PROVE FeedsInv'
  <2> DEFINE k == [call[c] EXCEPT !.tries = call[c].tries + 1]
  <2>1. call' = [call EXCEPT ![c] = k]
    BY <1>6 DEF FeedsInv, FeedsTypeOK, Tried
  <2>2. k \in Call /\ k.pc = "fetching" /\ k.got = call[c].got /\ k.since = call[c].since /\ k.point = call[c].point
    BY <1>1, <1>2 DEF Call
  <2> HIDE DEF k
  <2>3. GoodCall(k) /\ GoodTask(job[c], k) /\ k.pc # "served"
    BY <1>1, <1>2, <2>2 DEF GoodCall, GoodTask
  <2> QED
    BY <1>4, <2>1, <2>2, <2>3
<1>7. ASSUME NEW rain \in Rains
      PROVE  Observed(rain) \in Got /\ Observed(rain).seen = 0 /\ Observed(rain).status = "OK"
  BY DEF Observed, Nothing, Got
<1>8. Failed \in Got /\ Failed.seen = 0 /\ Failed.status = "FAILED"
  BY DEF Failed, Nothing, Got
<1> QED
  BY <1>5, <1>6, <1>7, <1>8 DEF Attempt

LEMMA ResumeKeeps ==
  ASSUME FeedsInv, NEW c \in Callers, Resume(c), UNCHANGED <<job, watch>> PROVE FeedsInv'
<1>1. loop = Free /\ call[c].pc = "fetched" /\ loop' = c /\ UNCHANGED <<job, watch>>
  BY DEF Resume
<1>2. /\ call[c] \in Call /\ GoodCall(call[c]) /\ GoodTask(job[c], call[c]) /\ job[c] \in Job
      /\ entry \in [Points -> Entry] /\ \A p \in Points : GoodEntry(entry[p])
      /\ watch \in [stamp : Nat, oldest : Nat] /\ GoodWatch(watch)
      /\ Free \notin Callers
  BY WeatherAssumption DEF FeedsInv, FeedsTypeOK
<1> DEFINE g == [call[c].got EXCEPT !.fetched = call[c].since]
           p == call[c].point
           k == [Idle EXCEPT !.pc = "served", !.point = p, !.got = g]
<1>3. /\ call' = [call EXCEPT ![c] = k]
      /\ entry' = [entry EXCEPT ![p] = EntryOf(g)] \/ UNCHANGED entry
  BY DEF Resume
<1>4. /\ p \in Points /\ call[c].since \in 0 .. MaxFetch /\ call[c].got \in Got
      /\ call[c].got.status \in {"OK", "FAILED"} /\ call[c].got.seen <= call[c].since
  BY <1>1, <1>2, BoundIsNat DEF GoodCall, Call
<1>5. /\ g \in Got /\ g.status = call[c].got.status
      /\ g.seen = call[c].got.seen /\ g.fetched = call[c].since
  BY <1>4, BoundIsNat DEF Got
<1> HIDE DEF g, p
<1>6. k \in [pc : {"served"}, point : {p}, since : {0}, tries : {0}, got : {g}]
  BY DEF Idle
<1> HIDE DEF k
<1>7. k \in Call
  BY <1>4, <1>5, <1>6 DEF Call
<1>8. g.seen \in Nat /\ g.seen <= MaxFetch /\ g.seen <= g.fetched /\ g.fetched <= MaxFetch
  BY <1>4, <1>5, BoundIsNat DEF Got
<1>9. GoodCall(k)
  BY <1>4, <1>5, <1>6, <1>8, BoundIsNat DEF GoodCall, Bound
<1>10. GoodTask(job[c], k)
  BY <1>1, <1>2, <1>6 DEF GoodTask
<1>11. EntryOf(g) \in Entry /\ GoodEntry(EntryOf(g))
  BY <1>5, <1>8, BoundIsNat DEF EntryOf, Entry, GoodEntry, Got
<1>12. entry' \in [Points -> Entry] /\ \A q \in Points : GoodEntry(entry'[q])
  BY <1>2, <1>3, <1>4, <1>11
<1>13. job' = [job EXCEPT ![c] = job[c]]
  BY <1>1 DEF FeedsInv, FeedsTypeOK
<1>14. k.pc = "served" /\ \A d \in Callers \ {c} : loop' = d <=> loop = d
  BY <1>1, <1>2, <1>6
<1> QED
  BY <1>1, <1>2, <1>3, <1>7, <1>9, <1>10, <1>12, <1>13, <1>14, OneTask

LEMMA WorkKeeps == ASSUME FeedsInv, NEW c \in Callers, Work(c) PROVE FeedsInv'
  BY ContinueKeeps, ProceedKeeps, AttemptKeeps, ResumeKeeps DEF Work

-----------------------------------------------------------------------------
(* A minute.                                                               *)

LEMMA AgedIsGood ==
  ASSUME NEW e \in Entry, GoodEntry(e) PROVE Aged(e) \in Entry /\ GoodEntry(Aged(e))
<1>1. CASE e.left <= 1
  BY <1>1 DEF Aged, NoEntry, Entry, GoodEntry
<1>2. CASE ~ (e.left <= 1)
  <2> DEFINE a == [e EXCEPT !.fetched = @ + 1, !.seen = @ + 1, !.left = @ - 1]
  <2>1. a \in [rain : {e.rain}, fetched : {e.fetched + 1}, seen : {e.seen + 1}, left : {e.left - 1}]
    BY DEF Entry
  <2>2. Aged(e) = a
    BY <1>2 DEF Aged
  <2> HIDE DEF a
  <2> QED
    BY <1>2, <2>1, <2>2, BoundIsNat DEF Entry, GoodEntry
<1> QED
  BY <1>1, <1>2

LEMMA CallAgedIsGood ==
  ASSUME NEW k \in Call, GoodCall(k), k.since < MaxFetch, k.pc # "served"
  PROVE  CallAged(k) \in Call /\ GoodCall(CallAged(k)) /\ CallAged(k).pc = k.pc
<1>1. CASE k.pc = "fetching"
  <2> DEFINE a == [k EXCEPT !.since = @ + 1]
  <2>1. a \in [pc : {k.pc}, point : {k.point}, since : {k.since + 1}, tries : {k.tries}, got : {k.got}]
    BY DEF Call
  <2>2. CallAged(k) = a
    BY <1>1 DEF CallAged
  <2> HIDE DEF a
  <2> QED
    BY <1>1, <2>1, <2>2, BoundIsNat DEF Call, GoodCall
<1>2. CASE k.pc = "fetched"
  <2> DEFINE seen == IF k.got = Failed THEN 0 ELSE k.got.seen + 1
             g == [k.got EXCEPT !.seen = seen]
             a == [k EXCEPT !.since = @ + 1, !.got = g]
  <2>1. CallAged(k) = [k EXCEPT !.since = @ + 1, !.got.seen = IF k.got = Failed THEN 0 ELSE @ + 1]
    BY <1>2 DEF CallAged
  <2>2. CallAged(k) = a
    BY <2>1 DEF Call
  <2>3. k.got \in Got /\ k.got.seen <= k.since /\ seen \in Nat /\ seen <= k.since + 1
    BY <1>2 DEF Call, GoodCall, Got
  <2> HIDE DEF seen
  <2>4. g \in Got /\ g.seen = seen /\ g.status = k.got.status
    BY <2>3 DEF Got
  <2> HIDE DEF g
  <2>5. a \in [pc : {k.pc}, point : {k.point}, since : {k.since + 1}, tries : {k.tries}, got : {g}]
    BY DEF Call
  <2> HIDE DEF a
  <2> QED
    BY <1>2, <2>2, <2>3, <2>4, <2>5, BoundIsNat DEF Call, GoodCall
<1>3. CASE k.pc \notin {"fetching", "fetched"}
  BY <1>3 DEF CallAged
<1> QED
  BY <1>1, <1>2, <1>3

LEMMA JobAgedIsGood ==
  ASSUME NEW j \in Job, NEW k, GoodTask(j, k), NEW l, l.pc = k.pc
  PROVE  JobAged(j) \in Job /\ GoodTask(JobAged(j), l)
<1>1. CASE j.kind = "scan"
  <2> DEFINE a == [j EXCEPT !.stamp = @ + 1, !.oldest = @ + 1]
  <2>1. a \in [kind : {j.kind}, places : {j.places}, stamp : {j.stamp + 1}, oldest : {j.oldest + 1}]
    BY DEF Job
  <2>2. JobAged(j) = a
    BY <1>1 DEF JobAged
  <2> HIDE DEF a
  <2> QED
    BY <2>1, <2>2, BoundIsNat DEF Job, GoodTask
<1>2. CASE j.kind # "scan"
  BY <1>2 DEF JobAged, GoodTask
<1> QED
  BY <1>1, <1>2

LEMMA TickKeeps == ASSUME FeedsInv, Tick PROVE FeedsInv'
<1>1. /\ loop = Free /\ loop' = loop
      /\ \A c \in Callers : call[c].since < MaxFetch
      /\ entry' = [p \in Points |-> Aged(entry[p])]
      /\ call' = [c \in Callers |-> CallAged(call[c])]
      /\ job' = [c \in Callers |-> JobAged(job[c])]
      /\ watch' = WatchOf(watch.stamp + 1, watch.oldest + 1)
  BY DEF Tick, Minute
<1>2. \A c \in Callers : call[c].pc # "served"
  BY <1>1, WeatherAssumption DEF FeedsInv
<1>3. ASSUME NEW p \in Points PROVE Aged(entry[p]) \in Entry /\ GoodEntry(Aged(entry[p]))
  BY AgedIsGood DEF FeedsInv, FeedsTypeOK
<1>4. ASSUME NEW c \in Callers
      PROVE  /\ CallAged(call[c]) \in Call /\ GoodCall(CallAged(call[c]))
             /\ CallAged(call[c]).pc = call[c].pc
  BY <1>1, <1>2, CallAgedIsGood DEF FeedsInv, FeedsTypeOK
<1>5. ASSUME NEW c \in Callers
      PROVE  JobAged(job[c]) \in Job /\ GoodTask(JobAged(job[c]), CallAged(call[c]))
  BY <1>4, JobAgedIsGood DEF FeedsInv, FeedsTypeOK
<1>6. watch' \in [stamp : Nat, oldest : Nat] /\ GoodWatch(watch')
  <2>1. watch \in [stamp : Nat, oldest : Nat] /\ GoodWatch(watch) /\ WatchTtl \in Nat
    BY FeedsAssumption DEF FeedsInv, FeedsTypeOK
  <2>2. CASE watch.stamp < WatchTtl
    BY <1>1, <2>1, <2>2, WatchIsGood, BoundIsNat DEF GoodWatch
  <2>3. CASE ~ (watch.stamp < WatchTtl)
    BY <1>1, <2>1, <2>3 DEF WatchOf, NoWatch, GoodWatch
  <2> QED
    BY <2>2, <2>3
<1>7. FeedsTypeOK'
  BY <1>1, <1>3, <1>4, <1>5, <1>6 DEF FeedsInv, FeedsTypeOK
<1>8. \A p \in Points : GoodEntry(entry'[p])
  BY <1>1, <1>3
<1>9. ASSUME NEW c \in Callers
      PROVE  /\ GoodCall(call'[c]) /\ GoodTask(job'[c], call'[c])
             /\ call'[c].pc = "served" <=> loop' = c
  BY <1>1, <1>2, <1>4, <1>5, WeatherAssumption
<1> QED
  BY <1>6, <1>7, <1>8, <1>9 DEF FeedsInv, GoodEntry, GoodCall, GoodTask, GoodWatch

LEMMA FeedsNextKeeps == FeedsInv /\ [FeedsNext]_feedVars => FeedsInv'
<1> SUFFICES ASSUME FeedsInv, [FeedsNext]_feedVars PROVE FeedsInv'
  OBVIOUS
<1>1. CASE UNCHANGED feedVars
  <2>1. entry' = entry /\ call' = call /\ loop' = loop /\ job' = job /\ watch' = watch
    BY <1>1 DEF feedVars, weatherVars
  <2> QED
    BY <2>1 DEF FeedsInv, FeedsTypeOK, GoodEntry, GoodCall, GoodTask, GoodWatch
<1>2. CASE FeedsNext
  BY <1>2, CurrentWeatherKeeps, AssessKeeps, ScanOsintKeeps, ScanRegionalHazardsKeeps, WorkKeeps, TickKeeps
  DEF FeedsNext
<1> QED
  BY <1>1, <1>2

LEMMA FeedsInductive == FeedsSpec => []FeedsInv
  BY FeedsInitHolds, FeedsNextKeeps, PTL DEF FeedsSpec

-----------------------------------------------------------------------------
(* What it shows.                                                          *)

\* The values of the state variables keep their types.
THEOREM FeedsTypes == FeedsSpec => []FeedsTypeOK
<1>1. FeedsInv => FeedsTypeOK
  BY DEF FeedsInv
<1> QED
  BY <1>1, FeedsInductive, PTL

\* No request is answered from an observation older than a life of an entry and a
\* fetch, and the watch from none older than its own life on top (service.py:36-45,
\* regional_watch.py:92-134).
THEOREM AnswersAreRecent == FeedsSpec => []ObservationsAreRecent
<1>1. FeedsInv => ObservationsAreRecent
  <2> SUFFICES ASSUME FeedsInv PROVE ObservationsAreRecent
    OBVIOUS
  <2>1. ASSUME NEW c \in Callers, call[c].got.status = "CACHED"
        PROVE  call[c].got.seen < WeatherTtl + MaxFetch
    BY <2>1, BoundIsNat DEF FeedsInv, FeedsTypeOK, GoodCall, Call, Got, Nothing, Bound
  <2>2. WatchIsRecent
    BY BoundIsNat, FeedsAssumption DEF WatchIsRecent, Fresh, FeedsInv, FeedsTypeOK, GoodWatch, Bound
  <2> QED
    BY <2>1, <2>2 DEF ObservationsAreRecent, CachedIsRecent
<1> QED
  BY <1>1, FeedsInductive, PTL

\* The age that comes with a cached response is never below the real one
\* (cache.py:48-59).
THEOREM ShownAgeIsHonest == FeedsSpec => []AgeIsNotUnderstated
<1>1. FeedsInv => AgeIsNotUnderstated
  <2> SUFFICES ASSUME FeedsInv, NEW c \in Callers, call[c].got.status = "CACHED"
               PROVE  call[c].got.fetched >= call[c].got.seen
    BY DEF AgeIsNotUnderstated
  <2> QED
    BY BoundIsNat DEF FeedsInv, FeedsTypeOK, GoodCall, Call, Got, Nothing
<1> QED
  BY <1>1, FeedsInductive, PTL
=============================================================================
