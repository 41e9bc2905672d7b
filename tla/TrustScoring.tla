---------------------------- MODULE TrustScoring ----------------------------
(***************************************************************************)
(* The scores of app/services/ground_intelligence: how plausible a place   *)
(* is, how fresh an observation, how reliable an observer, how many others *)
(* corroborate it, the trust computed from them and the gate for the risk  *)
(* models.  Scores are integers in hundredths of a point (a score of 57.50 *)
(* is 5750); an age is a number of weeks, the time constant of the decay.  *)
(***************************************************************************)
EXTENDS Integers, Sequences

Score == 0 .. 10000
MinTrust == 6000       \* 60 points open the gate
FullSupport == 8000    \* what two observers of the same type give

Least(a, b) == IF a <= b THEN a ELSE b
Greatest(a, b) == IF a >= b THEN a ELSE b
Clamped(low, high, x) == Greatest(low, Least(high, x))
Rounded(n) == (n + 50) \div 100

RoadCentric == {"ROAD_BLOCKAGE", "ROCKFALL", "DEBRIS", "CRACK"}

\* calculate_geo_plausibility; the distances are to the nearest landslide of the
\* catalogue and to the nearest road, in km.
GeoPlausibility(place, type) ==
    LET base == IF place.inIndia THEN 40 ELSE 20
        landslide == IF place.landslide <= 10 THEN 30 ELSE IF place.landslide <= 25 THEN 15 ELSE 0
        road == IF place.road <= 1 THEN 30
                ELSE IF place.road <= 5 \/ (type \notin RoadCentric /\ landslide > 0) THEN 15
                ELSE 0
    IN  100 * Clamped(0, 100, base + landslide + road)

\* calculate_temporal_freshness: 100 * exp(-weeks), rounded to two decimals.
Freshness(weeks) ==
    LET decay == <<10000, 3679, 1353, 498, 183, 67, 25, 9, 3, 1>>
    IN  IF weeks < Len(decay) THEN decay[weeks + 1] ELSE 0

\* Mutation: everybody starts with the prior of an official.
ReliabilityOfOfficial(official, accepted, rejected, duplicates) ==
    100 * Clamped(5, 100, 60 + 5 * accepted - 15 * rejected - 10 * duplicates)

\* calculate_reliability.
Reliability(official, accepted, rejected, duplicates) ==
    100 * Clamped(5, 100, (IF official THEN 60 ELSE 50)
                          + 5 * accepted - 15 * rejected - 10 * duplicates)

\* COMPATIBLE_REPORT_TYPES: the types that support a report of a type.
Compatible(type) ==
    {type} \cup
    CASE type = "LANDSLIDE" -> {"SLOPE_MOVEMENT", "DEBRIS", "ROCKFALL", "ROAD_BLOCKAGE"}
      [] type = "SLOPE_MOVEMENT" -> {"LANDSLIDE", "CRACK"}
      [] type = "CRACK" -> {"SLOPE_MOVEMENT", "ROAD_BLOCKAGE"}
      [] type = "ROCKFALL" -> {"DEBRIS", "ROAD_BLOCKAGE", "LANDSLIDE"}
      [] type = "DEBRIS" -> {"ROCKFALL", "ROAD_BLOCKAGE", "LANDSLIDE"}
      [] type = "ROAD_BLOCKAGE" -> {"DEBRIS", "ROCKFALL", "LANDSLIDE", "DRAINAGE_BLOCKAGE"}
      [] type = "DRAINAGE_BLOCKAGE" -> {"ROAD_BLOCKAGE", "DEBRIS"}
      [] type = "OTHER" -> {}

\* evaluate_corroboration: an observer with a report of the same type weighs four
\* quarters, one with a report of a compatible type three.
Quarters(same, compatible) == 4 * same + 3 * compatible

Corroboration(quarters) ==
    CASE quarters = 0  -> 0
      [] quarters \in 1 .. 3 -> 4000
      [] quarters \in 4 .. 7 -> 5000 + (quarters - 4) * 750
      [] quarters \in 8 .. 11 -> FullSupport + (quarters - 8) * 500
      [] quarters > 11 -> 10000

\* calculate_trust.
Trust(geo, temporal, user, corroboration) ==
    Clamped(0, 10000, Rounded(25 * geo + 20 * temporal + 25 * user + 30 * corroboration))

\* RiskEligibilityEvaluator.is_eligible.
Eligible(trust, duplicate, status, weeks, geo) ==
    /\ trust >= MinTrust
    /\ ~ duplicate
    /\ status \notin {"REJECTED", "DUPLICATE"}
    /\ weeks <= 2
    /\ geo >= 4000
=============================================================================
