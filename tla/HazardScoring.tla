---------------------------- MODULE HazardScoring ----------------------------
(***************************************************************************)
(* The scores of app/services/risk (the certified baseline), of            *)
(* app/services/live_risk and app/services/road_risk, in tenths of a point *)
(* (a score of 100 is 1000).  round() is the nearest tenth; what the code  *)
(* does with a tie depends on binary fractions, here it goes up.           *)
(***************************************************************************)
EXTENDS Integers, FiniteSetsExt

CONSTANTS Slides,       \* what historical_landslides may hold
          Distance,     \* [slides -> kilometres from the point], at most 25 are counted
          Dated         \* the slides whose date is known

Rounded(n, d) == (2 * n + d) \div (2 * d)
Clamped(score) == Max({0, Min({1000, score})})

\* RISK_LEVEL_..._MAX, the same in the three engines and in the priority.
Level(score) ==
    CASE score <= 240 -> "LOW"
      [] score > 240 /\ score <= 490 -> "MODERATE"
      [] score > 490 /\ score <= 740 -> "HIGH"
      [] score > 740 -> "CRITICAL"

Around(slides) == {s \in slides : Distance[s] <= 25}

\* Mutation: the rows are not ordered, and the nearest is any one: here the farthest.
NearestUnordered(slides) == Max({Distance[s] : s \in Around(slides)})
Nearest(slides) == Min({Distance[s] : s \in Around(slides)})

\* Density (8, 3 or 1 point for a slide, at most 70), and proximity of the nearest.
SpatialScore == [slides \in SUBSET Slides |->
    LET inner == {s \in Around(slides) : Distance[s] <= 5}
        mid == {s \in Around(slides) : Distance[s] > 5 /\ Distance[s] <= 10}
        outer == Around(slides) \ (inner \cup mid)
        density == Min({700, 80 * Cardinality(inner) + 30 * Cardinality(mid) + 10 * Cardinality(outer)})
    IN  IF Around(slides) = {} THEN 0 ELSE Min({1000, density + 300 - 12 * Nearest(slides)})]

\* RainfallRiskEvaluator: the anomaly in hundredths of a deviation, -1 for no evidence.
Anomaly(observed, mean, deviation) ==
    IF deviation > 0 THEN Rounded(100 * (observed - mean), deviation) ELSE 0

RainScore(anomaly) ==
    CASE anomaly <= 0 -> 0
      [] anomaly > 0 /\ anomaly <= 300 -> Rounded(anomaly * 3333, 1000)
      [] anomaly > 300 -> 1000

\* Mutation: the weights are not redistributed over the evidence there is.
CompositeOfRawWeights(spatial, rain) == Rounded(50 * spatial + 30 * rain, 100)

\* compose_score with both kinds of evidence, of weights 50 and 30 of the 80 there are;
\* with the spatial evidence alone, it is the score.
Composite(spatial, rain) == Rounded(625 * spatial + 375 * rain, 1000)

\* calculate_confidence of the baseline.
BaselineConfidence == [slides \in SUBSET Slides |-> [withRain \in BOOLEAN |->
    LET count == Cardinality(Around(slides))
        dated == Cardinality(Around(slides) \cap Dated)
        spatial == IF count = 0 THEN 100
                   ELSE Min({200, 20 * count}) + (IF dated > 0 THEN Rounded(200 * dated, count) ELSE 50)
    IN  spatial + (IF withRain THEN 300 ELSE 0)]]

\* Mutation: the heavier tier adds less.
TriggerOfOldTiers(rain, humid) == (CASE rain >= 355 -> 50 [] rain >= 25 /\ rain < 355 -> 100 [] rain < 25 -> 0)
                                  + (IF humid THEN 30 ELSE 0)

\* _compute_weather_trigger_adjustment, for rain in tenths of a millimetre an hour.
Trigger(rain, humid) ==
    LET tier == CASE rain >= 355 -> 150
                  [] rain >= 75 /\ rain < 355 -> 100
                  [] rain >= 25 /\ rain < 75 -> 50
                  [] rain < 25 -> 0
    IN  Min({150, tier + (IF humid THEN 30 ELSE 0)})

\* The weather as the live engine sees it: known or not, and how old in seconds.
NoSky == [known |-> FALSE, rain |-> 0, humid |-> FALSE, age |-> 0]

\* LiveRiskEngine.assess: without the baseline there is no score.
LiveScore(baseline, slides, sky) ==
    IF ~ baseline THEN 0
    ELSE Clamped(SpatialScore[slides] + (IF sky.known THEN Trigger(sky.rain, sky.humid) ELSE 0))

\* Mutation: the age of the weather is added, not taken off.
SkyConfidenceOfAge(sky) == 250 + Max({0, sky.age - 600}) \div 50

\* 25 points for the weather, less 0.002 for each second over ten minutes.
SkyConfidence(sky) == Max({0, 250 - Max({0, sky.age - 600}) \div 50})

\* _compute_confidence: 60 % of the baseline's, and the weather.
LiveConfidence(baseline, slides, sky) ==
    IF ~ baseline /\ ~ sky.known THEN 300
    ELSE (IF baseline THEN Rounded(60 * BaselineConfidence[slides][FALSE], 100) ELSE 0)
         + (IF sky.known THEN SkyConfidence(sky) ELSE 0)

\* RoadRiskEngine.assess, from the live score and the simulation: [bridge, severity],
\* the severity in hundredths; osmBridge is the tag of the segment.
RoadScore(live, simulated, osmBridge) ==
    Clamped(Rounded(65 * live + 2 * simulated.severity, 100)
            + (IF osmBridge \/ simulated.bridge THEN 100 ELSE 0))

RoadConfidence(baseline, liveConfidence, simulation) ==
    IF ~ baseline /\ ~ simulation THEN 200
    ELSE Rounded(70 * liveConfidence + (IF simulation THEN 30000 ELSE 0), 100)
=============================================================================
