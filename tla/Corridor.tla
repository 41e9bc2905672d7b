------------------------------ MODULE Corridor ------------------------------
(***************************************************************************)
(* The assessments of a point of a road corridor while the data they read  *)
(* grows: landslides and road segments are ingested, the weather is        *)
(* whatever it is.  The handlers of /risk, /impact, /priority and          *)
(* /alerts/generate run in one piece; the live and the road risk await     *)
(* their baseline and the weather between two reads of the database.       *)
(***************************************************************************)
EXTENDS HazardScoring, RoadGraph, AlertRules

CONSTANTS Batches,              \* the sets of slides that are committed together
          OsmBridges,           \* the segments tagged as a bridge
          Skies,                \* what the weather may be, NoSky included
          Anomalies,            \* [observed, mean, deviation] of the rainfall requests
          Grounds,              \* field reports of the alert requests, NoGround included
          Radii, SearchRadius   \* of the requests, in kilometres

NoGround == [trust |-> "", score |-> 0, count |-> 0]

ASSUME CorridorAssumption ==
    /\ IsFiniteSet(Slides) /\ IsFiniteSet(Segments) /\ Dated \subseteq Slides /\ Batches \subseteq SUBSET Slides
    /\ OsmBridges \subseteq Segments /\ NoSky \in Skies /\ NoGround \in Grounds
    /\ Skies \subseteq [known : BOOLEAN, rain : Int, humid : BOOLEAN, age : Int]
    /\ Anomalies \subseteq [observed : Int, mean : Int, deviation : Int]
    /\ \A r \in Segments : IsFiniteSet(Ends[r]) /\ Ends[r] # {}
    /\ \A s \in Slides : Distance[s] \in Nat

VARIABLES
    slides,     \* rows of historical_landslides
    segments,   \* rows of road_network_edges
    request,    \* the road assessment in progress
    answer      \* the response the client holds, to ask for a priority or an alert with

vars == <<slides, segments, request, answer>>

NoRequest == [pc |-> "none"]
NoAnswer == [kind |-> "none"]

Init == slides = {} /\ segments = {} /\ request = NoRequest /\ answer = NoAnswer

\* Ingestion, also while a request awaits: landslides are added, and the roads are
\* cleared before they are loaded again, as other rows (stale: the request has a row that
\* is gone).
SlideIngested == /\ \E batch \in Batches : ~ batch \subseteq slides /\ slides' = slides \cup batch
                 /\ answer' = NoAnswer
                 /\ UNCHANGED <<segments, request>>
SegmentIngested == /\ \E r \in Segments \ segments : segments' = segments \cup {r}
                   /\ answer' = NoAnswer
                   /\ UNCHANGED <<slides, request>>
RoadsCleared == /\ segments # {} /\ segments' = {}
                /\ request' = IF request = NoRequest THEN request ELSE [request EXCEPT !.stale = TRUE]
                /\ answer' = NoAnswer
                /\ UNCHANGED slides

\* The client is done with a response before it asks anew.
Done == answer # NoAnswer /\ answer' = NoAnswer /\ UNCHANGED <<slides, segments, request>>
Asks == request = NoRequest /\ answer = NoAnswer

Answers(response) == request = NoRequest /\ answer' = response /\ UNCHANGED <<slides, segments, request>>

\* POST /risk/evaluate with an observation of the rainfall.
EvaluateRisk ==
    Asks /\ \E x \in Anomalies :
        LET spatial == SpatialScore[slides]
            rain == RainScore(Anomaly(x.observed, x.mean, x.deviation))
        IN  Answers([kind |-> "baseline", spatial |-> spatial, rain |-> rain,
                     score |-> Composite(spatial, rain), confidence |-> BaselineConfidence[slides][TRUE]])

\* GET /live-risk: the baseline may fail, and the weather be unknown.
LiveRisk ==
    Asks /\ \E baseline \in BOOLEAN, sky \in Skies :
        LET score == LiveScore(baseline, slides, sky)
        IN  Answers([kind |-> "live", score |-> score, level |-> Level(score), baseline |-> baseline,
                     sky |-> sky, confidence |-> LiveConfidence(baseline, slides, sky)])

Closest == {r \in segments : Reach[r] <= SearchRadius /\ \A other \in segments : Reach[r] <= Reach[other]}

\* POST /impact/simulate-road-blockage of a segment that the client names, or of the
\* nearest (of two, either); the radius is more than that of the search.
SimulateRoadBlockage ==
    Asks /\ \E target \in segments, radius \in Radii :
        LET graph == Subgraph(segments, Max({radius, SearchRadius + 1}), target)
            simulated == Simulated[graph][After(graph, target)]
        IN  /\ simulated.available
            /\ Answers([kind |-> "impact", target |-> target, stale |-> FALSE, graph |-> graph, simulated |-> simulated])

\* POST /road-risk/evaluate up to its first await: the segment is resolved, as above,
\* or none is near and the client named none that exists.
AssessRoad ==
    /\ Asks
    /\ \/ \E target \in segments, radius \in Radii :
             /\ request' = [pc |-> "resolved", target |-> target, radius |-> radius, stale |-> FALSE]
             /\ answer' = NoAnswer
       \/ /\ answer' = [kind |-> "none found", score |-> 0, level |-> "LOW", confidence |-> 200]
          /\ UNCHANGED request
    /\ UNCHANGED <<slides, segments>>

\* Its live risk: the baseline as the table is now, then the weather.
RoadHazard ==
    /\ request.pc = "resolved"
    /\ \E baseline \in BOOLEAN, sky \in Skies :
          request' = [pc |-> "scored", target |-> request.target, radius |-> request.radius, stale |-> request.stale,
                      baseline |-> baseline, live |-> LiveScore(baseline, slides, sky),
                      confidence |-> LiveConfidence(baseline, slides, sky)]
    /\ UNCHANGED <<slides, segments, answer>>

\* The simulation, on the graph as the table is now, and the answer.  A target whose row
\* is gone is one more segment beside the row that was loaded for it since.
RoadAnswer ==
    /\ request.pc = "scored"
    /\ LET target == request.target
           radius == Max({request.radius, 2})
           graph == Subgraph(segments, radius, target)
           left == IF request.stale /\ target \in Local(segments, radius) THEN graph ELSE After(graph, target)
           simulated == Simulated[graph][left]
           score == RoadScore(request.live, simulated, target \in OsmBridges)
       IN  answer' = [kind |-> "road", score |-> score, level |-> Level(score),
                      confidence |-> RoadConfidence(request.baseline, request.confidence, simulated.available),
                      target |-> target, stale |-> request.stale, graph |-> graph, simulated |-> simulated]
    /\ request' = NoRequest
    /\ UNCHANGED <<slides, segments>>

\* POST /priority/evaluate: the engine finds out the risk or the isolation, unless the
\* client gives it from the answer it has.
Prioritised(score, level, confidence, isolation) ==
    LET priority == Priority(score, isolation, Urgency(level, confidence))
    IN  Answers([kind |-> "priority", score |-> score, level |-> level, isolation |-> isolation,
                 priority |-> priority, priorityLevel |-> PriorityLevel(priority)])

NearestIsolation(radius) ==
    IF Closest = {} THEN {0}
    ELSE {Simulated[Local(segments, radius) \cup {r}][After(Local(segments, radius), r)].severity : r \in Closest}

Prioritise ==
    \/ /\ answer.kind = "live"
       /\ \E radius \in Radii : \E isolation \in NearestIsolation(radius) :
             Prioritised(answer.score, answer.level, answer.confidence, isolation)
    \/ /\ answer.kind \in {"impact", "road"}
       /\ Prioritised(SpatialScore[slides], Level(SpatialScore[slides]), BaselineConfidence[slides][FALSE],
                      answer.simulated.severity)

\* POST /alerts/generate with what the client has of a priority: all of it, the scores
\* or the levels, and perhaps an isolation and a field report.  Risk scores go from 0 to
\* 1 here, priorities from 0 to 100.
GenerateAlert ==
    /\ answer.kind = "priority"
    /\ \E scores, levels \in BOOLEAN, isolation \in {"", "MODERATE", "CRITICAL"}, ground \in Grounds :
          LET x == [risk |-> IF scores THEN answer.score ELSE 0 - 1,
                    priority |-> IF scores THEN 10 * answer.priority ELSE 0 - 1,
                    riskLevel |-> IF levels THEN answer.level ELSE "",
                    priorityLevel |-> IF levels THEN answer.priorityLevel ELSE "",
                    isolation |-> isolation, ground |-> ground]
          IN  Answers([kind |-> "alert", levels |-> {x.riskLevel, x.priorityLevel}, severity |-> Severity(x), type |-> AlertType(x)])

\* maybe_generate_sos_alert, for an assessment of 50 points at least.
SosAlert ==
    /\ answer.kind = "live" /\ answer.score >= 500
    /\ LET x == [risk |-> answer.score, priority |-> 0 - 1, riskLevel |-> answer.level, priorityLevel |-> "",
                 isolation |-> "", ground |-> NoGround]
       IN  Answers([kind |-> "alert", levels |-> {x.riskLevel, x.priorityLevel}, severity |-> Severity(x), type |-> AlertType(x)])

Next ==
    \/ SlideIngested \/ SegmentIngested \/ RoadsCleared \/ Done
    \/ EvaluateRisk \/ LiveRisk \/ SimulateRoadBlockage
    \/ AssessRoad \/ RoadHazard \/ RoadAnswer
    \/ Prioritise \/ GenerateAlert \/ SosAlert

Spec == Init /\ [][Next]_vars

----------------------------------------------------------------------------
Heavier(one, other) ==
    /\ one.known /\ other.known /\ one.age = other.age
    /\ one.rain <= other.rain /\ (one.humid => other.humid)

PriorityOf(score, confidence) == Priority(score, 0, Urgency(Level(score), confidence))

\* A recorded landslide never makes a place look safer, to the live engine or to the
\* road engine, whatever the weather (risk/spatial.py:74-131).
SlideNeverSafer ==
    [][slides' # slides =>
         \A sky \in Skies : LiveScore(TRUE, slides', sky) >= LiveScore(TRUE, slides, sky)]_vars

\* Heavier rain, as fresh as the lighter one, never lowers the score or the priority,
\* over tiers, caps, levels, confidences and roundings (live_risk/engine.py:152-202).
MoreRainNeverSafer ==
    (answer.kind = "live" /\ answer.baseline) =>
        \A sky \in {x \in Skies : Heavier(answer.sky, x)} :
            LET score == LiveScore(TRUE, slides, sky)
            IN  /\ answer.score <= score
                /\ PriorityOf(answer.score, answer.confidence)
                   <= PriorityOf(score, LiveConfidence(TRUE, slides, sky))

\* The composite lies between the two kinds of evidence it is made of: missing terrain
\* does not lower it (risk/scoring.py:97-115).
CompositeIsBetween ==
    answer.kind = "baseline" => /\ Min({answer.spatial, answer.rain}) <= answer.score
                                /\ answer.score <= Max({answer.spatial, answer.rain})

\* With a baseline, an assessment is not surer without the weather than with it, nor
\* with an older one (live_risk/engine.py:233-248).
OlderIsNotSurer ==
    (answer.kind = "live" /\ answer.baseline /\ answer.sky.known) =>
        \A sky \in {x \in Skies : x.known => x.age >= answer.sky.age} :
            answer.confidence >= LiveConfidence(TRUE, slides, sky)

\* What is reported as a bridge is one: every way between its ends in the graph runs
\* over it, and there is no parallel segment; and "Redundant alternate paths remain
\* open" is never said of a segment without a detour anywhere, wherever the segment
\* lies and whatever landslides were ingested while the request waited.  Roads that
\* were loaded again meanwhile are another matter (impact/isolation.py:103-177,
\* api/v1/impact.py:105-130, road_risk/engine.py:241-260).
BridgeIsCut ==
    (answer.kind \in {"impact", "road"} /\ ~ answer.stale) =>
        /\ answer.simulated.bridge <=> answer.graph # {} /\ ~ Detour[answer.graph][answer.target]
        /\ (answer.simulated.available /\ ~ answer.simulated.bridge) => Detour[segments][answer.target]

\* The severity of an alert and its type, from two sets of rules, agree: a critical or
\* a high type has at least that severity, and no severity of a level is lost.
AlertMeetsLevel ==
    answer.kind = "alert" =>
        /\ answer.type \in {"CRITICAL_RISK", "CRITICAL_PRIORITY"} <=> answer.severity = "CRITICAL"
        /\ answer.type = "HIGH_PRIORITY" => AtLeast(answer.severity, "HIGH")
        /\ answer.type \in {"CONNECTIVITY_DISRUPTION", "GROUND_INTELLIGENCE"} => AtLeast(answer.severity, "WARNING")
        /\ \A level \in answer.levels \cap {"HIGH", "CRITICAL"} :
              AtLeast(answer.severity, level)
=============================================================================
