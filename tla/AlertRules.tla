----------------------------- MODULE AlertRules -----------------------------
(***************************************************************************)
(* The intervention priority (app/services/priority) and the rules by      *)
(* which an alert gets its severity and its type (app/services/alerts).    *)
(* Risk scores and confidences are in tenths of a point, priorities and    *)
(* isolation severities in hundredths; the rules take any score in         *)
(* thousandths, of the scale from 0 to 1 or of that from 0 to 100.         *)
(***************************************************************************)
EXTENDS Integers, FiniteSetsExt

UrgencyBase(level) ==
    CASE level = "CRITICAL" -> 100 [] level = "HIGH" -> 75
      [] level = "MODERATE" -> 50 [] level = "LOW" -> 25

\* calculate_urgency, in hundredths: half of the base, and half by the confidence.
Urgency(level, confidence) == (UrgencyBase(level) * (1000 + confidence) + 10) \div 20

\* calculate_priority, of at most 100 points.
Priority(risk, isolation, urgency) == (45 * 10 * risk + 40 * isolation + 15 * urgency + 50) \div 100

\* determine_priority_level.
PriorityLevel(priority) ==
    CASE priority <= 2400 -> "LOW"
      [] priority > 2400 /\ priority <= 4900 -> "MODERATE"
      [] priority > 4900 /\ priority <= 7400 -> "HIGH"
      [] priority > 7400 -> "CRITICAL"

Severities == <<"INFO", "WARNING", "HIGH", "CRITICAL">>
Precedence(severity) == CHOOSE i \in DOMAIN Severities : Severities[i] = severity
AtLeast(one, other) == Precedence(one) >= Precedence(other)

\* A score in thousandths; none is -1.  What is over 1 is taken for one of 100.
Normal(score) == IF score > 1000 THEN score \div 100 ELSE score

\* Mutation: the score decides where there is one, the level only where there is none.
ByScoreFirst(level, score, critical) ==
    IF score = 0 - 1 THEN (CASE level = "CRITICAL" -> {"CRITICAL"} [] level = "HIGH" -> {"HIGH"}
                             [] level = "MODERATE" -> {"WARNING"} [] OTHER -> {})
    ELSE IF Normal(score) >= critical THEN {"CRITICAL"} ELSE IF Normal(score) >= 500 THEN {"HIGH"} ELSE {}

\* What a dimension with a level and a score makes of the severity.
ByScoreOrLevel(level, score, critical) ==
    IF level = "CRITICAL" \/ Normal(score) >= critical THEN {"CRITICAL"}
    ELSE IF level = "HIGH" \/ Normal(score) >= 500 THEN {"HIGH"}
    ELSE IF level = "MODERATE" THEN {"WARNING"} ELSE {}

Corroborates(ground) == ground.trust \in {"HIGH", "MEDIUM"} \/ ground.score >= 500

\* determine_alert_severity.
Severity(x) ==
    LET isolation == CASE x.isolation = "CRITICAL" -> {"HIGH"}
                       [] x.isolation \in {"HIGH", "MODERATE"} -> {"WARNING"}
                       [] x.isolation = "" -> {}
        ground == IF x.ground.trust = "HIGH" /\ x.ground.count >= 2 /\ x.ground.score >= 800 THEN {"HIGH"}
                  ELSE IF Corroborates(x.ground) THEN {"WARNING"} ELSE {}
        candidates == ByScoreOrLevel(x.riskLevel, x.risk, 700)
                      \cup ByScoreOrLevel(x.priorityLevel, x.priority, 750) \cup isolation \cup ground
    IN  IF candidates = {} THEN "INFO"
        ELSE CHOOSE severity \in candidates : \A other \in candidates : AtLeast(severity, other)

\* evaluate_alert_triggers: the first rule that holds gives the type.
AlertType(x) ==
    LET is(level, name, score, threshold) == level = name \/ Normal(score) >= threshold
    IN  IF is(x.priorityLevel, "CRITICAL", x.priority, 750) THEN "CRITICAL_PRIORITY"
        ELSE IF is(x.riskLevel, "CRITICAL", x.risk, 700) THEN "CRITICAL_RISK"
        ELSE IF is(x.priorityLevel, "HIGH", x.priority, 500) THEN "HIGH_PRIORITY"
        ELSE IF is(x.riskLevel, "HIGH", x.risk, 500) THEN "HIGH_RISK"
        ELSE IF x.isolation # "" /\ ~ Corroborates(x.ground) THEN "CONNECTIVITY_DISRUPTION"
        ELSE IF Corroborates(x.ground) THEN "GROUND_INTELLIGENCE"
        ELSE "HIGH_RISK"
=============================================================================
