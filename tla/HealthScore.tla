----------------------------- MODULE HealthScore ------------------------------
(* Which rules run (engine.py), the health score of their findings             *)
(* (health/scoring.py) and what of it is shown when some rules were skipped    *)
(* (application.py). Scores are in whole points, weighted ones in hundredths.  *)
EXTENDS ControlRules

_REQUIRED_DOMAINS_BY_RULE(rule) ==
    CASE rule \in {"DQ-002", "DQ-005", "CST-004"} -> {"actual_cost"}
      [] rule \in {"SCH-001", "SCH-002", "SCH-003", "SCH-004", "SCH-005"} -> {"schedule"}
      [] rule \in {"DQ-003", "PRG-002"} -> {"schedule", "progress"}
      [] rule \in {"CST-001", "CST-003", "CST-005"} -> {"wbs", "budget", "actual_cost"}
      [] rule = "CST-002" -> {"wbs", "budget", "actual_cost", "commitments"}
      [] rule \in {"CST-006", "PRG-003"} -> {"wbs", "budget", "actual_cost", "progress"}
      [] rule = "PRG-001" -> {"wbs", "progress"}
      [] rule = "DQ-001" -> {"wbs", "budget", "actual_cost", "schedule", "progress"}
      [] rule \in {"DQ-004", "XDOM-001"} ->
            {"wbs", "budget", "actual_cost", "commitments", "schedule", "progress"}

Blocked(rule, statuses) ==
    {d \in _REQUIRED_DOMAINS_BY_RULE(rule) : statuses[d] \notin {"valid", "warning"}}

\* A rule runs only with all the domains it requires; of a skipped rule the
\* blocked ones are recorded.
run_gated(data, runtime) ==
    LET executed == {r \in Rules : Blocked(r, data.domain_statuses) = {}}
    IN  [executed |-> executed,
         skipped  |-> [r \in Rules \ executed |-> Blocked(r, data.domain_statuses)],
         findings |-> UNION {evaluate(r, data, runtime) : r \in executed}]

-----------------------------------------------------------------------------

Categories == {"COST", "SCHEDULE", "PROGRESS", "DATA_QUALITY"}

DEFAULT_WEIGHTS == [COST |-> 30, SCHEDULE |-> 30, PROGRESS |-> 25, DATA_QUALITY |-> 15]

SEVERITY_PENALTIES == [critical |-> 15, warning |-> 5, observation |-> 1]

\* The category of a rule in the catalogue, as normalize_category reads it:
\* cross_domain counts as cost.
normalize_category(rule) ==
    CASE rule \in {"DQ-001", "DQ-002", "DQ-003", "DQ-004", "DQ-005"} -> "DATA_QUALITY"
      [] rule \in {"SCH-001", "SCH-002", "SCH-003", "SCH-004", "SCH-005"} -> "SCHEDULE"
      [] rule \in {"PRG-001", "PRG-002"} -> "PROGRESS"
      [] OTHER -> "COST"

Bucket(findings, category) == {f \in findings : normalize_category(f.rule) = category}

CategoryScore(findings, category) ==
    LET penalty == MapThenSumSet(LAMBDA f : SEVERITY_PENALTIES[f.severity],
                                 Bucket(findings, category))
    IN  IF penalty > 100 THEN 0 ELSE 100 - penalty

determine_score_band(overall) ==
    IF overall >= 8000 THEN "Healthy" ELSE IF overall >= 6000 THEN "Needs Attention"
    ELSE IF overall >= 4000 THEN "At Risk" ELSE "Critical"

OverallScore(findings) ==
    MapThenSumSet(LAMBDA c : CategoryScore(findings, c) * DEFAULT_WEIGHTS[c], Categories)

compute_health_score(findings) ==
    [overall |-> OverallScore(findings),
     score_band |-> determine_score_band(OverallScore(findings)),
     scores |-> [c \in Categories |-> CategoryScore(findings, c)]]

-----------------------------------------------------------------------------

\* The category that a rule's prefix stands for. PRG-003 shows progress,
\* although its findings lower the cost score.
ShownBy(rule) ==
    IF rule \in {"PRG-001", "PRG-002", "PRG-003"} THEN "PROGRESS" ELSE normalize_category(rule)

AllOrNothing(executed) == IF executed = {} THEN {} ELSE Categories

available_health_categories(executed) == {ShownBy(r) : r \in executed}

classify_health_availability(execution) ==
    LET skipped == DOMAIN execution.skipped
    IN  [status |-> IF skipped = {} THEN "computed"
                    ELSE IF execution.executed = {} THEN "not_computed" ELSE "partial",
         coverage |-> Cardinality(execution.executed),
         unavailable_domains |-> UNION {execution.skipped[r] : r \in skipped}]

\* The health snapshot of a run: no overall score unless every rule ran, no
\* score of a category that no executed rule backs.
HealthSnapshot(execution) ==
    LET score == compute_health_score(execution.findings)
        availability == classify_health_availability(execution)
        computed == availability.status = "computed"
        available == available_health_categories(execution.executed)
    IN  [overall |-> IF computed THEN score.overall ELSE None,
         score_band |-> IF computed THEN score.score_band
                        ELSE IF availability.status = "partial" THEN "Partial" ELSE "Not Computed",
         scores |-> [c \in Categories |-> IF c \in available THEN score.scores[c] ELSE None],
         availability |-> availability]
=============================================================================
