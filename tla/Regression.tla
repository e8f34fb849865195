----------------------------- MODULE Regression ------------------------------
(***************************************************************************)
(* regression/: snapshots of two runs become findings, statuses and the    *)
(* signals the quality gate looks at.  Pure operators, no state.           *)
(*                                                                         *)
(* A section of a snapshot is a set: empty when its stage did not run, a   *)
(* singleton otherwise.  Test results are functions from test ids to       *)
(* statuses, load results functions from concurrency levels to metrics,    *)
(* tables functions from qualified names to what is counted of them.       *)
(*                                                                         *)
(* A definition without a comment right before another with the same       *)
(* parameters is a faulty variant of it, used to test the properties.      *)
(***************************************************************************)
EXTENDS Verdicts

Finding(category, item, change, severity) ==
    [category |-> category, item |-> item, change |-> change, severity |-> severity]

(* status_from_findings; INFO findings leave a category at pass. *)
StatusFromFindings(findings) ==
    LET severities == {f.severity : f \in findings} IN
    IF severities \cap {"critical", "high"} # {} THEN "fail"
    ELSE IF severities \cap {"medium", "low"} # {} THEN "warning"
    ELSE "pass"

-----------------------------------------------------------------------------
(* compare_functional, compare_browser, compare_scenario. *)
Good == [functional |-> {"passed"}, browser |-> {"passed"}, scenario |-> {"pass"}]
Bad == [functional |-> {"failed", "error"}, browser |-> {"failed", "error"},
        scenario |-> {"fail", "error"}]

ErrorsAreNoRegression(category, before, after) ==
    IF before = after THEN "unchanged"
    ELSE IF before \in Good[category] /\ after \in Bad[category] \ {"error"} THEN "regressed"
    ELSE IF before \in Bad[category] /\ after \in Good[category] THEN "improved"
    ELSE "changed"
(* _classify, of a test both runs have. *)
Classified(category, before, after) ==
    IF before = after THEN "unchanged"
    ELSE IF before \in Good[category] /\ after \in Bad[category] THEN "regressed"
    ELSE IF before \in Bad[category] /\ after \in Good[category] THEN "improved"
    ELSE "changed"

TestSeverity == [regressed |-> "high", changed |-> "medium"]
(* Tests that only one run has are counted, improvements too. *)
TestFindings(category, before, after) ==
    {Finding(category, id, Classified(category, before[id], after[id]),
             TestSeverity[Classified(category, before[id], after[id])]) :
        id \in {x \in DOMAIN before \cap DOMAIN after :
                   Classified(category, before[x], after[x]) \in DOMAIN TestSeverity}}

-----------------------------------------------------------------------------
(* compare_performance: levels are matched by concurrency alone.  A metric is
   a set: empty when it could not be measured.  tolerance is a function from
   the thresholds configured to percent, or percentage points. *)
LatencyThreshold ==
    [p50_ms |-> "p50_percent", p90_ms |-> "p90_percent", p95_ms |-> "p95_percent",
     p99_ms |-> "p99_percent"]

RegressedAtTolerance(before, after, percent) ==
    before > 0 /\ (after - before) * 100 >= percent * before
(* Nothing is a percentage of zero. *)
RisesBeyond(before, after, percent) ==
    before > 0 /\ (after - before) * 100 > percent * before
FallsBeyond(before, after, percent) ==
    before > 0 /\ (before - after) * 100 > percent * before

MetricRegressed(metric, before, after, tolerance) ==
    IF metric \in DOMAIN LatencyThreshold THEN
        LatencyThreshold[metric] \in DOMAIN tolerance
            /\ RisesBeyond(before, after, tolerance[LatencyThreshold[metric]])
    ELSE IF metric = "rps" THEN
        "rps_percent" \in DOMAIN tolerance /\ FallsBeyond(before, after, tolerance["rps_percent"])
    ELSE "error_rate_absolute" \in DOMAIN tolerance
            /\ after - before > tolerance["error_rate_absolute"]

ComparedMetrics == DOMAIN LatencyThreshold \cup {"rps", "error_rate_percent"}
PerformanceFindings(before, after, tolerance) ==
    UNION {{Finding("performance", <<level, metric>>, "regressed", "high") :
               metric \in {m \in ComparedMetrics :
                             \E b \in before[level][m], a \in after[level][m] :
                                MetricRegressed(m, b, a, tolerance)}} :
              level \in DOMAIN before \cap DOMAIN after}

-----------------------------------------------------------------------------
(* compare_database: every difference is INFO. *)
DatabaseFindings(before, after) ==
    LET both == DOMAIN before \cap DOMAIN after
        Info(item, change) == Finding("database", item, change, "info")
    IN  {Info(t, "added") : t \in DOMAIN after \ DOMAIN before}
        \cup {Info(t, "removed") : t \in DOMAIN before \ DOMAIN after}
        \cup {Info(<<t, "columns added">>, "changed") :
                t \in {x \in both : after[x].columns \ before[x].columns # {}}}
        \cup {Info(<<t, "columns removed">>, "changed") :
                t \in {x \in both : before[x].columns \ after[x].columns # {}}}
        \cup {Info(<<t, "foreign keys">>, "changed") :
                t \in {x \in both : before[x].foreign_keys # after[x].foreign_keys}}
        \cup {Info(<<t, "indexes">>, "changed") :
                t \in {x \in both : before[x].indexes # after[x].indexes}}

(* compare_discovery: so is every difference of what is detected. *)
DiscoveryFindings(before, after) ==
    {Finding("discovery", item, "added", "info") : item \in after \ before}
    \cup {Finding("discovery", item, "removed", "info") : item \in before \ after}

(* compare_assessment: the three ways down, by name. *)
AssessmentSeverity(before, after) ==
    CASE before = "pass" /\ after = "warning"              -> {"medium"}
      [] before \in {"pass", "warning"} /\ after = "fail"  -> {"high"}
      [] OTHER                                             -> {}
AssessmentFindings(before, after) ==
    UNION {{Finding("assessment", name, "regressed", severity) :
               severity \in AssessmentSeverity(before[name], after[name])} :
              name \in DOMAIN before \cap DOMAIN after}

-----------------------------------------------------------------------------
(* compare: the findings of all categories.  Missing data says nothing. *)
Compare(baseline, current, tolerance) ==
    (UNION {UNION {TestFindings(category, b, c) : b \in baseline[category], c \in current[category]} :
               category \in DOMAIN Good})
    \cup (UNION {PerformanceFindings(b, c, tolerance) :
                    b \in baseline.performance, c \in current.performance})
    \cup (UNION {DatabaseFindings(b, c) : b \in baseline.database, c \in current.database})
    \cup DiscoveryFindings(baseline.discovery, current.discovery)
    \cup AssessmentFindings(baseline.assessment, current.assessment)

(* The status of the comparison: a category that one side lacks, or a load
   test without a level in common, is not assessed. *)
RegressionStatus(baseline, current, findings) ==
    LET Assessed(category) ==
            \/ category \in {"discovery", "assessment"}
            \/ /\ category # "performance"
               /\ baseline[category] # {} /\ current[category] # {}
            \/ /\ category = "performance"
               /\ \E b \in baseline.performance, c \in current.performance :
                     DOMAIN b \cap DOMAIN c # {}
    IN  OverallStatus({IF Assessed(category)
                       THEN StatusFromFindings({f \in findings : f.category = category})
                       ELSE "not_assessed" :
                          category \in {"functional", "performance", "database", "discovery",
                                        "assessment", "browser", "scenario"}})

(* collect_rules, the part about a comparison. *)
RegressionSignals(findings) ==
    {<<"regression", f.severity>> : f \in findings}
    \cup {<<"database", "schema_change">> : f \in {x \in findings : x.category = "database"}}
    \cup {<<"discovery", "change">> : f \in {x \in findings : x.category = "discovery"}}
=============================================================================
