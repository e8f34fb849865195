------------------------- MODULE AssessmentPipeline --------------------------
(***************************************************************************)
(* application/service.py: run_assessment, the sequence of stages behind   *)
(* one click in the GUI.  A stage is passed over because the request does  *)
(* not ask for it, declined before anything is sent, driven against its    *)
(* target, or it raises.  Progress events feed the page's checklist, the   *)
(* results feed the assessment, the quality gate and the report files.     *)
(*                                                                         *)
(* What the adapters do is external to this module: they return any result *)
(* they can return, or raise, and they may or may not send something.      *)
(*                                                                         *)
(* A definition without a comment right before another with the same       *)
(* parameters is a faulty variant of it, used to test the properties.      *)
(***************************************************************************)
EXTENDS Verdicts, Sequences, SequencesExt

CONSTANTS
    Requests,           \* the requests considered, a subset of Request
    MaxAttempts,        \* bound: requests one stage sends
    RegressionFindings, \* what a baseline comparison may find: sets of signals
    StaticStatuses,     \* statuses of the categories that execute nothing
    Formats,            \* AssessmentRequest.report_formats
    Policy              \* the quality gate policy of the configuration

Request ==
    [run_functional : BOOLEAN, target : BOOLEAN,
     run_performance : BOOLEAN, performance_confirmed : BOOLEAN,
     run_database : BOOLEAN, database_profile : BOOLEAN,
     run_browser : BOOLEAN, browser_target : {"none", "local", "external", "other_scheme"},
     browser_confirmed : BOOLEAN, browser_allow_external : BOOLEAN,
     baseline : BOOLEAN]

ASSUME PipelineAssumption ==
    /\ Requests \subseteq Request
    /\ MaxAttempts \in Nat
    /\ StaticStatuses \subseteq Status
    /\ Formats \in Seq(STRING)

Driven == {"functional_test", "performance_test", "database_assessment", "browser_test"}
(* The order of the stages; the gate is evaluated without an event. *)
StageSequence ==
    <<"project_scan", "functional_test", "performance_test", "database_assessment",
      "browser_test", "assessment", "regression", "quality_gate", "report_generation">>
Stage == ToSet(StageSequence)
Renderers == {"json", "markdown", "html"}

VARIABLES
    request,
    current,        \* index of the stage being run; past the end when all have
    at,             \* where in that stage
    phase,          \* the last phase each stage has emitted
    traffic,        \* the stages that have sent something
    evidence,       \* the result of each driven stage: {} or a singleton
    reason,         \* was a not-run reason recorded
    regression,     \* the comparison with the baseline: {} or a singleton
    category,       \* ProjectAssessment: the statuses of the driven categories
    gate,           \* QualityGateResult.status
    written,        \* report_formats dealt with
    reports,        \* the report files that hold this run's report
    ended           \* how run_assessment ended: outcome, raised, or not yet

pipelineVars == <<request, current, at, phase, traffic, evidence, reason,
                  regression, category, gate, written, reports, ended>>

Category == {"functional", "performance", "database", "browser"}
Result(s) == IF s = "database_assessment" THEN DatabaseResult ELSE Counts(MaxAttempts)

Init ==
    /\ request \in Requests
    /\ current = 1
    /\ at = "entry"
    /\ phase = [s \in Stage |-> "pending"]
    /\ traffic = {}
    /\ evidence = [s \in Driven |-> {}]
    /\ reason = {}
    /\ regression = {}
    /\ category = [c \in Category |-> "not_assessed"]
    /\ gate = "none"
    /\ written = 0
    /\ reports = {}
    /\ ended = "no"

-----------------------------------------------------------------------------
Running(s, where) ==
    /\ ended = "no"
    /\ current <= Len(StageSequence)
    /\ StageSequence[current] = s
    /\ at = where

NextStage == current' = current + 1 /\ at' = "entry"

RequestedWithoutConfirmation(s) ==
    CASE s = "functional_test"     -> request.run_functional
      [] s = "performance_test"    -> request.run_performance /\ request.target
      [] s = "database_assessment" -> request.run_database /\ request.database_profile
      [] s = "browser_test"        -> request.run_browser /\ request.browser_target # "none"
      [] s = "regression"          -> request.baseline
      [] OTHER                     -> TRUE
(* The gates of the stages: what the request must say before a stage begins. *)
Requested(s) ==
    CASE s = "functional_test"     -> request.run_functional
      [] s = "performance_test"    -> /\ request.run_performance
                                      /\ request.target
                                      /\ request.performance_confirmed
      [] s = "database_assessment" -> request.run_database /\ request.database_profile
      [] s = "browser_test"        -> /\ request.run_browser
                                      /\ request.browser_target # "none"
                                      /\ request.browser_confirmed
      [] s = "regression"          -> request.baseline
      [] OTHER                     -> TRUE

(* validate_target: local always, external only when allowed, and neither
   http, https nor file never. *)
BrowserTargetPermitted ==
    \/ request.browser_target = "local"
    \/ request.browser_target = "external" /\ request.browser_allow_external

PassOverInSilence(s) ==
    /\ Running(s, "entry")
    /\ ~Requested(s)
    /\ reason' = IF s \in Driven \ {"database_assessment"} THEN reason \cup {s} ELSE reason
    /\ NextStage
    /\ UNCHANGED <<request, phase, traffic, evidence, regression, category, gate,
                   written, reports, ended>>
(* A stage the request does not ask for: skipped, with its reason, except
   that functional_test and regression say nothing to the checklist. *)
PassOver(s) ==
    /\ Running(s, "entry")
    /\ ~Requested(s)
    /\ phase' = IF s \in {"functional_test", "regression"} THEN phase
                ELSE [phase EXCEPT ![s] = "skipped"]
    /\ reason' = IF s \in Driven \ {"database_assessment"} THEN reason \cup {s} ELSE reason
    /\ NextStage
    /\ UNCHANGED <<request, traffic, evidence, regression, category, gate,
                   written, reports, ended>>

Begin(s) ==
    /\ s # "quality_gate"
    /\ Running(s, "entry")
    /\ Requested(s)
    /\ phase' = [phase EXCEPT ![s] = "started"]
    /\ at' = "started"
    /\ UNCHANGED <<request, current, traffic, evidence, reason, regression,
                   category, gate, written, reports, ended>>

(* The stage gives up before it opens anything.  No target, or no browser to
   be had, is skipped; a specification, profile or target it cannot use is
   failed. *)
DeclinedAs(s) ==
    CASE s = "functional_test"     -> {"failed"} \cup (IF request.target THEN {} ELSE {"skipped"})
      [] s = "browser_test"        -> IF BrowserTargetPermitted THEN {"skipped"} ELSE {"failed"}
      [] s \in Driven              -> {"failed"}
      [] OTHER                     -> {}

(* Both except branches and the early returns record why nothing ran. *)
Decline(s) ==
    /\ Running(s, "started")
    /\ \E p \in DeclinedAs(s) : phase' = [phase EXCEPT ![s] = p]
    /\ reason' = IF s = "database_assessment" THEN reason ELSE reason \cup {s}
    /\ NextStage
    /\ UNCHANGED <<request, traffic, evidence, regression, category, gate,
                   written, reports, ended>>

MayDrive(s) ==
    CASE s = "functional_test" -> request.target
      [] s = "browser_test"    -> BrowserTargetPermitted
      [] OTHER                 -> s \in Driven

(* An executor, a session or a driver is opened, and may send. *)
Drive(s) ==
    /\ Running(s, "started")
    /\ MayDrive(s)
    /\ \E sends \in BOOLEAN : traffic' = IF sends THEN traffic \cup {s} ELSE traffic
    /\ at' = "driving"
    /\ UNCHANGED <<request, current, phase, evidence, reason, regression, category,
                   gate, written, reports, ended>>

ResultOf(s) ==
    IF s = "database_assessment"
    THEN IF s \in traffic THEN Result(s) ELSE {"unreachable"}
    ELSE {c \in Result(s) :
             /\ c.attempted > 0 <=> s \in traffic
             /\ c.breach => s = "performance_test"}

(* The driven stage returns its result. *)
Complete(s) ==
    /\ Running(s, "driving")
    /\ \E e \in ResultOf(s) : evidence' = [evidence EXCEPT ![s] = {e}]
    /\ phase' = [phase EXCEPT ![s] = "completed"]
    /\ NextStage
    /\ UNCHANGED <<request, traffic, reason, regression, category, gate, written,
                   reports, ended>>

-----------------------------------------------------------------------------
ScanProject ==
    /\ Running("project_scan", "started")
    /\ phase' = [phase EXCEPT !["project_scan"] = "completed"]
    /\ NextStage
    /\ UNCHANGED <<request, traffic, evidence, reason, regression, category, gate,
                   written, reports, ended>>

BuildAssessment ==
    /\ Running("assessment", "started")
    /\ category' = [functional  |-> ExecutionCategory(evidence["functional_test"]),
                    performance |-> PerformanceCategory(evidence["performance_test"]),
                    database    |-> DatabaseCategory(evidence["database_assessment"]),
                    browser     |-> ExecutionCategory(evidence["browser_test"])]
    /\ phase' = [phase EXCEPT !["assessment"] = "completed"]
    /\ NextStage
    /\ UNCHANGED <<request, traffic, evidence, reason, regression, gate, written,
                   reports, ended>>

CompareWithBaseline ==
    /\ Running("regression", "started")
    /\ \E f \in RegressionFindings : regression' = {f}
    /\ phase' = [phase EXCEPT !["regression"] = "completed"]
    /\ NextStage
    /\ UNCHANGED <<request, traffic, evidence, reason, category, gate, written,
                   reports, ended>>

Overall == OverallStatus(StaticStatuses \cup {category[c] : c \in Category})

EvaluateGate ==
    /\ Running("quality_gate", "entry")
    /\ gate' = GateStatus(InfraSignals(category),
                          QualitySignals(category, Overall, regression), Policy)
    /\ NextStage
    /\ UNCHANGED <<request, phase, traffic, evidence, reason, regression, category,
                   written, reports, ended>>

StopAtUnknownFormat ==
    /\ Running("report_generation", "started")
    /\ written < Len(Formats)
    /\ written' = IF Formats[written + 1] \in Renderers THEN written + 1 ELSE Len(Formats)
    /\ reports' = reports \cup ({Formats[written + 1]} \cap Renderers)
    /\ UNCHANGED <<request, current, at, phase, traffic, evidence, reason,
                   regression, category, gate, ended>>
(* One report_formats entry: unknown formats are passed over. *)
WriteReport ==
    /\ Running("report_generation", "started")
    /\ written < Len(Formats)
    /\ written' = written + 1
    /\ reports' = reports \cup ({Formats[written + 1]} \cap Renderers)
    /\ UNCHANGED <<request, current, at, phase, traffic, evidence, reason,
                   regression, category, gate, ended>>

ReturnOutcome ==
    /\ Running("report_generation", "started")
    /\ written = Len(Formats)
    /\ phase' = [phase EXCEPT !["report_generation"] = "completed"]
    /\ ended' = "outcome"
    /\ NextStage
    /\ UNCHANGED <<request, traffic, evidence, reason, regression, category, gate,
                   written, reports>>

(* Any call of a stage under way may raise something it does not catch, and
   so may load_config before the first. *)
Raise ==
    /\ ended = "no"
    /\ current = 1 \/ at # "entry"
    /\ ended' = "raised"
    /\ UNCHANGED <<request, current, at, phase, traffic, evidence, reason, regression,
                   category, gate, written, reports>>

Proceed ==
    \/ \E s \in Stage : PassOver(s) \/ Begin(s) \/ Decline(s) \/ Drive(s) \/ Complete(s)
    \/ ScanProject
    \/ BuildAssessment
    \/ CompareWithBaseline
    \/ EvaluateGate
    \/ WriteReport
    \/ ReturnOutcome

Next == Proceed \/ Raise

(* One thread runs the stages one after the other. *)
Spec == Init /\ [][Next]_pipelineVars

-----------------------------------------------------------------------------
Delivered == ended = "outcome"
StageOf == [functional |-> "functional_test", performance |-> "performance_test",
            database |-> "database_assessment", browser |-> "browser_test"]
Terminal == {"completed", "skipped", "failed"}

(* Nothing is sent that the user did not ask for and confirm: a target for
   everything over HTTP, a confirmation of its own for load and for a browser,
   a profile for the database, permission for an external site (docs/
   GUI_SAFETY.md, _run_performance and _run_browser). *)
NothingUnasked ==
    /\ "functional_test" \in traffic => request.run_functional /\ request.target
    /\ "performance_test" \in traffic =>
           request.run_performance /\ request.target /\ request.performance_confirmed
    /\ "database_assessment" \in traffic => request.run_database /\ request.database_profile
    /\ "browser_test" \in traffic =>
           /\ request.run_browser /\ request.browser_confirmed
           /\ request.browser_target \in {"local", "external"}
           /\ request.browser_target = "external" => request.browser_allow_external

(* The checklist of the page: a stage settles only after it was shown active
   or straight to skipped, a settled stage never changes, no stage speaks while
   another is active or after a later one has spoken, and whichever way the
   stages were left, none is still pending or active when the result is handed
   over.  The code says nothing of three of them: the gate has no entry, and
   functional tests or a comparison that were not asked for pass in silence. *)
Unannounced ==
    {"quality_gate"}
        \cup (IF request.run_functional THEN {} ELSE {"functional_test"})
        \cup (IF request.baseline THEN {} ELSE {"regression"})
ChecklistStep ==
    /\ \A s \in Stage : phase'[s] # phase[s] =>
          /\ phase[s] = "pending" => phase'[s] \in {"started", "skipped"}
          /\ phase[s] = "started" => phase'[s] \in Terminal
          /\ phase[s] \notin Terminal
          /\ \A t \in Stage \ {s} : phase[t] # "started" /\ phase'[t] = phase[t]
          /\ \A i, j \in DOMAIN StageSequence :
                 i < j /\ StageSequence[i] = s => phase[StageSequence[j]] = "pending"
    /\ Delivered' => \A s \in Stage \ Unannounced : phase'[s] \in Terminal
ChecklistProtocol == [][ChecklistStep]_pipelineVars

(* A delivered result never claims more than was done: a verdict about the
   target stands on requests this run really sent in a stage it reports as
   completed, and a stage without a result has its reason (docs/GUI_SAFETY.md,
   "Never overclaiming"). *)
NeverOverclaimed ==
    Delivered =>
        /\ \A c \in Category : category[c] \in {"pass", "warning", "fail"} =>
               StageOf[c] \in traffic /\ phase[StageOf[c]] = "completed"
        /\ \A s \in Driven \ {"database_assessment"} : evidence[s] = {} <=> s \in reason

(* Report files are rewritten only with final verdicts, never while a stage
   may still change them, and a delivered result comes with every report that
   was asked for: a format nobody renders costs the others nothing
   (_write_reports). *)
ReportsAreFinal ==
    /\ reports # {} =>
          gate # "none" /\ \A s \in Stage \ {"report_generation"} : phase[s] # "started"
    /\ Delivered => reports = ToSet(Formats) \cap Renderers

(* Exit code 0 under the configured policy means that whatever the functional
   and the load tests attempted succeeded, and that no severe regression was
   found: no path from a failed request to a green gate. *)
GreenMeansClean ==
    (gate # "none" /\ ExitCode[gate] = 0) =>
        /\ \A s \in {"functional_test", "performance_test"} : \A c \in evidence[s] :
              c.transport = 0 /\ c.failed = 0 /\ (c.attempted > 0 => ~c.breach)
        /\ \A f \in regression : f \cap Policy.fail_on = {}
=============================================================================
