-------------------------- MODULE AssessmentVerdict --------------------------
(***************************************************************************)
(* The verdict of one assessment as a function of what happened:           *)
(* assessment/engine.py (build_assessment) followed by quality_gate/       *)
(* engine.py (evaluate).  A state is one set of results; a step is the     *)
(* same assessment with one thing gone worse, so that action properties    *)
(* compare the verdicts of neighbouring inputs.                            *)
(***************************************************************************)
EXTENDS Verdicts, StaticAssessment

CONSTANTS
    Attempts,           \* bound: requests attempted, per executed category
    Severities,         \* the regression findings considered
    Models,             \* what discovery may have found
    Policies            \* quality gate policies considered

Executed == {"functional", "performance", "browser", "scenarios"}

ASSUME VerdictAssumption ==
    Attempts \in [Executed -> Nat]

VARIABLES
    evidence,           \* the result of each executed category: {} or a singleton
    database,           \* the DatabaseDiscoveryResult, likewise
    tables,             \* did that database have tables, and not only views
    findings,           \* severities of the regression findings
    model,              \* the ProjectModel
    target,             \* was a target given
    policy

verdictVars == <<evidence, database, tables, findings, model, target, policy>>

EvidenceOf(c) ==
    {{}} \cup {{e} : e \in {x \in Counts(Attempts[c]) : x.breach => c = "performance"}}

Init ==
    /\ evidence \in {f \in [Executed -> UNION {EvidenceOf(c) : c \in Executed}] :
                        \A c \in Executed : f[c] \in EvidenceOf(c)}
    /\ database \in {{}} \cup {{d} : d \in DatabaseResult}
    /\ tables \in BOOLEAN
    /\ tables => database \cap {"partial_metadata", "complete"} # {}
    /\ findings = {}
    /\ model \in Models
    /\ target \in BOOLEAN
    /\ evidence["functional"] \cup evidence["performance"] # {} => target
    /\ policy \in Policies

-----------------------------------------------------------------------------
(* build_assessment. *)
category ==
    [functional  |-> ExecutionCategory(evidence["functional"]),
     performance |-> PerformanceCategory(evidence["performance"]),
     browser     |-> ExecutionCategory(evidence["browser"]),
     scenarios   |-> ExecutionCategory(evidence["scenarios"]),
     database    |-> DatabaseCategory(database)]
static == StaticCategories(model, target, tables)
overall_status ==
    OverallStatus({category[c] : c \in DOMAIN category} \cup {static[c] : c \in DOMAIN static})
application_health == ApplicationHealth({category[c] : c \in Executed})

(* evaluate *)
gate == GateStatus(InfraSignals(category),
                   QualitySignals(category, overall_status, {{<<"regression", s>> : s \in findings}}),
                   policy)

-----------------------------------------------------------------------------
(* A check of executed category c that passed now fails. *)
CheckFails(c) ==
    \E e \in evidence[c] :
        /\ e.transport + e.failed < e.attempted
        /\ evidence' = [evidence EXCEPT ![c] = {[e EXCEPT !.failed = @ + 1]}]
        /\ UNCHANGED <<database, tables, findings, model, target, policy>>

(* A request that was answered, well or badly, now is not. *)
TransportFails(c) ==
    \E e \in evidence[c] :
        /\ e.transport < e.attempted
        /\ \E checked \in {0, 1} :
              /\ checked <= e.failed
              /\ checked = 0 => e.transport + e.failed < e.attempted
              /\ evidence' = [evidence EXCEPT ![c] =
                     {[e EXCEPT !.transport = @ + 1, !.failed = @ - checked]}]
        /\ UNCHANGED <<database, tables, findings, model, target, policy>>

ThresholdMissed ==
    \E e \in evidence["performance"] :
        /\ e.attempted > 0
        /\ evidence' = [evidence EXCEPT !["performance"] = {[e EXCEPT !.breach = TRUE]}]
        /\ UNCHANGED <<database, tables, findings, model, target, policy>>

RegressionFound ==
    /\ \E s \in Severities : findings' = findings \cup {s}
    /\ UNCHANGED <<evidence, database, tables, model, target, policy>>

Next ==
    \/ \E c \in Executed : CheckFails(c) \/ TransportFails(c)
    \/ ThresholdMissed
    \/ RegressionFound

Spec == Init /\ [][Next]_verdictVars

-----------------------------------------------------------------------------
Severity == [pass |-> 0, unknown |-> 1, warning |-> 2, fail |-> 3]
NoInfraRule == \A s \in policy.fail_on \cup policy.warn_on : s[2] # "unreachable"
(* The policy matches the overall status exactly, so failing on "warning"
   alone would let a "fail" through. *)
ClosedUpwards ==
    \A low, high \in DOMAIN Severity :
        /\ <<"assessment", low>> \in policy.fail_on
        /\ Severity[low] <= Severity[high]
        => <<"assessment", high>> \in policy.fail_on

(* A build the gate blocks stays blocked when more goes wrong: the functional
   failures that fail the gate may turn into a target that is down, a missed
   threshold into total failure, and neither opens the gate, unless the policy
   itself says that an unreachable target is acceptable or singles out a
   milder overall status (quality_gate/engine.py, evaluate). *)
BlockedStaysBlocked ==
    [][NoInfraRule /\ ClosedUpwards /\ ExitCode[gate] # 0 => ExitCode[gate'] # 0]_verdictVars

(* More failures never improve the overall status or the application health. *)
WorseNeverLooksBetter ==
    [][/\ Severity[overall_status] <= Severity[overall_status']
       /\ Severity[application_health] <= Severity[application_health']]_verdictVars

(* The two headline statuses never contradict each other: a defect that
   something executed revealed is never hidden in the overall status (docs/
   FRONTEND_ANALYSIS.md, "application_health"). *)
HeadlinesAgree ==
    /\ application_health = "fail" <=> overall_status = "fail"
    /\ application_health = "warning" => overall_status = "warning"

(* Exit code 3 is for a target nobody could reach, and only when the policy
   does not classify that itself; a missed check never ends there. *)
ErrorMeansUnreachable ==
    gate = "error" <=>
        \E c \in {"functional", "performance"} :
            /\ \E e \in evidence[c] : e.attempted > 0 /\ e.transport = e.attempted
            /\ <<c, "unreachable">> \notin policy.fail_on \cup policy.warn_on
=============================================================================
