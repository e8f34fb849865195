------------------------------ MODULE Verdicts -------------------------------
(***************************************************************************)
(* How results become verdicts: assessment/rules.py and the category       *)
(* modules turn what was executed into category statuses, and              *)
(* quality_gate/ turns those and the regression findings into one gate     *)
(* status and the process exit code.  Pure operators, no state.            *)
(*                                                                         *)
(* The outcome of executing something is a record of counts; a gate signal *)
(* is a pair <<category, value>>; a policy lists the signals that fail and *)
(* the signals that warn.                                                  *)
(*                                                                         *)
(* A definition without a comment right before another with the same       *)
(* parameters is a faulty variant of it, used to test the properties.      *)
(***************************************************************************)
EXTENDS Integers, FiniteSets

Status == {"pass", "warning", "fail", "unknown", "not_assessed"}

(* What executing at most n requests can come to.  breach: some configured
   performance threshold was missed. *)
Counts(n) ==
    {c \in [attempted : 0..n, transport : 0..n, failed : 0..n, breach : BOOLEAN] :
        c.transport + c.failed <= c.attempted /\ (c.breach => c.attempted > 0)}

-----------------------------------------------------------------------------
(* assessment/rules.py *)

UnreachableIsUnknown(c) ==
    IF c.attempted = c.transport THEN "unknown"
    ELSE IF c.transport + c.failed > 0 THEN "warning"
    ELSE "pass"
(* Everything failing in transport says the target is down; some of it, or a
   failed check, says it is imperfect. *)
ExecutionHealth(c) ==
    IF c.attempted = 0 THEN "unknown"
    ELSE IF c.transport = c.attempted THEN "fail"
    ELSE IF c.transport + c.failed > 0 THEN "warning"
    ELSE "pass"

(* Unassessed categories do not count, unless nothing was assessed. *)
OverallStatus(statuses) ==
    IF "fail" \in statuses THEN "fail"
    ELSE IF "warning" \in statuses THEN "warning"
    ELSE IF "pass" \notin statuses \/ "unknown" \in statuses THEN "unknown"
    ELSE "pass"

ImperfectOrPass(executed) == IF "warning" \in executed THEN "warning" ELSE "pass"
(* Only the categories that executed something can reveal a defect. *)
ApplicationHealth(executed) ==
    IF "fail" \in executed THEN "fail"
    ELSE IF "warning" \in executed THEN "warning"
    ELSE "pass"

-----------------------------------------------------------------------------
(* The category modules.  Evidence is a set: empty when the stage produced
   no result, a singleton otherwise. *)

UnexecutedPasses(evidence) ==
    IF evidence = {} THEN "pass"
    ELSE ExecutionHealth(CHOOSE c \in evidence : TRUE)
ExecutionCategory(evidence) ==
    IF evidence = {} THEN "not_assessed"
    ELSE ExecutionHealth(CHOOSE c \in evidence : TRUE)

(* A missed threshold surfaces even when every request succeeded. *)
PerformanceCategory(evidence) ==
    LET status == ExecutionCategory(evidence) IN
    IF status = "pass" /\ \E c \in evidence : c.breach THEN "warning" ELSE status

DatabaseResult == {"unreachable", "no_tables", "partial_metadata", "complete"}
(* Never "fail": an access problem is not evidence of a broken database. *)
DatabaseCategory(evidence) ==
    CASE "no_tables" \in evidence        -> "unknown"
      [] "partial_metadata" \in evidence -> "warning"
      [] "complete" \in evidence         -> "pass"
      [] OTHER                           -> "not_assessed"

-----------------------------------------------------------------------------
(* quality_gate/ *)

Classify(policy, signal) ==
    IF signal \in policy.fail_on THEN "fail"
    ELSE IF signal \in policy.warn_on THEN "warning"
    ELSE "none"

(* A total transport failure is about the target, not about its quality. *)
InfraSignals(category) ==
    {<<c, "unreachable">> : c \in {x \in {"functional", "performance"} : category[x] = "fail"}}

WarningSignal ==
    [functional |-> <<"functional", "failure">>, performance |-> <<"performance", "threshold">>]
QualitySignals(category, overall, regression) ==
    {WarningSignal[c] : c \in {x \in DOMAIN WarningSignal : category[x] = "warning"}}
        \cup {<<c, "not_assessed">> : c \in {x \in {"database"} : category[x] = "not_assessed"}}
        \cup (UNION regression)
        \cup {<<"assessment", overall>>}

GateIgnoringInfra(infra, quality, policy) ==
    LET levels == {Classify(policy, s) : s \in quality \cup infra} IN
    IF "fail" \in levels THEN "fail" ELSE IF "warning" \in levels THEN "warning" ELSE "pass"
(* An infrastructure signal the policy says nothing of makes the gate an
   error; one it does classify counts like any other. *)
GateStatus(infra, quality, policy) ==
    LET levels == {Classify(policy, s) : s \in quality \cup infra} IN
    IF \E s \in infra : Classify(policy, s) = "none" THEN "error"
    ELSE IF "fail" \in levels THEN "fail"
    ELSE IF "warning" \in levels THEN "warning"
    ELSE "pass"

ExitCode == [pass |-> 0, warning |-> 0, fail |-> 1, error |-> 3]

DefaultPolicy ==
    [fail_on |-> {<<"regression", "critical">>, <<"regression", "high">>,
                  <<"functional", "failure">>, <<"performance", "threshold">>},
     warn_on |-> {<<"regression", "medium">>, <<"database", "schema_change">>,
                  <<"discovery", "change">>}]
=============================================================================
