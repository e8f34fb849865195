------------------------- MODULE MCAssessmentVerdict -------------------------
(***************************************************************************)
(* Two functional requests tell every rung of the health ladder apart, the *)
(* mixed one included, and one load request every status with and without  *)
(* a missed threshold.  The gate sees the browser and the scenarios only   *)
(* through the overall status, so one check of one of them is enough.      *)
(* A project in order, one in which everything is weak, and one in which   *)
(* nothing was found give the static categories all their statuses.        *)
(* Policies:                                                               *)
(* the default, one that also fails on every overall status from warning   *)
(* on, one that fails on an unreachable target, and one that only warns.   *)
(***************************************************************************)
EXTENDS AssessmentVerdict

Tested ==
    [EmptyModel EXCEPT !.languages = {Detected("Python")}, !.build_systems = {Detected("npm")},
        !.test_frameworks = {Detected("Jest")}, !.apis = {Detected("openapi")}]

MCAttempts == [functional |-> 2, performance |-> 1, browser |-> 1, scenarios |-> 0]
MCSeverities == {"high"}
MCModels ==
    {Tested, EmptyModel,
     [EmptyModel EXCEPT !.languages = {Inferred("JavaScript")}, !.frontend = {"static_web"},
                        !.test_frameworks = {Detected("pytest")}]}
MCPolicies ==
    {DefaultPolicy,
     [DefaultPolicy EXCEPT !.fail_on = @ \cup {<<"assessment", "warning">>,
                                               <<"assessment", "fail">>}],
     [DefaultPolicy EXCEPT !.fail_on = @ \cup {<<"functional", "unreachable">>}],
     [fail_on |-> {}, warn_on |-> {<<"functional", "failure">>,
                                   <<"performance", "unreachable">>,
                                   <<"database", "not_assessed">>}]}
=============================================================================
