------------------------ MODULE MCAssessmentPipeline -------------------------
(***************************************************************************)
(* All requests, except that flags which cannot matter any more are fixed  *)
(* at the value most likely to let traffic through: a stage that is not    *)
(* wanted has its target and its confirmation, the database profile is     *)
(* varied only with the stage wanted, permission for external sites only   *)
(* with a target that is not local. One request per stage is enough for    *)
(* every status of the health ladder: none sent, failed in transport,      *)
(* failed its check, passed. The formats include one nobody renders.       *)
(***************************************************************************)
EXTENDS AssessmentPipeline

MCRequests ==
    {r \in Request :
        /\ ~r.run_performance => r.performance_confirmed
        /\ ~r.run_database => r.database_profile
        /\ ~r.run_browser => r.browser_target = "local" /\ r.browser_confirmed
        /\ r.browser_target \in {"none", "local"} => ~r.browser_allow_external}
MCRegressionFindings ==
    {{}, {<<"regression", "high">>},
     {<<"regression", "medium">>, <<"database", "schema_change">>}}
MCStaticStatuses == {"pass", "not_assessed"}
MCFormats == <<"json", "pdf", "html">>
MCPolicy == DefaultPolicy
=============================================================================
