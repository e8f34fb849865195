---------------------------- MODULE MCCommandLine ----------------------------
(***************************************************************************)
(* Every command with every combination of its flags, except that flags    *)
(* which cannot matter any more are fixed: the optional stages of the      *)
(* pipeline are asked for one at a time or all together, output only makes *)
(* a difference where one is required or may be unwritable.  The           *)
(* documents: none, one that is missing, one of each kind of mistake, one  *)
(* that asks for more retries than allowed and narrows one gate category,  *)
(* one that switches the functional rule off.  One request tells the       *)
(* results of the stages apart.                                            *)
(***************************************************************************)
EXTENDS CommandLine

Optional == {"performance", "database_profile", "browser", "scenario"}
MCInvocations ==
    {i \in Invocation :
        /\ i.command \in Pipelines =>
              /\ i.command # "baseline_save" => "output" \notin i.flags
              /\ Cardinality(i.flags \cap Optional) \in {1, 4}
        /\ i.format \in (IF i.command \in {"assess", "web_assess"} THEN {"text", "all"}
                         ELSE {"text", "html"})}

Document(sections) == Mapping(sections)
MCFiles ==
    {NoFile, MissingFile,
     Document([ci |-> Mapping([retry |-> Mapping([count |-> Text])])]),
     Document([quality_gate |-> Mapping([fail_on |-> Text])]),
     Document([ci |-> Mapping([retry |-> Mapping([count |-> Number(5)])]),
               browser |-> Mapping([navigation_timeout_seconds |-> NotFinite,
                                    test_timeout_seconds |-> Number(100000)]),
               quality_gate |-> Mapping([fail_on |-> Mapping([regression |-> List({"critical"})])])]),
     Document([ci |-> Null,
               quality_gate |-> Mapping([fail_on |-> Mapping([functional |-> List({})])])])}

Fine == [attempted |-> 1, transport |-> 0, failed |-> 0, breach |-> FALSE]
Lost == [Fine EXCEPT !.transport = 1]
Failed == [Fine EXCEPT !.failed = 1]
MCOutcomes ==
    [functional  |-> {Fine, Lost, Failed, [Fine EXCEPT !.attempted = 0]},
     performance |-> {Fine, Lost, [Fine EXCEPT !.breach = TRUE]},
     database    |-> {"unreachable", "complete"},
     browser     |-> {Fine, Failed},
     scenario    |-> {Failed}]
MCRegressionFindings == {{}, {<<"regression", "high">>}, {<<"regression", "medium">>}}
MCStaticStatuses == {"pass", "not_assessed"}
=============================================================================
