----------------------------- MODULE CommandLine -----------------------------
(***************************************************************************)
(* cli/main.py and cli/parser.py: one invocation of universal-test, from   *)
(* the flags the parser lets through to the exit code.  assess, web        *)
(* assess, baseline save and baseline compare share one pipeline; test,    *)
(* performance, database, browser test and browser scenario run drive one  *)
(* stage of it each, with error paths of their own.                        *)
(*                                                                         *)
(* What the adapters do is external to this module: they refuse the plan   *)
(* of a stage, return any result they can return, or raise something that  *)
(* nobody catches.                                                         *)
(*                                                                         *)
(* A definition without a comment right before another with the same       *)
(* parameters is a faulty variant of it, used to test the properties.      *)
(***************************************************************************)
EXTENDS Configuration, Sequences, SequencesExt

CONSTANTS
    Invocations,        \* the invocations considered, a subset of Invocation
    Files,              \* what may stand where universal-test.yaml is looked for
    Outcomes,           \* for each stage, the results its adapter may return
    RegressionFindings, \* what a comparison may find: sets of gate signals
    StaticStatuses      \* statuses of the categories that execute nothing

Pipelines == {"assess", "web_assess", "baseline_save", "baseline_compare"}
OneStage ==
    [test |-> "functional", performance |-> "performance", database |-> "database",
     browser_test |-> "browser", scenario_run |-> "scenario"]
Plain == {"scan", "scenario_list", "scenario_validate", "report", "run", "gui", "browser_install"}
Command == Pipelines \cup DOMAIN OneStage \cup Plain

StageSequence == <<"functional", "performance", "database", "browser", "scenario">>
Stage == ToSet(StageSequence)

(* build_parser: the flags each command has. *)
CommonFlags == {"output", "target", "dry_run"}
PipelineFlags ==
    CommonFlags \cup {"yes", "performance", "database_profile", "browser", "scenario"}
Surface(command) ==
    CASE command = "assess"           -> PipelineFlags \cup {"baseline", "ci"}
      [] command = "baseline_save"    -> PipelineFlags
      [] command = "baseline_compare" -> PipelineFlags \cup {"baseline"}
      [] command = "web_assess"       -> CommonFlags \cup {"yes", "baseline", "ci", "browser"}
      [] command = "performance"      -> CommonFlags \cup {"yes"}
      [] command = "database"         -> CommonFlags \cup {"database_profile"}
      [] command = "browser_test"     -> CommonFlags \cup {"yes"}
      [] command = "scenario_run"     -> CommonFlags \cup {"yes", "scenario"}
      [] command \in {"scan", "test", "report", "run"} -> CommonFlags
      [] OTHER                        -> {}
(* web assess presets --browser, baseline compare insists on --baseline. *)
Always(command) ==
    CASE command = "web_assess"       -> {"browser"}
      [] command = "baseline_compare" -> {"baseline"}
      [] OTHER                        -> {}
FormatsOf(command) ==
    CASE command = "web_assess" -> {"json", "markdown", "html", "all"}
      [] command = "scenario_list" -> {"text", "json"}
      [] command \in {"browser_test", "scenario_run"} -> {"text", "json", "markdown"}
      [] OTHER -> {"text", "json", "markdown", "html", "all"}
Flag == UNION {Surface(c) : c \in Command}
Invocation ==
    {i \in [command : Command, flags : SUBSET Flag, format : FormatsOf("assess")] :
        /\ Always(i.command) \subseteq i.flags
        /\ i.flags \subseteq Surface(i.command)
        /\ i.format \in FormatsOf(i.command)}

ASSUME CommandLineAssumption ==
    /\ Invocations \subseteq Invocation
    /\ \A s \in Stage \ {"database"} : \A c \in Outcomes[s] :
          /\ c.attempted \in Nat /\ c.transport \in Nat /\ c.failed \in Nat /\ c.breach \in BOOLEAN
          /\ c.transport + c.failed <= c.attempted
          /\ c.breach => s = "performance"
    /\ Outcomes["database"] \subseteq DatabaseResult
    /\ \A f \in RegressionFindings : f \subseteq {"regression", "database", "discovery"} \X STRING

(* What int() returns is an integer. *)
ASSUME FilesAssumption ==
    \A f \in Files :
        IsConfigurationError(f) \/ Crashes(f) \/ RetryCount(Build(f).ci).number \in Int

VARIABLES
    invocation,
    tty,                \* sys.stdin.isatty()
    file,               \* what load_config finds
    config,             \* what load_config returns: {} or a singleton
    at,                 \* where the command is
    stage,              \* index of the stage being run, of a pipeline
    consented,          \* the stages whose prompt was answered with yes
    traffic,            \* the stages that have sent something
    runs,               \* how often the functional tests were executed
    evidence,           \* the result of each stage: {} or a singleton
    reason,             \* the stages that are reported as not run
    baseline,           \* what became of --baseline
    regression,         \* the comparison: {} or a singleton
    written,            \* a report, a rendering or a baseline went out
    exit,               \* the exit code: {} or a singleton
    raised              \* an exception nobody caught ended the command

cliVars == <<invocation, tty, file, config, at, stage, consented, traffic, runs, evidence,
             reason, baseline, regression, written, exit, raised>>

Init ==
    /\ invocation \in Invocations
    /\ tty \in BOOLEAN
    /\ file \in Files
    /\ config = {}
    /\ at = "usage"
    /\ stage = 1
    /\ consented = {}
    /\ traffic = {}
    /\ runs = 0
    /\ evidence = [s \in Stage |-> {}]
    /\ reason = {}
    /\ baseline = "none"
    /\ regression = {}
    /\ written = FALSE
    /\ exit = {}
    /\ raised = FALSE

command == invocation.command
Has(flag) == flag \in invocation.flags
InPipeline == command \in Pipelines
Assesses == command \in {"assess", "web_assess"}
Setting == CHOOSE c \in config : TRUE

pipelineState == <<stage, consented, traffic, runs, evidence, reason>>
comparison == <<baseline, regression>>
given == <<invocation, tty, file>>

Goto(label) == at' = label /\ UNCHANGED <<exit, raised>>
Exit(code) == at' = "done" /\ exit' = {code} /\ UNCHANGED raised
(* A traceback instead of an orderly end. *)
Die(code) == at' = "done" /\ exit' = {code} /\ raised' = TRUE

-----------------------------------------------------------------------------
(* What main refuses before it reads the configuration. *)
UsageError ==
    \/ command \in {"browser_test", "scenario_run"} /\ ~Has("target") /\ ~Has("dry_run")
    \/ command = "scenario_run" /\ ~Has("scenario")
    \/ command = "performance" /\ ~Has("target")

CheckUsage ==
    /\ at = "usage"
    /\ \/ UsageError /\ Exit(2)
       \/ ~UsageError /\ command = "gui" /\ Exit(0)
       \/ command = "browser_install" /\ \E code \in {0, 2} : Exit(code)
       \/ ~UsageError /\ command \notin {"gui", "browser_install"} /\ Goto("config")
    /\ UNCHANGED <<given, config, pipelineState, comparison, written>>

ReadConfig ==
    /\ at = "config"
    /\ \/ IsConfigurationError(file) /\ Exit(2) /\ UNCHANGED config
       \/ Crashes(file) /\ Die(1) /\ UNCHANGED config
       \/ /\ ~IsConfigurationError(file) /\ ~Crashes(file)
          /\ config' = {LoadConfig(file)}
          /\ IF command \in {"report", "run"} THEN Exit(0) ELSE Goto("format")
    /\ UNCHANGED <<given, pipelineState, comparison, written>>

(* The commands that render one document know no html and no all, assess
   knows no text. *)
UnknownFormat ==
    \/ command \in {"scan", "test", "performance", "database", "baseline_compare"}
          /\ invocation.format \in {"html", "all"}
    \/ command = "assess" /\ invocation.format = "text"

MissingArgument ==
    \/ command = "database" /\ ~Has("database_profile")
    \/ command = "baseline_save" /\ ~Has("output")

(* A dry run of web assess only prints what it would do. *)
PlanOnly == command = "web_assess" /\ Has("dry_run")

CheckArguments ==
    /\ at = "format"
    /\ IF UnknownFormat \/ MissingArgument THEN Exit(2)
       ELSE IF PlanOnly THEN Exit(0)
       ELSE Goto(IF command = "baseline_compare" THEN "baseline"
                 ELSE IF command \in DOMAIN OneStage THEN "plan" ELSE "discover")
    /\ written' = PlanOnly
    /\ UNCHANGED <<given, config, pipelineState, comparison>>

(* load_baseline: before anything else in baseline compare. *)
LoadBaseline ==
    /\ at = "baseline"
    /\ \/ baseline' = "loaded" /\ Goto("discover")
       \/ baseline' = "unloadable" /\ Exit(2)
    /\ UNCHANGED <<given, config, pipelineState, regression, written>>

(* discover, or the scenario file of scenario list and scenario validate,
   which may be unreadable; an invalid scenario is listed all the same. *)
Discover ==
    /\ at = "discover"
    /\ \/ Exit(2) /\ UNCHANGED written
       \/ InPipeline /\ Goto("plan") /\ UNCHANGED written
       \/ ~InPipeline /\ written' = TRUE /\ Exit(0)
       \/ command = "scenario_validate" /\ written' = TRUE /\ Exit(2)
    /\ UNCHANGED <<given, config, pipelineState, comparison>>

-----------------------------------------------------------------------------
(* The stages, of the pipeline or on their own. *)
Current == IF InPipeline THEN StageSequence[stage] ELSE OneStage[command]

NextStage ==
    /\ UNCHANGED <<exit, raised>>
    /\ IF ~InPipeline THEN at' = "conclude" /\ UNCHANGED stage
       ELSE IF stage = Len(StageSequence) THEN at' = "compare" /\ UNCHANGED stage
       ELSE at' = "plan" /\ stage' = stage + 1

GiveUpSilently ==
    IF InPipeline THEN UNCHANGED reason /\ NextStage
    ELSE Exit(2) /\ UNCHANGED <<reason, stage>>
(* A stage that does not run is a reason in the report of a pipeline, the end
   of a command that is about nothing else.  Nobody notes a reason for the
   database. *)
GiveUp ==
    IF InPipeline THEN reason' = reason \cup ({Current} \ {"database"}) /\ NextStage
    ELSE Exit(2) /\ UNCHANGED <<reason, stage>>

Wanted ==
    \/ Current = "functional"
    \/ Current = "database" /\ Has("database_profile")
    \/ Current \in {"performance", "browser", "scenario"} /\ Has(Current)
MayReach == Current = "database" \/ (Has("target") /\ ~Has("dry_run"))

PassOver ==
    /\ at = "plan"
    /\ InPipeline /\ ~(Wanted /\ MayReach)
    /\ GiveUp
    /\ UNCHANGED <<given, config, consented, traffic, runs, evidence, comparison, written>>

YesForOneIsYesForAll ==
    /\ Current \in {"performance", "browser", "scenario"}
    /\ command # "browser_test"
    /\ ~Has("yes") /\ consented = {}
(* browser test has a --yes and never asks. *)
AsksFirst ==
    /\ Current \in {"performance", "browser", "scenario"}
    /\ command # "browser_test"
    /\ ~Has("yes")

(* Whatever has to be found and validated before anything is sent: the API
   specification, the load profile, the database profile, the scenarios.  The
   browser adapter looks at its target only when it runs. *)
Plan ==
    /\ at = "plan"
    /\ InPipeline => Wanted /\ MayReach
    /\ \/ Current # "browser" /\ GiveUp /\ UNCHANGED written
       \/ ~InPipeline /\ Has("dry_run") /\ Exit(0) /\ written' = TRUE /\ UNCHANGED <<reason, stage>>
       \/ /\ ~InPipeline /\ ~Has("dry_run") /\ ~Has("target") /\ Current # "database"
          /\ Exit(2) /\ written' = TRUE /\ UNCHANGED <<reason, stage>>
       \/ /\ InPipeline \/ ~Has("dry_run")
          /\ Has("target") \/ Current = "database"
          /\ Goto(IF AsksFirst THEN "confirm" ELSE "run")
          /\ UNCHANGED <<reason, stage, written>>
    /\ UNCHANGED <<given, config, consented, traffic, runs, evidence, comparison>>

(* --ci never prompts, not even on a terminal. *)
Interactive == tty /\ ~Has("ci")

PromptUntilYes ==
    /\ at = "confirm"
    /\ Interactive /\ consented' = consented \cup {Current} /\ Goto("run") /\ UNCHANGED <<reason, stage>>
    /\ UNCHANGED <<given, config, traffic, runs, evidence, comparison, written>>
(* Any other answer, and the end of the input, is a no. *)
Confirm ==
    /\ at = "confirm"
    /\ \/ /\ Interactive
          /\ consented' = consented \cup {Current}
          /\ Goto("run") /\ UNCHANGED <<reason, stage>>
       \/ GiveUp /\ UNCHANGED consented
    /\ UNCHANGED <<given, config, traffic, runs, evidence, comparison, written>>

(* _is_total_transport_failure *)
TotalTransportFailure(results) ==
    \E c \in results : c.attempted > 0 /\ c.transport = c.attempted

RetryUnbounded(results) == InPipeline /\ TotalTransportFailure(results) /\ Setting.retries > 0
(* Only the functional tests of the pipeline are retried. *)
Retry(results) ==
    InPipeline /\ TotalTransportFailure(results) /\ runs < Setting.retries

(* The adapter opens a connection to its target and returns what it found. *)
Run ==
    /\ at = "run"
    /\ traffic' = traffic \cup {Current}
    /\ \E e \in Outcomes[Current] :
          /\ evidence' = [evidence EXCEPT ![Current] = {e}]
          /\ runs' = IF Current = "functional" THEN runs + 1 ELSE runs
          /\ IF Current = "functional" /\ Retry({e}) THEN UNCHANGED <<at, exit, raised, stage>>
             ELSE NextStage
    /\ UNCHANGED <<given, config, consented, reason, comparison, written>>

(* The browser adapter refuses the target, or finds no browser, which browser
   test does not take for an error; or a retry cannot read the specification
   any more, and the result it was to replace stays. *)
RunRefused ==
    /\ at = "run"
    /\ Current = "browser" \/ (Current = "functional" /\ runs > 0)
    /\ \/ GiveUp /\ UNCHANGED written
       \/ command = "browser_test" /\ Exit(0) /\ written' = TRUE /\ UNCHANGED <<reason, stage>>
    /\ UNCHANGED <<given, config, consented, traffic, runs, evidence, comparison>>

-----------------------------------------------------------------------------
(* The end of the pipeline: the baseline, the gate, the report. *)
Compare ==
    /\ at = "compare"
    /\ Goto("conclude")
    /\ \/ ~Has("baseline") /\ UNCHANGED comparison
       \/ Assesses /\ Has("baseline") /\ baseline' = "unloadable" /\ UNCHANGED regression
       \/ Has("baseline") /\ baseline' = "loaded" /\ \E f \in RegressionFindings : regression' = {f}
    /\ UNCHANGED <<given, config, pipelineState, written>>

category ==
    [functional  |-> ExecutionCategory(evidence["functional"]),
     performance |-> PerformanceCategory(evidence["performance"]),
     database    |-> DatabaseCategory(evidence["database"]),
     browser     |-> ExecutionCategory(evidence["browser"]),
     scenario    |-> ExecutionCategory(evidence["scenario"])]
gate ==
    GateStatus(InfraSignals(category),
               QualitySignals(category,
                              OverallStatus({category[s] : s \in Stage} \cup StaticStatuses),
                              regression),
               Setting.policy)

Unsound(results) == \E c \in results : c.transport + c.failed > 0

DatabaseCode == IF "unreachable" \in evidence["database"] THEN 2 ELSE 0

(* Failed tests are no error of test, performance and baseline. *)
CodeOfOthers ==
    CASE command = "database" -> DatabaseCode
      [] command = "browser_test" -> IF Unsound(evidence["browser"]) THEN 1 ELSE 0
      [] command = "scenario_run" -> IF Unsound(evidence["scenario"]) THEN 1 ELSE 0
      [] OTHER -> 0

GateBeforeBaseline == IF Assesses THEN ExitCode[gate] ELSE CodeOfOthers
(* A baseline that was asked for and could not be loaded overrules the gate. *)
ReturnCode ==
    IF Assesses THEN IF baseline = "unloadable" THEN 2 ELSE ExitCode[gate] ELSE CodeOfOthers

(* The report or the baseline is written, then the code is returned. *)
Conclude ==
    /\ at = "conclude"
    /\ written' = TRUE
    /\ Exit(ReturnCode)
    /\ UNCHANGED <<given, config, pipelineState, comparison>>

(* An exception leaves main.  The adapter may have reached its target before
   it; of the scenarios of scenario run the earlier ones have their reports,
   of the formats of assess the first ones, and Ctrl+C may come between the
   report and the exit. *)
Break(code) ==
    /\ Die(code)
    /\ traffic' \in {traffic, IF at = "run" THEN traffic \cup {Current} ELSE traffic}
    /\ written' \in {FALSE, at = "conclude" \/ (at = "run" /\ command = "scenario_run")}
    /\ UNCHANGED <<given, config, stage, consented, runs, evidence, reason, comparison>>

(* Whatever an adapter does not catch itself: the TypeError of run_scenario, a
   browser that is gone, an URL httpx does not take. *)
RunRaises == at = "run" /\ Break(1)
(* An output that cannot be written. *)
WriteFails ==
    /\ at = "conclude"
    /\ Has("output") \/ (Assesses /\ invocation.format = "all")
    /\ Break(1)
(* Ctrl+C, at any time: KeyboardInterrupt is caught nowhere. *)
INTERRUPTED == 130
Interrupt == at # "done" /\ Break(INTERRUPTED)

Step ==
    \/ CheckUsage \/ ReadConfig \/ CheckArguments \/ LoadBaseline \/ Discover
    \/ PassOver \/ Plan \/ Confirm \/ Run \/ RunRefused \/ RunRaises
    \/ Compare \/ Conclude \/ WriteFails
Next == Step \/ Interrupt

(* One thread goes through the command; every adapter comes back, and whoever
   is asked answers or closes the input.  Nobody has to press Ctrl+C. *)
Spec == Init /\ [][Next]_cliVars /\ WF_cliVars(Step)

-----------------------------------------------------------------------------
Asking == {"performance", "browser", "scenario"}
Finished == exit # {}
ExitsWith(code) == exit = {code}

(* What the gates of cli/main.py do enforce: no load, no browser of a pipeline
   and no scenario without a target, and without either --yes or a "yes" to the
   prompt of that very stage on a terminal that is not under --ci; nothing
   optional that was not asked for; no request, no browser and no scenario in a
   dry run.  Two things they let through are in ConsentAsDocumented: browser
   test never asks, and assess --dry-run connects to the database. *)
ConsentBeforeTraffic ==
    /\ \A s \in traffic \ {"database"} : Has("target") /\ ~Has("dry_run")
    /\ \A s \in traffic \cap Asking :
          command = "browser_test" \/ Has("yes") \/ s \in consented
    /\ consented # {} => tty /\ ~Has("ci") /\ ~Has("dry_run")
    /\ InPipeline => \A s \in traffic \cap Asking : Has(s)
    /\ "database" \in traffic => Has("database_profile")

(* What the documents say of the same gates: browser test needs its --yes or a
   yes to a prompt like the others (docs/BROWSER_TESTING.md,
   docs/WEB_SCENARIOS.md), and a dry run describes what would run without
   executing anything (cli/parser.py, --dry-run). *)
ConsentAsDocumented ==
    /\ \A s \in traffic \cap Asking : Has("yes") \/ s \in consented
    /\ Has("dry_run") => traffic = {}

(* The functional tests run again only when every request of the run before
   was lost in transport, in a pipeline, and at most twice more whatever
   universal-test.yaml asks for: a failed check is never tried away (CiConfig,
   _run_pipeline). *)
RetriesOnlyOutages ==
    [][runs' > runs /\ runs > 0 =>
          /\ InPipeline
          /\ TotalTransportFailure(evidence["functional"])
          /\ runs' <= 1 + MAX_CI_RETRY_COUNT]_cliVars

(* The exit codes of assess: 0 only when no request was lost or failed, no
   threshold missed and no severe regression found, as far as the document
   does not itself reclassify that category, and never with a baseline that
   was asked for and not compared; 3 only for an unreachable target; 2 only
   for a mistake of the caller's, which is noticed before anything is sent or
   is the baseline (README.md, "Exit codes"). *)
AssessExitCode ==
    Finished /\ Assesses =>
        /\ ExitsWith(0) /\ traffic # {} =>
              /\ \A s \in {"functional", "performance"} :
                    ~Mentions(file, s) =>
                        \A c \in evidence[s] :
                            c.transport + c.failed = 0 /\ (c.attempted > 0 => ~c.breach)
              /\ ~Mentions(file, "regression") =>
                    \A f \in regression : f \cap DefaultPolicy.fail_on = {}
              /\ Has("baseline") => regression # {}
        /\ ExitsWith(3) =>
              \E s \in {"functional", "performance"} : TotalTransportFailure(evidence[s])
        /\ ExitsWith(2) => traffic = {} \/ baseline = "unloadable"

(* Whatever a command sent, it tells, unless an exception ends it, and that is
   not taken for a success, an outage or a mistake of the caller's: otherwise a
   command that sent something ends with its report, also with a --baseline
   that cannot be loaded, and in the report of a pipeline every stage either
   has its result or the reason why it has none (_run_pipeline, _run_assess). *)
NothingRunsUntold ==
    Finished /\ traffic # {} =>
        /\ written \/ raised
        /\ raised => ~ExitsWith(0) /\ ~ExitsWith(2) /\ ~ExitsWith(3)
        /\ written /\ InPipeline =>
              \A s \in Stage \ {"database"} : evidence[s] = {} => s \in reason

(* Every command ends with an exit code, whatever is refused on the way. *)
EveryCommandEnds == <>Finished
=============================================================================
