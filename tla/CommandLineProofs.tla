-------------------------- MODULE CommandLineProofs --------------------------
(***************************************************************************)
(* Theorems about CommandLine, for all invocations, documents and results  *)
(* of the adapters.                                                        *)
(***************************************************************************)
EXTENDS CommandLine, TLAPS

Preparing == {"usage", "config", "format", "baseline", "discover"}
InStage == {"plan", "confirm", "run"}
Configured == {"format", "baseline", "discover", "plan", "confirm", "run", "compare", "conclude"}

(* Where the command is, and what cannot have happened before. *)
PositionOK ==
    /\ at \in Preparing \cup InStage \cup {"compare", "conclude", "done"}
    /\ stage \in 1..5
    /\ runs \in Nat
    /\ at \in Preparing => stage = 1 /\ runs = 0 /\ traffic = {}
    /\ at \in InStage => InPipeline \/ command \in DOMAIN OneStage
    /\ at = "compare" => InPipeline
    /\ exit # {} <=> at = "done"

(* From here on there is a configuration, the one of the file. *)
ConfiguredOK ==
    /\ file \in Files
    /\ at \in Configured =>
          config = {LoadConfig(file)} /\ ~IsConfigurationError(file) /\ ~Crashes(file)

(* A stage that is about to ask may run, one that is about to run was agreed
   to. *)
Permitted ==
    /\ Current # "database" => Has("target") /\ ~Has("dry_run")
    /\ InPipeline /\ Current \in Asking => Has(Current)
    /\ Current = "database" => Has("database_profile")
Agreed ==
    Current \in Asking => command = "browser_test" \/ Has("yes") \/ Current \in consented
ConsentOK ==
    /\ ConsentBeforeTraffic
    /\ at \in InStage /\ command = "database" => Has("database_profile")
    /\ at \in {"confirm", "run"} => Permitted
    /\ at = "confirm" => Current \in Asking
    /\ at = "run" => Agreed

(* The functional tests come first, and are about to run again only after an
   outage. *)
RetryOK ==
    /\ at \in {"plan", "confirm"} /\ Current = "functional" => runs = 0
    /\ at = "run" /\ Current = "functional" /\ runs > 0 =>
          /\ InPipeline
          /\ TotalTransportFailure(evidence["functional"])
          /\ runs <= MAX_CI_RETRY_COUNT

(* Of a pipeline, every stage that is over is told. *)
Told(s) == s = "database" \/ evidence[s] # {} \/ s \in reason
ToldOK ==
    /\ written \/ raised => at = "done"
    /\ evidence \in [Stage -> SUBSET UNION {Outcomes[s] : s \in Stage}]
    /\ ~InPipeline /\ at \in InStage => traffic = {}
    /\ InPipeline /\ at \in InStage => \A i \in 1..(stage - 1) : Told(StageSequence[i])
    /\ InPipeline /\ at \in {"compare", "conclude"} => \A s \in Stage : Told(s)
    /\ NothingRunsUntold

(* A gate is only asked for with the evidence and the comparison at hand. *)
ResultsOK ==
    /\ \A s \in Stage : evidence[s] = {} \/ \E e \in Outcomes[s] : evidence[s] = {e}
    /\ regression \subseteq RegressionFindings
    /\ at = "conclude" /\ Assesses /\ Has("baseline") =>
          baseline = "unloadable" \/ regression # {}
    /\ AssessExitCode

IInv == PositionOK /\ ConfiguredOK /\ ConsentOK /\ RetryOK /\ ToldOK /\ ResultsOK

-----------------------------------------------------------------------------
(* The stages, and which of them is current. *)
LEMMA Stages ==
    /\ Len(StageSequence) = 5
    /\ StageSequence[1] = "functional" /\ StageSequence[2] = "performance"
    /\ StageSequence[3] = "database" /\ StageSequence[4] = "browser"
    /\ StageSequence[5] = "scenario"
    /\ Stage = {"functional", "performance", "database", "browser", "scenario"}
    /\ \A i \in 1..5 : i = 1 \/ i = 2 \/ i = 3 \/ i = 4 \/ i = 5
    /\ \A i \in 1..5 : StageSequence[i] \in Stage
<1>1. /\ Len(StageSequence) = 5 /\ DOMAIN StageSequence = 1..5
      /\ StageSequence[1] = "functional" /\ StageSequence[2] = "performance"
      /\ StageSequence[3] = "database" /\ StageSequence[4] = "browser"
      /\ StageSequence[5] = "scenario"
  BY DEF StageSequence
<1>2. \A i \in 1..5 : i = 1 \/ i = 2 \/ i = 3 \/ i = 4 \/ i = 5
  OBVIOUS
<1>3. Stage = {StageSequence[i] : i \in 1..5}
  BY <1>1 DEF Stage, ToSet
<1>4. \A s : s \in Stage <=> \E i \in 1..5 : s = StageSequence[i]
  BY <1>3
<1>5. \A s : s \in Stage <=> \/ s = StageSequence[1] \/ s = StageSequence[2] \/ s = StageSequence[3]
                             \/ s = StageSequence[4] \/ s = StageSequence[5]
  BY <1>2, <1>4
<1>6. Stage = {"functional", "performance", "database", "browser", "scenario"}
  BY <1>1, <1>5
<1> QED
  BY <1>1, <1>2, <1>4, <1>6

LEMMA Singles ==
    /\ DOMAIN OneStage = {"test", "performance", "database", "browser_test", "scenario_run"}
    /\ OneStage["test"] = "functional" /\ OneStage["performance"] = "performance"
    /\ OneStage["database"] = "database" /\ OneStage["browser_test"] = "browser"
    /\ OneStage["scenario_run"] = "scenario"
    /\ \A c \in DOMAIN OneStage : c \notin Pipelines /\ OneStage[c] \in Stage
  BY Stages DEF OneStage, Pipelines

LEMMA CurrentStage ==
    ASSUME PositionOK, at \in InStage
    PROVE /\ Current \in Stage
          /\ Current = "functional" <=> (InPipeline /\ stage = 1) \/ command = "test"
          /\ Current = "database" <=> (InPipeline /\ stage = 3) \/ command = "database"
          /\ InPipeline => Current = StageSequence[stage]
          /\ InPipeline => command \notin DOMAIN OneStage
<1>1. CASE InPipeline
  <2>1. Current = StageSequence[stage]
    BY <1>1 DEF Current
  <2> QED
    BY <1>1, <2>1, Stages, Singles DEF PositionOK, InPipeline, Pipelines
<1>2. CASE ~InPipeline
  <2>1. Current = OneStage[command] /\ command \in DOMAIN OneStage
    BY <1>2 DEF Current, PositionOK
  <2> QED
    BY <1>2, <2>1, Stages, Singles
<1> QED
  BY <1>1, <1>2

(* Only the file decides how often the tests may be repeated. *)
LEMMA ClampBounds ==
    ASSUME NEW n \in Int PROVE Clamp(0, n, MAX_CI_RETRY_COUNT) \in 0..MAX_CI_RETRY_COUNT
<1>1. Min({n, 2}) \in Int /\ Min({n, 2}) <= 2
  <2>1. CASE n <= 2
    <3>1. \A x : x = n => x \in {n, 2} /\ \A y \in {n, 2} : x =< y
      BY <2>1
    <3>2. \E x \in {n, 2} : \A y \in {n, 2} : x =< y
      BY <3>1
    <3> QED
      BY <3>2 DEF Min
  <2>2. CASE n > 2
    <3>2. \E x \in {n, 2} : \A y \in {n, 2} : x =< y
      BY <2>2
    <3> QED
      BY <3>2 DEF Min
  <2> QED
    BY <2>1, <2>2
<1> DEFINE m == Min({n, 2})
<1> HIDE DEF m
<1>2. m \in Int /\ m <= 2
  BY <1>1 DEF m
<1>3. Max({0, m}) \in 0..2
  <2>1. \E x \in {0, m} : \A y \in {0, m} : x >= y
    BY <1>2
  <2> QED
    BY <1>2, <2>1 DEF Max
<1> QED
  BY <1>3 DEF Clamp, MAX_CI_RETRY_COUNT, m

LEMMA RetriesBounded ==
    ASSUME ConfiguredOK, at \in Configured
    PROVE Setting.retries \in 0..MAX_CI_RETRY_COUNT
<1>1. RetryCount(Build(file).ci).number \in Int
  BY FilesAssumption DEF ConfiguredOK
<1>2. Setting = LoadConfig(file)
  BY DEF ConfiguredOK, Setting
<1>3. LoadConfig(file).retries = Clamp(0, RetryCount(Build(file).ci).number, MAX_CI_RETRY_COUNT)
  BY DEF LoadConfig
<1> QED
  BY <1>1, <1>2, <1>3, ClampBounds

-----------------------------------------------------------------------------
LEMMA InitInvariant == Init => IInv
<1> SUFFICES ASSUME Init PROVE IInv
  OBVIOUS
<1>1. PositionOK
  BY DEF Init, PositionOK, Preparing, InStage
<1>2. ConfiguredOK
  BY DEF Init, ConfiguredOK, Configured
<1>3. ConsentOK
  BY DEF Init, ConsentOK, ConsentBeforeTraffic, InStage
<1>4. RetryOK
  BY DEF Init, RetryOK
<1>5. ToldOK
  BY DEF Init, ToldOK, InStage, NothingRunsUntold, Finished
<1>6. ResultsOK
  BY DEF Init, ResultsOK, AssessExitCode, Finished
<1> QED
  BY <1>1, <1>2, <1>3, <1>4, <1>5, <1>6 DEF IInv

-----------------------------------------------------------------------------
(* The steps of the code's own, and the exceptions that end it. *)
Orderly ==
    \/ CheckUsage \/ ReadConfig \/ CheckArguments \/ LoadBaseline \/ Discover
    \/ PassOver \/ Plan \/ Confirm \/ Run \/ RunRefused \/ Compare \/ Conclude
Breaks == RunRaises \/ WriteFails \/ Interrupt

LEMMA OrderlyOrNot == Next => Orderly \/ Breaks
  BY DEF Next, Step, Orderly, Breaks

(* Nobody changes what was typed, nor the file. *)
LEMMA Frame ==
    ASSUME Orderly
    PROVE /\ invocation' = invocation /\ tty' = tty /\ file' = file
          /\ command' = command /\ (InPipeline' <=> InPipeline)
<1>1. invocation' = invocation /\ tty' = tty /\ file' = file
  BY Zenon DEF Orderly, CheckUsage, ReadConfig, CheckArguments, LoadBaseline, Discover, PassOver, Plan,
     Confirm,
     Run, RunRefused, Compare, Conclude, given
<1> QED
  BY <1>1 DEF command, InPipeline

(* After a stage comes the next one, or the end. *)
LEMMA Advances ==
    ASSUME PositionOK, at \in InStage, NextStage
    PROVE /\ exit' = exit
          /\ InPipeline /\ stage < 5 => at' = "plan" /\ stage' = stage + 1
          /\ InPipeline /\ stage = 5 => at' = "compare" /\ stage' = stage
          /\ ~InPipeline => at' = "conclude" /\ stage' = stage
  BY Stages DEF NextStage, PositionOK

(* A stage that is given up is told, or ends the command. *)
LEMMA GivesUp ==
    ASSUME PositionOK, at \in InStage, GiveUp
    PROVE /\ InPipeline => NextStage /\ reason' = reason \cup ({Current} \ {"database"})
          /\ ~InPipeline => Exit(2) /\ stage' = stage /\ reason' = reason
  BY DEF GiveUp

(* Where a stage may lead. *)
LEMMA Leaves ==
    ASSUME PositionOK, at \in InStage, Orderly
    PROVE /\ runs' \in Nat
          /\ \/ NextStage
             \/ Exit(0) /\ stage' = stage /\ ~InPipeline
             \/ Exit(2) /\ stage' = stage /\ ~InPipeline
             \/ at' \in {"confirm", "run"} /\ stage' = stage /\ exit' = exit
<1>1. CASE PassOver
  BY <1>1, GivesUp DEF PassOver, PositionOK
<1>2. CASE Plan
  <2>1. runs' = runs
    BY <1>2 DEF Plan
  <2>2. CASE GiveUp
    BY <2>1, <2>2, GivesUp DEF PositionOK
  <2>3. CASE ~GiveUp
    BY <1>2, <2>1, <2>3 DEF Plan, PositionOK, Goto
  <2> QED
    BY <2>2, <2>3
<1>3. CASE Confirm
  BY <1>3, GivesUp DEF Confirm, PositionOK, Goto
<1>4. CASE Run
  <2>1. runs' \in Nat
    BY <1>4 DEF Run, PositionOK
  <2>2. NextStage \/ UNCHANGED <<at, exit, stage>>
    BY <1>4 DEF Run
  <2> QED
    BY <1>4, <2>1, <2>2 DEF Run
<1>5. CASE RunRefused
  <2>1. runs' = runs
    BY <1>5 DEF RunRefused
  <2>2. CASE GiveUp
    BY <2>1, <2>2, GivesUp DEF PositionOK
  <2>3. CASE ~GiveUp
    BY <1>5, <2>1, <2>3 DEF RunRefused, PositionOK, InPipeline, Pipelines
  <2> QED
    BY <2>2, <2>3
<1> QED
  BY <1>1, <1>2, <1>3, <1>4, <1>5 DEF Orderly, CheckUsage, ReadConfig, CheckArguments, LoadBaseline,
     Discover, Compare, Conclude, InStage

(* The other actions leave the stages alone. *)
LEMMA Elsewhere ==
    ASSUME at \notin InStage, Orderly
    PROVE /\ UNCHANGED pipelineState
          /\ \/ CheckUsage \/ ReadConfig \/ CheckArguments \/ LoadBaseline \/ Discover
             \/ Compare \/ Conclude
<1>1. \/ CheckUsage \/ ReadConfig \/ CheckArguments \/ LoadBaseline \/ Discover
      \/ Compare \/ Conclude
  BY DEF Orderly, PassOver, Plan, Confirm, Run, RunRefused, InStage
<1> QED
  BY <1>1 DEF CheckUsage, ReadConfig, CheckArguments, LoadBaseline, Discover, Compare, Conclude

LEMMA PositionStep == IInv /\ Orderly => PositionOK'
<1> SUFFICES ASSUME PositionOK, Orderly PROVE PositionOK'
  BY DEF IInv
<1>1. CASE at \in InStage
  <2>1. command' = command /\ (InPipeline' <=> InPipeline)
    BY Frame
  <2>2. runs' \in Nat /\ stage' \in 1..5
    BY <1>1, Leaves, Advances DEF PositionOK
  <2>3. at' \in InStage \cup {"compare", "conclude", "done"}
    BY <1>1, Leaves, Advances DEF PositionOK, InStage, Exit
  <2>4. exit' # {} <=> at' = "done"
    BY <1>1, Leaves, Advances DEF PositionOK, InStage, Exit
  <2>5. at' = "compare" => InPipeline
    BY <1>1, Leaves, Advances DEF PositionOK, Exit
  <2>6. InPipeline \/ command \in DOMAIN OneStage
    BY <1>1 DEF PositionOK
  <2> QED
    BY <2>1, <2>2, <2>3, <2>4, <2>5, <2>6 DEF PositionOK, InStage, Preparing
<1>2. CASE at \notin InStage
  <2>1. stage' = stage /\ runs' = runs /\ traffic' = traffic
    BY <1>2, Elsewhere DEF pipelineState
  <2>2. command' = command /\ (InPipeline' <=> InPipeline)
    BY Frame
  <2>3. at # "done"
    BY <1>2, Elsewhere DEF CheckUsage, ReadConfig, CheckArguments, LoadBaseline, Discover, Compare,
       Conclude
  <2>4. /\ at' \in Preparing \cup {"plan", "conclude", "done"}
        /\ exit' # {} <=> at' = "done"
        /\ at' \in Preparing => at \in Preparing
    BY <1>2, <2>3, Elsewhere DEF CheckUsage, ReadConfig, CheckArguments, LoadBaseline, Discover, Compare,
       Conclude, Goto, Exit, Die, Preparing, PositionOK
  <2>5. at' = "plan" => InPipeline \/ command \in DOMAIN OneStage
    BY <1>2, <2>3, Elsewhere DEF CheckUsage, ReadConfig, CheckArguments, LoadBaseline, Discover, Compare,
       Conclude, Goto, Exit, Die
  <2> QED
    BY <2>1, <2>2, <2>3, <2>4, <2>5 DEF PositionOK, InStage, Preparing
<1> QED
  BY <1>1, <1>2

LEMMA ConfiguredStep == IInv /\ Orderly => ConfiguredOK'
<1> SUFFICES ASSUME PositionOK, ConfiguredOK, Orderly PROVE ConfiguredOK'
  BY DEF IInv
<1>1. file' = file
  BY Frame
<1>2. CASE ReadConfig
  BY <1>1, <1>2, Zenon DEF ReadConfig, ConfiguredOK, Exit, Die, Configured
<1>3. CASE CheckUsage
  BY <1>1, <1>3 DEF CheckUsage, ConfiguredOK, Exit, Goto, Configured
<1>4. CASE ~ReadConfig /\ ~CheckUsage
  <2>1. config' = config /\ at \in Configured
    BY <1>4 DEF Orderly, CheckArguments, LoadBaseline, Discover, PassOver, Plan, Confirm, Run, RunRefused,
       Compare, Conclude, Configured
  <2> QED
    BY <1>1, <2>1 DEF ConfiguredOK
<1> QED
  BY <1>2, <1>3, <1>4

-----------------------------------------------------------------------------
(* Consent. *)

LEMMA PlanIsPermitted ==
    ASSUME PositionOK, ConsentOK, Plan, at' \in {"confirm", "run"}
    PROVE /\ Permitted /\ stage' = stage
          /\ at' = "confirm" => Current \in Asking
          /\ at' = "run" => Agreed
<1>1. at = "plan" /\ (InPipeline => Wanted /\ MayReach)
  BY DEF Plan
<1>2. ~(InPipeline /\ NextStage)
  BY <1>1, Advances DEF InStage, PositionOK
<1>3. ~GiveUp
  BY <1>1, <1>2, GivesUp DEF InStage, Exit
<1>4. /\ InPipeline \/ ~Has("dry_run")
      /\ Has("target") \/ Current = "database"
      /\ Goto(IF AsksFirst THEN "confirm" ELSE "run")
      /\ stage' = stage
  BY <1>3 DEF Plan, Exit
<1>5. Current = "database" => (InPipeline /\ Current = "database") \/ command = "database"
  BY <1>1, CurrentStage DEF InStage
<1>6. Permitted
  BY <1>1, <1>4, <1>5 DEF Permitted, Wanted, MayReach, ConsentOK, InStage, Asking
<1>7. IF AsksFirst THEN at' = "confirm" ELSE at' = "run"
  BY <1>4 DEF Goto
<1> QED
  BY <1>4, <1>6, <1>7 DEF AsksFirst, Agreed, Asking

LEMMA ConsentStep == IInv /\ Orderly => ConsentOK'
<1> SUFFICES ASSUME PositionOK, ConsentOK, Orderly PROVE ConsentOK'
  BY DEF IInv
<1>1. invocation' = invocation /\ tty' = tty /\ command' = command /\ (InPipeline' <=> InPipeline)
  BY Frame
<1>2. stage' = stage => Current' = Current
  BY <1>1 DEF Current, command, InPipeline
<1>3. at' \in InStage /\ command = "database" => Has("database_profile")
  <2>1. CASE at \in InStage
    BY <2>1 DEF ConsentOK
  <2>2. CASE at \notin InStage
    BY <2>2, Elsewhere DEF CheckUsage, ReadConfig, CheckArguments, MissingArgument, LoadBaseline,
       Discover, Compare, Conclude, Goto, Exit, Die, InStage, InPipeline, Pipelines
  <2> QED
    BY <2>1, <2>2
<1>4. ASSUME Permitted, stage' = stage PROVE Permitted'
  BY <1>1, <1>2, <1>4 DEF Permitted, Has
<1>5. CASE Run
  <2>1. /\ at = "run" /\ traffic' = traffic \cup {Current} /\ consented' = consented
        /\ NextStage \/ UNCHANGED <<at, exit, stage>>
    BY <1>5 DEF Run
  <2>2. Permitted /\ Agreed /\ ConsentBeforeTraffic
    BY <2>1 DEF ConsentOK
  <2>3. ConsentBeforeTraffic'
    BY <1>1, <2>1, <2>2 DEF ConsentBeforeTraffic, Permitted, Agreed, Has
  <2>4. CASE NextStage
    <3>1. at' \notin {"confirm", "run"}
      BY <2>1, <2>4, Advances DEF PositionOK, InStage
    <3> QED
      BY <1>1, <1>3, <2>3, <3>1 DEF ConsentOK, Has
  <2>5. CASE at' = at /\ stage' = stage
    <3>1. Agreed'
      BY <1>1, <1>2, <2>1, <2>2, <2>5 DEF Agreed, Has
    <3> QED
      BY <1>1, <1>3, <1>4, <2>1, <2>2, <2>3, <2>5, <3>1 DEF ConsentOK, Has
  <2> QED
    BY <2>1, <2>4, <2>5
<1>6. CASE Confirm
  <2>1. at = "confirm" /\ traffic' = traffic /\ Permitted /\ Current \in Asking /\ ConsentBeforeTraffic
    BY <1>6 DEF Confirm, ConsentOK
  <2>2. CASE Interactive /\ consented' = consented \cup {Current} /\ Goto("run") /\ stage' = stage
    <3>1. tty /\ ~Has("ci") /\ ~Has("dry_run")
      BY <2>1, <2>2 DEF Interactive, Permitted, Asking
    <3>2. ConsentBeforeTraffic'
      BY <1>1, <2>1, <2>2, <3>1 DEF ConsentBeforeTraffic, Has
    <3>3. Agreed' /\ at' = "run"
      BY <1>1, <1>2, <2>1, <2>2 DEF Agreed, Has, Goto
    <3> QED
      BY <1>1, <1>3, <1>4, <2>1, <2>2, <3>2, <3>3 DEF ConsentOK, Has
  <2>3. CASE GiveUp /\ consented' = consented
    <3>1. at' \notin {"confirm", "run"}
      BY <2>1, <2>3, GivesUp, Advances DEF PositionOK, InStage, Exit
    <3>2. ConsentBeforeTraffic'
      BY <1>1, <2>1, <2>3 DEF ConsentBeforeTraffic, Has
    <3> QED
      BY <1>1, <1>3, <3>1, <3>2 DEF ConsentOK, Has
  <2> QED
    BY <1>6, <2>2, <2>3 DEF Confirm
<1>7. CASE ~Run /\ ~Confirm
  <2>1. traffic' = traffic /\ consented' = consented
    BY <1>7, Zenon DEF Orderly, CheckUsage, ReadConfig, CheckArguments, LoadBaseline, Discover, PassOver,
       Plan,
       RunRefused, Compare, Conclude, pipelineState
  <2>2. ConsentBeforeTraffic'
    BY <1>1, <2>1 DEF ConsentOK, ConsentBeforeTraffic, Has
  <2>3. CASE at' \in {"confirm", "run"}
    <3>1. at \in InStage
      BY <2>3, Elsewhere DEF CheckUsage, ReadConfig, CheckArguments, LoadBaseline, Discover, Compare,
         Conclude, Goto, Exit, Die
    <3>2. ~NextStage
      BY <2>3, <3>1, Advances DEF PositionOK
    <3>3. Plan
      BY <1>7, <2>3, <3>1, <3>2, GivesUp DEF Orderly, CheckUsage, ReadConfig, CheckArguments, LoadBaseline,
         Discover, PassOver, RunRefused, Compare, Conclude, InStage, Exit, Die
    <3>4. Agreed /\ at' = "run" => Agreed'
      BY <1>1, <1>2, <2>1, <3>3, PlanIsPermitted, <2>3 DEF Agreed, Has
    <3> QED
      BY <1>1, <1>2, <1>3, <1>4, <2>2, <2>3, <3>3, <3>4, PlanIsPermitted DEF ConsentOK, Has
  <2>4. CASE at' \notin {"confirm", "run"}
    BY <1>1, <1>3, <2>2, <2>4 DEF ConsentOK, Has
  <2> QED
    BY <2>3, <2>4
<1> QED
  BY <1>5, <1>6, <1>7

-----------------------------------------------------------------------------
(* Retries. *)

LEMMA RetryStep == IInv /\ Orderly => RetryOK'
<1> SUFFICES ASSUME IInv, Orderly PROVE RetryOK'
  OBVIOUS
<1> USE DEF IInv
<1>1. invocation' = invocation /\ command' = command /\ (InPipeline' <=> InPipeline)
  BY Frame
<1>2. stage' = stage => Current' = Current
  BY <1>1 DEF Current, command, InPipeline
<1>3. CASE at \notin InStage
  <2>1. runs' = runs /\ at' \notin {"confirm", "run"}
    BY <1>3, Elsewhere DEF pipelineState, CheckUsage, ReadConfig, CheckArguments, LoadBaseline, Discover,
       Compare, Conclude, Goto, Exit, Die
  <2>2. at' = "plan" => at \in Preparing
    BY <1>3, Elsewhere DEF CheckUsage, ReadConfig, CheckArguments, LoadBaseline, Discover,
       Compare, Conclude, Goto, Exit, Die, Preparing
  <2> QED
    BY <2>1, <2>2 DEF RetryOK, PositionOK
<1>4. CASE at \in InStage /\ NextStage
  <2>1. at' \in InStage => InPipeline /\ at' = "plan" /\ stage' = stage + 1
    BY <1>4, Advances DEF PositionOK, InStage
  <2>2. at' \in InStage => Current' # "functional"
    <3>1. SUFFICES ASSUME at' \in InStage PROVE Current' = StageSequence[stage + 1] /\ stage + 1 \in 2..5
      BY Stages
    <3> QED
      BY <1>1, <1>4, <2>1, <3>1, Advances DEF Current, PositionOK, InStage
  <2> QED
    BY <2>1, <2>2 DEF RetryOK, InStage
<1>5. CASE at \in InStage /\ ~NextStage /\ ~Run
  <2>1. runs' = runs /\ evidence' = evidence
    BY <1>5 DEF Orderly, CheckUsage, ReadConfig, CheckArguments, LoadBaseline, Discover, PassOver, Plan,
       Confirm,
       RunRefused, Compare, Conclude, InStage
  <2>2. at' \in InStage => stage' = stage /\ at \in {"plan", "confirm"}
    BY <1>5, GivesUp DEF Orderly, CheckUsage, ReadConfig, CheckArguments, LoadBaseline, Discover, PassOver,
       Plan,
       Confirm, RunRefused, Compare, Conclude, InStage, Exit, Die
  <2> QED
    BY <1>2, <2>1, <2>2 DEF RetryOK, InStage
<1>6. CASE Run /\ ~NextStage
  <2>1. PICK e \in Outcomes[Current] :
              /\ evidence' = [evidence EXCEPT ![Current] = {e}]
              /\ runs' = IF Current = "functional" THEN runs + 1 ELSE runs
              /\ Current = "functional" /\ Retry({e}) /\ UNCHANGED <<at, exit, stage>>
    BY <1>6 DEF Run
  <2>2. at = "run" /\ runs < Setting.retries /\ runs' = runs + 1 /\ InPipeline
    BY <1>6, <2>1 DEF Run, Retry
  <2>3. runs' \in Nat /\ runs' <= MAX_CI_RETRY_COUNT
    BY <2>2, RetriesBounded DEF PositionOK, Configured, MAX_CI_RETRY_COUNT
  <2>4. evidence'["functional"] = {e} /\ TotalTransportFailure({e})
    BY <2>1, Stages DEF ToldOK, Retry
  <2> QED
    BY <1>1, <2>1, <2>2, <2>3, <2>4 DEF RetryOK, TotalTransportFailure
<1> QED
  BY <1>3, <1>4, <1>5, <1>6 DEF Run, InStage

-----------------------------------------------------------------------------
(* What is told. *)

LEMMA ToldKept ==
    ASSUME IInv, Orderly
    PROVE /\ evidence' \in [Stage -> SUBSET UNION {Outcomes[s] : s \in Stage}]
          /\ \A s \in Stage :
                Told(s) \/ (s = Current /\ at \in InStage /\ InPipeline /\ NextStage) => Told(s)'
          /\ traffic' # traffic => Run
<1> USE DEF IInv
<1>1. CASE Run
  <2>1. PICK e \in Outcomes[Current] : evidence' = [evidence EXCEPT ![Current] = {e}]
    BY <1>1 DEF Run
  <2>2. Current \in Stage /\ reason' = reason
    BY <1>1, CurrentStage DEF Run, InStage
  <2>3. evidence' \in [Stage -> SUBSET UNION {Outcomes[s] : s \in Stage}]
    BY <2>1, <2>2 DEF ToldOK
  <2>4. evidence'[Current] = {e} /\ \A s \in Stage \ {Current} : evidence'[s] = evidence[s]
    BY <2>1, <2>2 DEF ToldOK
  <2> QED
    BY <1>1, <2>2, <2>3, <2>4 DEF Told
<1>2. CASE ~Run
  <2>1. evidence' = evidence /\ traffic' = traffic
    BY <1>2 DEF Orderly, CheckUsage, ReadConfig, CheckArguments, LoadBaseline, Discover, PassOver, Plan,
       Confirm,
       RunRefused, Compare, Conclude, pipelineState
  <2>2. CASE at \in InStage /\ GiveUp
    BY <2>1, <2>2, GivesUp DEF Told, ToldOK
  <2>3. CASE at \in InStage /\ ~GiveUp
    <3>1. reason' = reason /\ (NextStage => ~InPipeline)
      BY <1>2, <2>3 DEF Orderly, CheckUsage, ReadConfig, CheckArguments, LoadBaseline, Discover, PassOver,
         Plan,
         Confirm, RunRefused, Compare, Conclude, InStage, NextStage, Goto, Exit, Die, InPipeline,
         Pipelines, PositionOK
    <3> QED
      BY <2>1, <2>3, <3>1 DEF Told, ToldOK
  <2>4. CASE at \notin InStage
    BY <2>1, <2>4, Elsewhere DEF pipelineState, Told, ToldOK
  <2> QED
    BY <2>2, <2>3, <2>4
<1> QED
  BY <1>1, <1>2

LEMMA ToldStep == IInv /\ Orderly => ToldOK'
<1> SUFFICES ASSUME IInv, Orderly PROVE ToldOK'
  OBVIOUS
<1> USE DEF IInv
<1>1. command' = command /\ (InPipeline' <=> InPipeline)
  BY Frame
<1>2. ~written /\ at # "done"
  BY DEF ToldOK, Orderly, CheckUsage, ReadConfig, CheckArguments, LoadBaseline, Discover, PassOver, Plan,
     Confirm, Run, RunRefused, Compare, Conclude
<1>3. exit = {}
  BY <1>2 DEF PositionOK
<1>4. written' => at' = "done"
  BY <1>2 DEF Orderly, CheckUsage, ReadConfig, CheckArguments, LoadBaseline, Discover, PassOver, Plan,
     Confirm,
     Run, RunRefused, Compare, Conclude, Exit, Die
<1>5. raised' => at' = "done" /\ at \in Preparing
  BY <1>2 DEF ToldOK, Orderly, CheckUsage, ReadConfig, CheckArguments, LoadBaseline, Discover, PassOver, Plan,
     Confirm, Run, RunRefused, Compare, Conclude, Goto, Exit, Die, GiveUp, NextStage, Preparing
<1>6. at \in Preparing => at \notin InStage /\ at \notin {"compare", "conclude"}
  BY DEF Preparing, InStage
<1>7. CASE at \in InStage /\ NextStage
  <2>1. ~Finished'
    BY <1>3, <1>7, Advances DEF Finished
  <2>2. CASE ~InPipeline
    BY <1>1, <1>4, <1>5, <1>6, <1>7, <2>1, <2>2, ToldKept, Advances DEF ToldOK, NothingRunsUntold, InStage
  <2>3. CASE InPipeline
    <3>1. \A i \in 1..stage : Told(StageSequence[i])'
      <4> SUFFICES ASSUME NEW i \in 1..stage PROVE Told(StageSequence[i])'
        OBVIOUS
      <4>1. stage \in 1..5 /\ i \in 1..5 /\ (i \in 1..(stage - 1) \/ i = stage)
        BY DEF PositionOK
      <4>2. StageSequence[i] \in Stage /\ StageSequence[stage] = Current
        BY <1>7, <2>3, <4>1, Stages, CurrentStage
      <4>3. CASE i \in 1..(stage - 1)
        BY <1>7, <2>3, <4>2, <4>3, ToldKept DEF ToldOK
      <4>4. CASE i = stage
        BY <1>7, <2>3, <4>2, <4>4, ToldKept
      <4> QED
        BY <4>1, <4>3, <4>4
    <3>2. stage = 5 => \A s \in Stage : Told(s)'
      BY <3>1, Stages
    <3> QED
      BY <1>1, <1>4, <1>5, <1>6, <1>7, <2>1, <2>3, <3>1, <3>2, ToldKept, Advances DEF ToldOK, PositionOK,
         NothingRunsUntold, InStage
  <2> QED
    BY <2>2, <2>3
<1>8. CASE at \in InStage /\ ~NextStage
  <2>1. CASE at' \in InStage
    <3>1. stage' = stage /\ exit' = exit
      BY <1>8, <2>1, Leaves DEF Exit, InStage
    <3>2. ~InPipeline => traffic' = traffic
      BY <1>8, ToldKept DEF Run, Retry
    <3>3. InPipeline => \A i \in 1..(stage - 1) : Told(StageSequence[i])'
      BY <1>8, ToldKept, Stages DEF ToldOK, PositionOK
    <3> QED
      BY <1>1, <1>3, <1>4, <1>5, <1>6, <1>8, <2>1, <3>1, <3>2, <3>3, ToldKept DEF ToldOK, NothingRunsUntold,
         Finished,
         InStage
  <2>2. CASE at' \notin InStage
    <3>1. at' = "done" /\ ~InPipeline
      BY <1>8, <2>2, Leaves DEF Exit, InStage
    <3>2. traffic' = {}
      BY <1>8, <2>2, <3>1, ToldKept DEF Run, ToldOK
    <3> QED
      BY <1>1, <1>4, <1>5, <1>6, <3>1, <3>2, ToldKept DEF ToldOK, NothingRunsUntold, InStage
  <2> QED
    BY <2>1, <2>2
<1>9. CASE at \in Preparing
  <2>1. at \notin InStage
    BY <1>9 DEF Preparing, InStage
  <2>2. traffic' = {} /\ stage' = 1
    BY <1>9, <2>1, Elsewhere DEF PositionOK, pipelineState
  <2>3. at' \notin {"compare", "conclude"}
    BY <1>9, <2>1, Elsewhere DEF CheckUsage, ReadConfig, CheckArguments, LoadBaseline, Discover, Compare,
       Conclude, Goto, Exit, Die, Preparing
  <2> QED
    BY <1>1, <1>4, <1>5, <1>6, <2>2, <2>3, ToldKept DEF ToldOK, NothingRunsUntold
<1>10. CASE at \in {"compare", "conclude"}
  <2>1. Compare \/ Conclude
    BY <1>10, Elsewhere DEF CheckUsage, ReadConfig, CheckArguments, LoadBaseline, Discover, InStage
  <2>2. at' \notin InStage
    BY <2>1 DEF Compare, Conclude, Goto, Exit, InStage
  <2>3. InPipeline => \A s \in Stage : Told(s)'
    BY <1>10, ToldKept DEF ToldOK
  <2>4. NothingRunsUntold'
    <3>1. at' = "done" => written'
      BY <2>1 DEF Compare, Conclude, Goto
    <3>2. at' # "done" => ~Finished'
      BY <1>3, <2>1 DEF Compare, Conclude, Goto, Exit, Finished
    <3> QED
      BY <1>1, <1>4, <1>5, <1>6, <1>10, <2>3, <3>1, <3>2 DEF NothingRunsUntold, Told
  <2> QED
    BY <1>1, <1>4, <1>5, <1>6, <2>2, <2>3, <2>4, ToldKept DEF ToldOK
<1> QED
  BY <1>2, <1>7, <1>8, <1>9, <1>10 DEF PositionOK

-----------------------------------------------------------------------------
(* A category a valid document says nothing of keeps its default rules. *)

Rule == {"fail_on", "warn_on"}

LEMMA SignalsOfMapping ==
    ASSUME NEW S, \A x \in S : x = <<x[1], x[2]>>, NEW c, NEW w
    PROVE <<c, w>> \in S <=>
              c \in DOMAIN AsMapping(S).mapping /\ w \in AsMapping(S).mapping[c].list
<1>1. AsMapping(S).mapping =
          [d \in {x[1] : x \in S} |-> List({x[2] : x \in {y \in S : y[1] = d}})]
  BY DEF AsMapping, Mapping
<1>2. ASSUME c \in {x[1] : x \in S}
      PROVE AsMapping(S).mapping[c].list = {x[2] : x \in {y \in S : y[1] = c}}
  BY <1>1, <1>2 DEF List
<1>4. <<c, w>> \in S => c \in {x[1] : x \in S} /\ w \in {x[2] : x \in {y \in S : y[1] = c}}
  OBVIOUS
<1>5. w \in {x[2] : x \in {y \in S : y[1] = c}} => <<c, w>> \in S
  OBVIOUS
<1>6. DOMAIN AsMapping(S).mapping = {x[1] : x \in S}
  BY <1>1
<1> QED
  BY <1>2, <1>4, <1>5, <1>6

LEMMA MappingOfSignals ==
    ASSUME NEW policy, NEW c, NEW w
    PROVE <<c, w>> \in AsSignals(policy) <=>
              c \in DOMAIN policy.mapping /\ w \in policy.mapping[c].list
  BY DEF AsSignals

LEMMA DefaultRules ==
    \A s \in DefaultPolicy.fail_on \cup DefaultPolicy.warn_on : s = <<s[1], s[2]>>
  BY DEF DefaultPolicy

LEMMA DefaultSections ==
    /\ "quality_gate" \in DOMAIN Defaults
    /\ DOMAIN Defaults["quality_gate"] = Rule
    /\ \A rule \in Rule : Defaults["quality_gate"][rule] = AsMapping(DefaultPolicy[rule])
  BY DEF Defaults, Rule, DefaultPolicy

LEMMA RuleKept ==
    ASSUME NEW f, ~IsConfigurationError(f), ~Crashes(f), NEW c, ~Mentions(f, c), NEW rule \in Rule,
           NEW policy, policy = Build(f).quality_gate[rule],
           NEW default, default = AsMapping(DefaultPolicy[rule])
    PROVE /\ c \in DOMAIN policy.mapping <=> c \in DOMAIN default.mapping
          /\ c \in DOMAIN default.mapping => policy.mapping[c] = default.mapping[c]
<1> DEFINE built == Build(f)
<1>1. ~Unreadable(f)
  BY DEF IsConfigurationError
<1>2. RetryUsable(built.ci)
  BY <1>1 DEF Crashes
<1>3. ValidPolicy(policy)
  BY <1>1, <1>2 DEF IsConfigurationError, Rule
<1>4. built.quality_gate = IF "quality_gate" \in Sections(f)
                           THEN BuildSection("quality_gate", f.mapping["quality_gate"].mapping)
                           ELSE Defaults["quality_gate"]
  BY DefaultSections DEF Build
<1>5. CASE "quality_gate" \notin Sections(f)
  BY <1>4, <1>5, DefaultSections
<1>6. CASE "quality_gate" \in Sections(f)
  <2> DEFINE data == f.mapping["quality_gate"].mapping
  <2>1. Is("mapping", f)
    BY <1>6 DEF Sections
  <2>2. rule \in DOMAIN data => c \notin DOMAIN data[rule].mapping
    BY <1>6, <2>1 DEF Mentions, Rule
  <2>3. Is("mapping", default)
    BY DEF AsMapping, Mapping, Is
  <2>4. policy = IF rule \notin DOMAIN data THEN default
                 ELSE IF Is("mapping", default) /\ Is("mapping", data[rule]) /\ rule # "retry"
                      THEN Mapping(Merge(data[rule].mapping, default.mapping))
                 ELSE data[rule]
    BY <1>4, <1>6, DefaultSections, Zenon DEF BuildSection
  <2>5. CASE rule \notin DOMAIN data
    BY <2>4, <2>5
  <2>6. CASE rule \in DOMAIN data
    <3>1. Is("mapping", data[rule])
      BY <1>3, <2>3, <2>4, <2>6 DEF ValidPolicy
    <3>2. policy = Mapping(Merge(data[rule].mapping, default.mapping))
      BY <2>3, <2>4, <2>6, <3>1 DEF Rule
    <3>3. policy.mapping = Merge(data[rule].mapping, default.mapping)
      BY <3>2 DEF Mapping
    <3> QED
      BY <2>2, <2>6, <3>3 DEF Merge
  <2> QED
    BY <2>5, <2>6
<1> QED
  BY <1>5, <1>6

LEMMA PolicyKept ==
    ASSUME NEW f, ~IsConfigurationError(f), ~Crashes(f), NEW c, ~Mentions(f, c), NEW w
    PROVE /\ <<c, w>> \in LoadConfig(f).policy.fail_on <=> <<c, w>> \in DefaultPolicy.fail_on
          /\ <<c, w>> \in LoadConfig(f).policy.warn_on <=> <<c, w>> \in DefaultPolicy.warn_on
<1>1. /\ LoadConfig(f).policy.fail_on = AsSignals(Build(f).quality_gate["fail_on"])
      /\ LoadConfig(f).policy.warn_on = AsSignals(Build(f).quality_gate["warn_on"])
  BY DEF LoadConfig
<1>2. <<c, w>> \in AsSignals(Build(f).quality_gate["fail_on"]) <=> <<c, w>> \in DefaultPolicy.fail_on
  BY RuleKept, DefaultRules, SignalsOfMapping, MappingOfSignals DEF Rule
<1>3. <<c, w>> \in AsSignals(Build(f).quality_gate["warn_on"]) <=> <<c, w>> \in DefaultPolicy.warn_on
  BY RuleKept, DefaultRules, SignalsOfMapping, MappingOfSignals DEF Rule
<1> QED
  BY <1>1, <1>2, <1>3

-----------------------------------------------------------------------------
(* The exit codes of assess. *)

LEMMA GateOpens ==
    ASSUME NEW policy, NEW infra, NEW quality, GateStatus(infra, quality, policy) \in {"pass", "warning"}
    PROVE /\ \A s \in quality \cup infra : s \notin policy.fail_on
          /\ \A s \in infra : s \in policy.warn_on
<1> DEFINE levels == {Classify(policy, s) : s \in quality \cup infra}
<1>1. "fail" \notin levels /\ \A s \in infra : Classify(policy, s) # "none"
  BY DEF GateStatus
<1>2. \A s \in quality \cup infra : Classify(policy, s) # "fail"
  BY <1>1
<1> QED
  BY <1>1, <1>2 DEF Classify

(* What the categories say of the evidence of a stage that counts requests. *)
LEMMA HealthOfEvidence ==
    ASSUME IInv, NEW s \in {"functional", "performance"}, NEW c \in evidence[s]
    PROVE /\ evidence[s] = {c} /\ ExecutionCategory(evidence[s]) = ExecutionHealth(c)
          /\ c.attempted \in Nat /\ c.transport \in Nat /\ c.failed \in Nat
          /\ c.transport + c.failed <= c.attempted
          /\ c.breach => s = "performance"
<1>1. PICK e \in Outcomes[s] : evidence[s] = {e}
  BY Stages DEF IInv, ResultsOK
<1>2. c = e /\ evidence[s] = {c}
  BY <1>1
<1>3. (CHOOSE x \in evidence[s] : TRUE) = c
  BY <1>2
<1>4. ExecutionCategory(evidence[s]) = ExecutionHealth(c)
  BY <1>2, <1>3 DEF ExecutionCategory
<1>5. s \in Stage \ {"database"}
  BY Stages
<1> QED
  BY <1>1, <1>2, <1>4, <1>5, CommandLineAssumption DEF CommandLineAssumption

LEMMA ErrorIsAnOutage ==
    ASSUME IInv, gate = "error"
    PROVE \E s \in {"functional", "performance"} : TotalTransportFailure(evidence[s])
<1>1. InfraSignals(category) # {}
  BY DEF gate, GateStatus
<1>2. PICK s \in {"functional", "performance"} : category[s] = "fail"
  BY <1>1 DEF InfraSignals
<1>3. ExecutionCategory(evidence[s]) = "fail"
  BY <1>2 DEF category, PerformanceCategory
<1>4. PICK c : c \in evidence[s]
  BY <1>3 DEF ExecutionCategory
<1>5. ExecutionHealth(c) = "fail" /\ c.attempted \in Nat
  BY <1>3, <1>4, HealthOfEvidence
<1>6. c.attempted > 0 /\ c.transport = c.attempted
  BY <1>5 DEF ExecutionHealth
<1> QED
  BY <1>4, <1>6 DEF TotalTransportFailure

LEMMA GreenIsEarned ==
    ASSUME IInv, at = "conclude", gate \in {"pass", "warning"}
    PROVE /\ \A s \in {"functional", "performance"} :
                ~Mentions(file, s) =>
                    \A c \in evidence[s] :
                        c.transport + c.failed = 0 /\ (c.attempted > 0 => ~c.breach)
          /\ ~Mentions(file, "regression") =>
                \A f \in regression : f \cap DefaultPolicy.fail_on = {}
<1> DEFINE policy == LoadConfig(file).policy
           infra == InfraSignals(category)
           quality == QualitySignals(category, OverallStatus({category[s] : s \in Stage} \cup StaticStatuses),
                                     regression)
<1>1. ~IsConfigurationError(file) /\ ~Crashes(file) /\ Setting = LoadConfig(file)
  BY DEF IInv, ConfiguredOK, Configured, Setting
<1>2. GateStatus(infra, quality, policy) \in {"pass", "warning"}
  BY <1>1 DEF gate
<1> HIDE DEF policy, infra, quality
<1>3. \A s \in quality \cup infra : s \notin policy.fail_on
  BY <1>2, GateOpens
<1>4. \A s \in infra : s \in policy.warn_on
  BY <1>2, GateOpens
<1>5. ASSUME NEW s \in {"functional", "performance"}, ~Mentions(file, s), NEW c \in evidence[s]
      PROVE c.transport + c.failed = 0 /\ (c.attempted > 0 => ~c.breach)
  <2>1. category[s] # "fail"
    <3>1. <<s, "unreachable">> \notin policy.warn_on
      <4>1. <<s, "unreachable">> \notin DefaultPolicy.warn_on
        BY DEF DefaultPolicy
      <4> QED
        BY <1>1, <1>5, <4>1, PolicyKept DEF policy
    <3> QED
      BY <1>4, <3>1 DEF infra, InfraSignals
  <2>2. category[s] # "warning"
    <3>1. WarningSignal[s] \in policy.fail_on
      <4>1. WarningSignal[s] \in DefaultPolicy.fail_on /\ \E w : WarningSignal[s] = <<s, w>>
        BY DEF DefaultPolicy, WarningSignal
      <4> QED
        BY <1>1, <1>5, <4>1, PolicyKept DEF policy
    <3>2. category[s] = "warning" => WarningSignal[s] \in quality
      BY DEF quality, QualitySignals, WarningSignal
    <3> QED
      BY <1>3, <3>1, <3>2
  <2>3. /\ evidence[s] = {c} /\ ExecutionCategory(evidence[s]) = ExecutionHealth(c)
        /\ c.attempted \in Nat /\ c.transport \in Nat /\ c.failed \in Nat
        /\ c.transport + c.failed <= c.attempted
        /\ c.breach => s = "performance"
    BY HealthOfEvidence
  <2>4. ExecutionHealth(c) \notin {"fail", "warning"}
    <3>1. CASE s = "functional"
      BY <2>1, <2>2, <2>3, <3>1 DEF category
    <3>2. CASE s = "performance"
      <4>1. PerformanceCategory(evidence[s]) \notin {"fail", "warning"}
        BY <2>1, <2>2, <3>2 DEF category
      <4> QED
        BY <2>3, <4>1 DEF PerformanceCategory
    <3> QED
      BY <3>1, <3>2
  <2>5. c.transport + c.failed = 0
    BY <2>3, <2>4 DEF ExecutionHealth
  <2>6. ASSUME c.attempted > 0, c.breach PROVE FALSE
    <3>1. ExecutionHealth(c) = "pass"
      BY <2>3, <2>5, <2>6 DEF ExecutionHealth
    <3>2. s = "performance" /\ PerformanceCategory(evidence[s]) = "warning"
      BY <2>3, <2>6, <3>1, Zenon DEF PerformanceCategory
    <3> QED
      BY <2>2, <3>2 DEF category
  <2> QED
    BY <2>5, <2>6
<1>6. ASSUME ~Mentions(file, "regression"), NEW f \in regression, NEW s \in f \cap DefaultPolicy.fail_on
      PROVE FALSE
  <2>1. s \in {"regression", "database", "discovery"} \X STRING
    BY CommandLineAssumption DEF CommandLineAssumption, IInv, ResultsOK
  <2>2. s = <<s[1], s[2]>> /\ s[1] \in {"regression", "database", "discovery"}
    BY <2>1
  <2>3. s[1] = "regression"
    BY <2>2 DEF DefaultPolicy
  <2>4. s \in policy.fail_on
    BY <1>1, <1>6, <2>2, <2>3, PolicyKept DEF policy
  <2>5. s \in quality
    BY DEF quality, QualitySignals
  <2> QED
    BY <1>3, <2>4, <2>5
<1> QED
  BY <1>5, <1>6

LEMMA ResultsStep == IInv /\ Orderly => ResultsOK'
<1> SUFFICES ASSUME IInv, Orderly PROVE ResultsOK'
  OBVIOUS
<1>1. invocation' = invocation /\ file' = file /\ command' = command
  BY Frame
<1>2. exit = {} /\ at # "done"
  BY DEF IInv, PositionOK, Orderly, CheckUsage, ReadConfig, CheckArguments, LoadBaseline, Discover, PassOver,
     Plan, Confirm, Run, RunRefused, Compare, Conclude
<1>3. \A s \in Stage : evidence'[s] = {} \/ \E e \in Outcomes[s] : evidence'[s] = {e}
  <2>1. CASE Run
    <3>1. PICK e \in Outcomes[Current] : evidence' = [evidence EXCEPT ![Current] = {e}]
      BY <2>1 DEF Run
    <3> QED
      BY <3>1 DEF IInv, ToldOK, ResultsOK
  <2>2. CASE ~Run
    <3>1. evidence' = evidence
      BY <2>2 DEF Orderly, CheckUsage, ReadConfig, CheckArguments, LoadBaseline, Discover, PassOver, Plan,
         Confirm, RunRefused, Compare, Conclude, pipelineState
    <3> QED
      BY <3>1 DEF IInv, ResultsOK
  <2> QED
    BY <2>1, <2>2
<1>4. regression' \subseteq RegressionFindings
  <2>1. CASE Compare
    BY <2>1 DEF Compare, IInv, ResultsOK, comparison
  <2>2. CASE ~Compare
    <3>1. regression' = regression
      BY <2>2, Zenon DEF Orderly, CheckUsage, ReadConfig, CheckArguments, LoadBaseline, Discover, PassOver,
         Plan,
         Confirm, Run, RunRefused, Conclude, comparison
    <3> QED
      BY <3>1 DEF IInv, ResultsOK
  <2> QED
    BY <2>1, <2>2
<1>5. CASE Compare
  <2>1. at' = "conclude" /\ exit' = {}
    BY <1>2, <1>5 DEF Compare, Goto
  <2>2. Has("baseline") => baseline' = "unloadable" \/ regression' # {}
    BY <1>5 DEF Compare
  <2> QED
    BY <1>1, <1>3, <1>4, <2>1, <2>2 DEF ResultsOK, AssessExitCode, Finished, Has
<1>6. CASE Conclude
  <2>1. /\ at = "conclude" /\ at' = "done" /\ exit' = {ReturnCode}
        /\ evidence' = evidence /\ baseline' = baseline /\ regression' = regression
    BY <1>6 DEF Conclude, Exit, pipelineState, comparison
  <2>2. SUFFICES ASSUME Assesses PROVE AssessExitCode'
    BY <1>1, <1>3, <1>4, <2>1 DEF ResultsOK, AssessExitCode, Assesses
  <2>3. ReturnCode = IF baseline = "unloadable" THEN 2 ELSE ExitCode[gate]
    BY <2>2 DEF ReturnCode
  <2>4. gate \in {"pass", "warning", "fail", "error"}
    BY DEF gate, GateStatus
  <2>5. ReturnCode = 0 => gate \in {"pass", "warning"} /\ baseline # "unloadable"
    BY <2>3, <2>4 DEF ExitCode
  <2>6. ReturnCode = 3 => gate = "error"
    BY <2>3, <2>4 DEF ExitCode
  <2>7. ReturnCode = 2 => baseline = "unloadable"
    BY <2>3, <2>4 DEF ExitCode
  <2>8. ReturnCode = 0 /\ Has("baseline") => regression # {}
    BY <2>1, <2>2, <2>5 DEF IInv, ResultsOK
  <2> HIDE DEF IInv
  <2>9. exit' = {0} => ReturnCode = 0
    BY <2>1
  <2>10. exit' = {3} => ReturnCode = 3
    BY <2>1
  <2>11. exit' = {2} => ReturnCode = 2
    BY <2>1
  <2> QED
    BY <1>1, <2>1, <2>5, <2>6, <2>7, <2>8, <2>9, <2>10, <2>11, GreenIsEarned, ErrorIsAnOutage
       DEF AssessExitCode, ExitsWith, Has, TotalTransportFailure
<1>7. CASE ~Compare /\ ~Conclude
  <2>1. at' = "conclude" => ~Assesses
    <3>1. CASE at \in InStage
      BY <3>1, <1>2, Leaves, Advances DEF IInv, PositionOK, Exit, Assesses, InPipeline, Pipelines
    <3>2. CASE at \notin InStage
      BY <1>7, <3>2, Elsewhere DEF CheckUsage, ReadConfig, CheckArguments, LoadBaseline, Discover,
         Goto, Exit, Die
    <3> QED
      BY <3>1, <3>2
  <2>2. Assesses /\ exit' # {} => traffic' = {} \/ exit' = {1}
    <3>1. CASE at \in InStage
      BY <3>1, <1>2, Leaves, Advances DEF IInv, PositionOK, Exit, Assesses, InPipeline, Pipelines
    <3>2. CASE at \notin InStage
      <4>1. traffic' = traffic
        BY <3>2, Elsewhere DEF pipelineState
      <4>2. traffic = {}
        BY <1>7, <3>2, Elsewhere DEF CheckUsage, ReadConfig, CheckArguments, LoadBaseline,
           Discover, IInv, PositionOK, Preparing
      <4> QED
        BY <4>1, <4>2
    <3> QED
      BY <3>1, <3>2
  <2>3. exit' = {3} => ~Assesses
    <3>1. CASE at \in InStage
      BY <3>1, <1>2, Leaves, Advances DEF IInv, PositionOK, Exit, Assesses, InPipeline, Pipelines
    <3>2. CASE at \notin InStage
      <4>1. exit' \in {{}, {0}, {1}, {2}}
        BY <1>2, <1>7, <3>2, Elsewhere DEF CheckUsage, ReadConfig, CheckArguments, LoadBaseline, Discover,
           Goto, Exit, Die
      <4>2. {3} # {} /\ {3} # {0} /\ {3} # {1} /\ {3} # {2}
        OBVIOUS
      <4> QED
        BY <4>1, <4>2
    <3> QED
      BY <3>1, <3>2
  <2>4. /\ exit' = {0} => exit' # {} /\ exit' # {1}
        /\ exit' = {2} => exit' # {} /\ exit' # {1}
    OBVIOUS
  <2>5. AssessExitCode'
    BY <1>1, <2>2, <2>3, <2>4 DEF AssessExitCode, ExitsWith, Finished, Assesses
  <2> QED
    BY <1>1, <1>3, <1>4, <2>1, <2>5 DEF ResultsOK, Assesses
<1> QED
  BY <1>5, <1>6, <1>7

-----------------------------------------------------------------------------
(* An exception ends the command wherever it is, and changes nothing but what
   went out before it. *)
LEMMA BreakEnds ==
    ASSUME Breaks
    PROVE /\ at # "done" /\ at' = "done" /\ raised' /\ exit' \in {{1}, {130}}
          /\ UNCHANGED <<invocation, tty, file, config, stage, consented, runs, evidence, reason,
                        baseline, regression>>
          /\ traffic' = traffic \/ (at = "run" /\ traffic' = traffic \cup {Current})
          /\ written' => at = "conclude" \/ (at = "run" /\ command = "scenario_run")
<1>1. PICK code \in {1, 130} : Break(code) /\ at # "done"
  BY DEF Breaks, RunRaises, WriteFails, Interrupt, INTERRUPTED
<1>2. at' = "done" /\ raised' = TRUE /\ exit' = {code}
  BY <1>1 DEF Break, Die
<1>3. UNCHANGED <<invocation, tty, file, config, stage, consented, runs, evidence, reason,
                  baseline, regression>>
  BY <1>1 DEF Break, given, comparison
<1>4. traffic' = traffic \/ (at = "run" /\ traffic' = traffic \cup {Current})
  BY <1>1 DEF Break
<1>5. written' => at = "conclude" \/ (at = "run" /\ command = "scenario_run")
  BY <1>1 DEF Break
<1> QED
  BY <1>1, <1>2, <1>3, <1>4, <1>5

LEMMA BreakKeeps == IInv /\ Breaks => IInv'
<1> SUFFICES ASSUME IInv, Breaks PROVE IInv'
  OBVIOUS
<1>1. /\ at' = "done" /\ raised' /\ exit' \in {{1}, {130}}
      /\ UNCHANGED <<invocation, tty, file, config, stage, consented, runs, evidence, reason,
                    baseline, regression>>
  BY BreakEnds
<1>2. command' = command /\ (InPipeline' <=> InPipeline) /\ \A f : Has(f)' <=> Has(f)
  BY <1>1 DEF command, InPipeline, Has
<1>3. PositionOK'
  BY <1>1, <1>2 DEF IInv, PositionOK, Preparing, InStage
<1>4. ConfiguredOK'
  BY <1>1 DEF IInv, ConfiguredOK, Configured
<1>5. ConsentOK'
  <2>1. CASE traffic' = traffic
    BY <1>1, <1>2, <2>1 DEF IInv, ConsentOK, ConsentBeforeTraffic, InStage
  <2>2. CASE at = "run" /\ traffic' = traffic \cup {Current}
    <3>1. Permitted /\ Agreed /\ ConsentBeforeTraffic
      BY <2>2 DEF IInv, ConsentOK
    <3>2. ConsentBeforeTraffic'
      BY <1>1, <1>2, <2>2, <3>1 DEF ConsentBeforeTraffic, Permitted, Agreed
    <3> QED
      BY <1>1, <3>2 DEF ConsentOK, InStage
  <2> QED
    BY <2>1, <2>2, BreakEnds
<1>6. RetryOK'
  BY <1>1 DEF RetryOK
<1>7. ~ExitsWith(0)' /\ ~ExitsWith(2)' /\ ~ExitsWith(3)'
  <2>1. \A c \in {0, 2, 3} : {c} # {1} /\ {c} # {130}
    OBVIOUS
  <2> QED
    BY <1>1, <2>1 DEF ExitsWith
<1>8. ToldOK'
  <2>1. written' /\ InPipeline => \A s \in Stage : Told(s)
    BY BreakEnds DEF IInv, ToldOK, InPipeline, Pipelines
  <2>2. NothingRunsUntold'
    BY <1>1, <1>2, <1>7, <2>1 DEF NothingRunsUntold, Told
  <2> QED
    BY <1>1, <2>2 DEF IInv, ToldOK, InStage
<1>9. ResultsOK'
  BY <1>1, <1>7 DEF IInv, ResultsOK, AssessExitCode
<1> QED
  BY <1>3, <1>4, <1>5, <1>6, <1>8, <1>9 DEF IInv

-----------------------------------------------------------------------------
(* The strengthened invariant holds in every reachable state. *)
THEOREM CommandInvariant == Spec => []IInv
<1>1. IInv /\ [Next]_cliVars => IInv'
  <2>1. CASE Orderly
    BY <2>1, PositionStep, ConfiguredStep, ConsentStep, RetryStep, ToldStep, ResultsStep DEF IInv
  <2>3. CASE Breaks
    BY <2>3, BreakKeeps
  <2>2. CASE UNCHANGED cliVars
    BY <2>2 DEF cliVars, IInv, PositionOK, ConfiguredOK, ConsentOK, RetryOK, ToldOK, ResultsOK,
       AssessExitCode, Assesses, ConsentBeforeTraffic,
       NothingRunsUntold, Permitted, Agreed, Told, Current, command, InPipeline, Has, Finished, ExitsWith,
       TotalTransportFailure
  <2> QED
    BY <2>1, <2>2, <2>3, OrderlyOrNot
<1> QED
  BY <1>1, InitInvariant, PTL DEF Spec

(* Whatever the invocation, no load test, no scenario and no browser of a
   pipeline without --yes or a yes to its own prompt, and no dry run that sends
   anything but the queries of an explicit database profile.  The command
   browser test is not covered: it never asks. *)
THEOREM ConsentIsAsked == Spec => []ConsentBeforeTraffic
<1>1. IInv => ConsentBeforeTraffic
  BY DEF IInv, ConsentOK
<1> QED
  BY <1>1, CommandInvariant, PTL

(* A command that sent something tells it, every stage with its result or its
   reason, or an exception ended it, and then with a code that is none of 0, 2
   and 3. *)
THEOREM EverythingIsTold == Spec => []NothingRunsUntold
<1>1. IInv => NothingRunsUntold
  BY DEF IInv, ToldOK
<1> QED
  BY <1>1, CommandInvariant, PTL

(* Whatever retry count the document asks for, tests run again at most twice
   and after a total outage only. *)
THEOREM OnlyOutagesAreRetried == Spec => RetriesOnlyOutages
<1> DEFINE Again ==
        runs' > runs /\ runs > 0 =>
          /\ InPipeline
          /\ TotalTransportFailure(evidence["functional"])
          /\ runs' <= 1 + MAX_CI_RETRY_COUNT
<1>1. IInv /\ [Next]_cliVars => [Again]_cliVars
  <2> SUFFICES ASSUME IInv, Next, runs' > runs, runs > 0 PROVE Again
    OBVIOUS
  <2>1. runs \in Nat
    BY DEF IInv, PositionOK
  <2>2. Run /\ Current = "functional" /\ runs' = runs + 1
    <3>1. runs' # runs
      BY <2>1
    <3>2. Run
      BY <3>1, OrderlyOrNot, BreakEnds DEF Orderly, CheckUsage, ReadConfig, CheckArguments, LoadBaseline,
         Discover, PassOver, Plan, Confirm, RunRefused, Compare, Conclude, pipelineState
    <3> QED
      BY <3>1, <3>2 DEF Run
  <2>3. at = "run"
    BY <2>2 DEF Run
  <2> QED
    BY <2>1, <2>2, <2>3 DEF IInv, RetryOK, MAX_CI_RETRY_COUNT
<1> QED
  BY <1>1, CommandInvariant, PTL DEF Spec, RetriesOnlyOutages

(* Whatever the policy of the document: exit code 0 is clean in every category
   that it does not redefine, 3 is an outage, 2 a mistake that was noticed
   before anything was sent or the baseline. *)
THEOREM ExitCodeIsTrue == Spec => []AssessExitCode
<1>1. IInv => AssessExitCode
  BY DEF IInv, ResultsOK
<1> QED
  BY <1>1, CommandInvariant, PTL
=============================================================================
