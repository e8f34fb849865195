------------------------- MODULE ScenarioRunnerProofs -------------------------
(***************************************************************************)
(* Theorems about ScenarioRunner, for every set of scenarios, every value  *)
(* of the timeouts and every behaviour of the browser.                     *)
(***************************************************************************)
EXTENDS ScenarioRunner, TLAPS

Opening == {"start", "policy", "driver", "started", "browser", "launched", "context", "created",
            "page"}

(* What is open and what is guarded follow from where the session is; while
   it is being left, the driver is running without a guard only if its own
   close was missed. *)
SessionInv ==
    /\ pc \in Opening \cup InStep \cup {"loop", "closing", "done"}
    /\ opened \in 0..3 /\ guarded \in 0..3
    /\ pc \in {"start", "policy", "driver"} => opened = 0 /\ guarded = 0
    /\ pc = "started" => opened = 1 /\ guarded = 0
    /\ pc = "browser" => opened = 1 /\ guarded = 1
    /\ pc = "launched" => opened = 2 /\ guarded = 1
    /\ pc = "context" => opened = 2 /\ guarded = 2
    /\ pc = "created" => opened = 3 /\ guarded = 2
    /\ pc \in InStep \cup {"page", "loop"} => opened = 3 /\ guarded = 3
    /\ pc = "done" => guarded = 0
    /\ pc \in {"closing", "done"} /\ guarded = 0 /\ opened >= 1 => 1 \in missed

LEMMA SessionInit == Init => SessionInv
  BY DEF Init, SessionInv, Opening, InStep

LEMMA SessionStep == SessionInv /\ [Next]_scenarioVars => SessionInv'
<1> SUFFICES ASSUME SessionInv, [Next]_scenarioVars PROVE SessionInv'
  OBVIOUS
<1> USE DEF SessionInv, Opening, InStep, Leave, session
<1>1. CASE UNCHANGED scenarioVars
  BY <1>1 DEF scenarioVars
<1>2. CASE Start \/ CheckTarget
  <2>1. /\ pc \in {"start", "policy"} /\ pc' \in {"closing", "done", "policy", "driver"}
        /\ UNCHANGED <<opened, guarded>>
    <3>1. CASE Start
      BY <3>1 DEF Start
    <3>2. CASE CheckTarget
      BY <3>2 DEF CheckTarget
    <3> QED
      BY <1>2, <3>1, <3>2
  <2> QED
    BY <2>1
<1>3. CASE StartDriver \/ Launch \/ NewContext
  BY <1>3 DEF StartDriver, Launch, NewContext, Opens
<1>4. CASE EnterTry \/ NewPage
  BY <1>4 DEF EnterTry, NewPage, Guards
<1>5. CASE Skip \/ OutOfTime \/ StepsDone
  BY <1>5 DEF Skip, OutOfTime, StepsDone, Record
<1>6. CASE BeginStep
  <2>1. pc = "loop" /\ pc' \in {"closing", "shot", "match", "call"} /\ UNCHANGED <<opened, guarded>>
    BY <1>6 DEF BeginStep
  <2> QED
    BY <2>1
<1>7. CASE Match \/ Call
  BY <1>7 DEF Match, Call, Goes, ActionFails
<1>8. CASE Screenshot
  BY <1>8 DEF Screenshot, Record
<1>9. CASE ReadBody
  BY <1>9 DEF ReadBody, Resolve, GoesOn, ObservationFails, Record
<1>10. CASE ReadTitle
  BY <1>10 DEF ReadTitle, GoesOn, ObservationFails, Verdict, Record
<1>11. CASE ReadElement
  BY <1>11 DEF ReadElement, Resolve, ObservationFails, Verdict, Record
<1>12. CASE Interrupt
  BY <1>12 DEF Interrupt
<1>13. CASE Close
  <2>1. /\ pc = "closing" /\ pc' = "closing" /\ guarded \in 1..3 /\ guarded' = guarded - 1
        /\ opened' \in {opened, Lesser(opened, guarded - 1)}
        /\ opened' = Lesser(opened, guarded - 1) \/ missed' = missed \cup {guarded}
    BY <1>13 DEF Close
  <2>2. Lesser(opened, guarded - 1) \in 0..(guarded - 1)
    BY <2>1 DEF Lesser
  <2> QED
    BY <2>1, <2>2
<1>14. CASE Return \/ Done
  BY <1>14 DEF Return, Done, scenarioVars
<1> QED
  BY <1>1, <1>2, <1>3, <1>4, <1>5, <1>6, <1>7, <1>8, <1>9, <1>10, <1>11, <1>12, <1>13, <1>14 DEF Next

LEMMA SessionInvariant == Spec => []SessionInv
  BY SessionInit, SessionStep, PTL DEF Spec

(* Whatever fails, raises, is interrupted or cannot be closed, at any layer:
   steps run only in a session that will be closed, and in the end something
   is left running only if the close of the driver itself was missed. *)
THEOREM SessionIsReleased == Spec => []SessionReleased
<1>1. SessionInv => SessionReleased
  BY DEF SessionInv, SessionReleased, InStep, Driver, Context
<1> QED
  BY <1>1, SessionInvariant, PTL

-----------------------------------------------------------------------------
(* The report. *)

Kinds == {"passed", "failed", "error", "skipped"}

OrderOfResults ==
    /\ \A i, j \in DOMAIN results : i < j /\ results[i] # "passed" => results[j] = "skipped"
    /\ \A i \in DOMAIN results : results[i] = "skipped" =>
          i \notin executed /\ \E j \in 1..(i - 1) : results[j] \in {"failed", "error"}

StatusTellsTheRun ==
    /\ status = "pass" => /\ Len(results) = Len(scenario.steps)
                          /\ \A i \in DOMAIN results : results[i] = "passed"
    /\ status \in {"fail", "error"} =>
          \E i \in DOMAIN results : results[i] \in {"failed", "error"}
    /\ status = "not_assessed" => executed = {}

(* The position bounds what was executed: nothing before the session is
   ready, only recorded steps in the loop, the current one as well in a step,
   which raised only on its way to the screenshot. *)
ExecutionInv ==
    /\ results \in Seq(Kinds)
    /\ Len(scenario.steps) \in Nat /\ Len(results) <= Len(scenario.steps)
    /\ executed \subseteq 1..Index
    /\ trouble \subseteq executed
    /\ pc \in Opening => executed = {}
    /\ pc = "loop" => Index \notin executed
    /\ pc \in InStep =>
          /\ Index <= Len(scenario.steps) /\ Index \in executed /\ ~Stopped
          /\ Index \in trouble <=> pc = "shot" /\ outcome = "raised"
    /\ pc \in {"match", "call"} => outcome = "ok"
    /\ pc = "element" => Step.action \in ElementAssertions

LeavingInv ==
    /\ pc # "done" => status = "none"
    /\ pc \notin {"closing", "done"} => raised = "none"
    /\ pc = "closing" /\ raised = "none" => Len(results) = Len(scenario.steps)
    /\ raised \in {"unavailable", "target"} => executed = {}

ReportInv ==
    /\ ExecutionInv
    /\ LeavingInv
    /\ FailureIsAnAssertion
    /\ OrderOfResults
    /\ StatusTellsTheRun

LEMMA AppendFacts ==
  ASSUME results \in Seq(Kinds), NEW r \in Kinds, results' = Append(results, r)
  PROVE  /\ results' \in Seq(Kinds)
         /\ Len(results') = Len(results) + 1 /\ Len(results) \in Nat
         /\ DOMAIN results = 1..Len(results) /\ DOMAIN results' = 1..Index
         /\ \A i \in 1..Len(results) : results'[i] = results[i]
         /\ results'[Index] = r
  BY DEF Index, Kinds

(* Recording a result that agrees with what happened keeps the invariant. *)
LEMMA RecordKeepsReport ==
  ASSUME ReportInv, pc \in InStep \cup {"loop"}, Index <= Len(scenario.steps),
         NEW r \in Kinds, Record(r), r = "skipped" <=> Stopped,
         UNCHANGED <<scenario, executed, raised, status>>,
         trouble' \in {trouble, trouble \cup {Index}}, trouble' \subseteq executed,
         Index \in trouble' => r = "error",
         r = "error" => Index \in trouble' \/ Index \notin executed,
         r = "failed" => Index \in executed /\ IsAssertion(Step)
  PROVE  ReportInv'
<1>1. /\ results \in Seq(Kinds) /\ results' = Append(results, r) /\ pc' = "loop"
      /\ Len(scenario.steps) \in Nat
  BY DEF ReportInv, ExecutionInv, Record
<1>2. /\ results' \in Seq(Kinds)
      /\ Len(results') = Len(results) + 1 /\ Len(results) \in Nat
      /\ DOMAIN results = 1..Len(results) /\ DOMAIN results' = 1..Index
      /\ \A i \in 1..Len(results) : results'[i] = results[i]
      /\ results'[Index] = r
  BY <1>1, AppendFacts
<1>3. Index = Len(results) + 1 /\ Index' = Len(results) + 2
  BY <1>2 DEF Index
<1>4. ExecutionInv'
  BY <1>1, <1>2, <1>3 DEF ReportInv, ExecutionInv, Opening, InStep
<1>5. LeavingInv'
  BY <1>1 DEF ReportInv, LeavingInv, InStep
<1>6. FailureIsAnAssertion'
  <2> SUFFICES ASSUME NEW i \in 1..Index
               PROVE  /\ i \in trouble' => results'[i] = "error"
                      /\ results'[i] = "error" => i \in trouble' \/ i \notin executed
                      /\ results'[i] = "failed" => i \in executed /\ IsAssertion(scenario.steps[i])
    BY <1>2 DEF FailureIsAnAssertion, IsAssertion
  <2>1. CASE i = Index
    BY <1>2, <2>1 DEF Step
  <2>2. CASE i \in 1..Len(results)
    BY <1>2, <1>3, <2>2 DEF ReportInv, FailureIsAnAssertion
  <2> QED
    BY <1>2, <1>3, <2>1, <2>2
<1>7. OrderOfResults'
  <2>1. ASSUME NEW i \in 1..Index, NEW j \in 1..Index, i < j, results'[i] # "passed"
        PROVE  results'[j] = "skipped"
    <3>1. i \in 1..Len(results) /\ results[i] # "passed"
      BY <1>2, <1>3, <2>1
    <3>2. CASE j = Index
      BY <1>2, <3>1, <3>2 DEF Stopped
    <3>3. CASE j \in 1..Len(results)
      BY <1>2, <2>1, <3>1, <3>3 DEF ReportInv, OrderOfResults
    <3> QED
      BY <1>2, <1>3, <3>2, <3>3
  <2>2. ASSUME NEW i \in 1..Index, results'[i] = "skipped"
        PROVE  i \notin executed /\ \E j \in 1..(i - 1) : results'[j] \in {"failed", "error"}
    <3>1. CASE i \in 1..Len(results)
      <4>1. PICK j \in 1..(i - 1) : results[j] \in {"failed", "error"}
        BY <1>2, <2>2, <3>1 DEF ReportInv, OrderOfResults
      <4>2. j \in 1..Len(results)
        BY <1>2, <3>1
      <4> QED
        BY <1>2, <2>2, <3>1, <4>1, <4>2 DEF ReportInv, OrderOfResults
    <3>2. CASE i = Index
      <4>1. Stopped /\ r = "skipped"
        BY <1>2, <2>2, <3>2
      <4>2. i \notin executed
        BY <3>2, <4>1 DEF ReportInv, ExecutionInv
      <4>3. PICK j \in 1..Len(results) : results[j] # "passed"
        BY <1>2, <4>1 DEF Stopped
      <4>4. \E k \in 1..Len(results) : results[k] \in {"failed", "error"}
        <5>1. CASE results[j] = "skipped"
          <6>1. PICK k \in 1..(j - 1) : results[k] \in {"failed", "error"}
            BY <1>2, <5>1 DEF ReportInv, OrderOfResults
          <6> QED
            BY <1>2, <6>1
        <5>2. CASE results[j] # "skipped"
          BY <1>1, <1>2, <4>3, <5>2 DEF Kinds
        <5> QED
          BY <5>1, <5>2
      <4> QED
        BY <1>2, <1>3, <3>2, <4>2, <4>4
    <3> QED
      BY <1>2, <1>3, <3>1, <3>2
  <2> QED
    BY <1>2, <2>1, <2>2 DEF OrderOfResults
<1>8. StatusTellsTheRun'
  BY DEF ReportInv, LeavingInv, StatusTellsTheRun, InStep
<1> QED
  BY <1>4, <1>5, <1>6, <1>7, <1>8 DEF ReportInv

(* Moving on without recording anything. *)
LEMMA MoveKeepsReport ==
  ASSUME ReportInv, UNCHANGED <<scenario, results, executed>>,
         ExecutionInv', LeavingInv', StatusTellsTheRun',
         trouble \subseteq trouble', \A i \in DOMAIN results : i \in trouble' => i \in trouble
  PROVE  ReportInv'
<1>1. FailureIsAnAssertion'
  BY DEF ReportInv, FailureIsAnAssertion, IsAssertion
<1>2. OrderOfResults'
  BY DEF ReportInv, OrderOfResults
<1> QED
  BY <1>1, <1>2 DEF ReportInv

LEMMA ReportInit == Init => ReportInv
<1> SUFFICES ASSUME Init PROVE ReportInv
  OBVIOUS
<1>1. Len(scenario.steps) \in Nat
  BY CandidatesAssumption DEF Init
<1>2. results = <<>> /\ results \in Seq(Kinds) /\ Len(results) = 0 /\ DOMAIN results = {}
  BY DEF Init
<1>3. ExecutionInv
  BY <1>1, <1>2 DEF Init, ExecutionInv, Index, InStep
<1> QED
  BY <1>2, <1>3 DEF Init, ReportInv, LeavingInv, FailureIsAnAssertion, OrderOfResults,
                    StatusTellsTheRun

LEMMA ReportStep == SessionInv /\ ReportInv /\ [Next]_scenarioVars => ReportInv'
<1> SUFFICES ASSUME SessionInv, ReportInv, [Next]_scenarioVars PROVE ReportInv'
  OBVIOUS
<1>0. /\ results \in Seq(Kinds) /\ Len(results) \in Nat /\ DOMAIN results = 1..Len(results)
      /\ Len(scenario.steps) \in Nat /\ Len(results) <= Len(scenario.steps)
      /\ Index = Len(results) + 1
  BY DEF ReportInv, ExecutionInv, Index
<1>00. trouble \subseteq executed /\ executed \subseteq 1..Index
  BY DEF ReportInv, ExecutionInv
<1>1. CASE UNCHANGED scenarioVars
  BY <1>1 DEF scenarioVars, arguments, step, report, ReportInv, ExecutionInv, LeavingInv,
              FailureIsAnAssertion, OrderOfResults, StatusTellsTheRun, Index, Step, Stopped,
              IsAssertion
<1>2. CASE \/ Start \/ CheckTarget \/ StartDriver \/ Launch \/ NewContext \/ EnterTry \/ NewPage
           \/ Interrupt
  <2>1. /\ UNCHANGED <<scenario, results, executed, trouble>>
        /\ pc \in Opening \/ pc \in InStep \cup {"loop"}
    BY <1>2 DEF Start, CheckTarget, StartDriver, Launch, NewContext, EnterTry, NewPage, Interrupt,
                arguments, report, Opening, InStep, SessionInv
  <2>2. \/ pc \in Opening /\ pc' \in Opening \cup {"loop"} /\ UNCHANGED <<raised, status>>
        \/ pc \in Opening /\ pc' = "done" /\ status' = "not_assessed" /\ UNCHANGED raised
        \/ /\ pc \in Opening /\ pc' = "closing" /\ UNCHANGED status
           /\ raised' \in {"unavailable", "target", "crash", "type error"}
        \/ pc' = "closing" /\ raised' = "interrupt" /\ UNCHANGED status
    BY <1>2 DEF Start, CheckTarget, StartDriver, Launch, NewContext, EnterTry, NewPage, Interrupt,
                Opening, Leave, Opens, Guards
  <2>3. pc \notin {"done", "closing"}
    BY <2>1 DEF Opening, InStep
  <2>4. ExecutionInv'
    BY <2>1, <2>2, <1>0 DEF ReportInv, ExecutionInv, Opening, InStep, Index
  <2>5. LeavingInv'
    BY <2>1, <2>2, <2>3 DEF ReportInv, LeavingInv, ExecutionInv, Opening
  <2>6. StatusTellsTheRun'
    BY <2>1, <2>2, <2>3 DEF ReportInv, LeavingInv, ExecutionInv, StatusTellsTheRun
  <2> QED
    BY <2>1, <2>4, <2>5, <2>6, MoveKeepsReport
<1>3. CASE Skip \/ OutOfTime
  <2> DEFINE r == IF Stopped THEN "skipped" ELSE "error"
  <2>1. Record(r) /\ UNCHANGED <<scenario, executed, trouble, raised, status>>
        /\ pc = "loop" /\ Index <= Len(scenario.steps)
    BY <1>3 DEF Skip, OutOfTime, arguments
  <2>2. r \in Kinds /\ (r = "skipped" <=> Stopped) /\ r # "failed"
    BY DEF Kinds
  <2>3. Index \notin executed
    BY <2>1 DEF ReportInv, ExecutionInv
  <2> HIDE DEF r
  <2> QED
    BY <2>1, <2>2, <2>3, <1>00, RecordKeepsReport
<1>4. CASE BeginStep
  <2>1. /\ UNCHANGED <<scenario, results, trouble, status>>
        /\ pc = "loop" /\ ~Stopped /\ Index <= Len(scenario.steps)
    BY <1>4 DEF BeginStep, arguments
  <2>2. CASE pc' = "closing" /\ raised' = "type error" /\ UNCHANGED executed
    <3>1. ExecutionInv'
      BY <2>1, <2>2 DEF ReportInv, ExecutionInv, Opening, InStep, Index
    <3>2. LeavingInv' /\ StatusTellsTheRun'
      BY <2>1, <2>2 DEF ReportInv, LeavingInv, StatusTellsTheRun
    <3> QED
      BY <2>1, <2>2, <3>1, <3>2, MoveKeepsReport
  <2>3. CASE /\ outcome' = "ok" /\ executed' = executed \cup {Index}
             /\ pc' \in {"shot", "match", "call"} /\ UNCHANGED raised
    <3>1. Index \notin executed
      BY <2>1 DEF ReportInv, ExecutionInv
    <3>2. ExecutionInv'
      <4>1. Index' = Index /\ Step' = Step /\ ~Stopped' /\ Index \in 1..Index
        BY <1>0, <2>1 DEF Index, Step, Stopped
      <4>2. Index \in executed' /\ Index \notin trouble' /\ trouble' \subseteq executed'
        BY <1>00, <2>1, <2>3, <3>1
      <4>3. executed' \subseteq 1..Index
        BY <1>00, <2>3, <4>1
      <4> QED
        BY <1>0, <2>1, <2>3, <4>1, <4>2, <4>3 DEF ExecutionInv, Opening, InStep
    <3>3. LeavingInv' /\ StatusTellsTheRun'
      BY <2>1, <2>3 DEF ReportInv, LeavingInv, StatusTellsTheRun
    <3>4. FailureIsAnAssertion'
      BY <1>0, <2>1, <2>3 DEF ReportInv, FailureIsAnAssertion, IsAssertion
    <3>5. OrderOfResults'
      BY <1>0, <2>1, <2>3 DEF ReportInv, OrderOfResults
    <3> QED
      BY <3>2, <3>3, <3>4, <3>5 DEF ReportInv
  <2> QED
    BY <1>4, <2>2, <2>3 DEF BeginStep, Leave
<1>5. CASE StepsDone \/ Close
  <2>1. /\ UNCHANGED <<scenario, results, executed, trouble, status>> /\ pc' = "closing"
        /\ \/ pc = "loop" /\ Index > Len(scenario.steps) /\ UNCHANGED raised
           \/ pc = "closing" /\ raised' \in {raised, "crash", "interrupt"}
    BY <1>5 DEF StepsDone, Close, arguments, report
  <2>2. ExecutionInv'
    BY <2>1 DEF ReportInv, ExecutionInv, Opening, InStep, Index
  <2>3. LeavingInv' /\ StatusTellsTheRun'
    BY <1>0, <2>1 DEF ReportInv, LeavingInv, StatusTellsTheRun
  <2> QED
    BY <2>1, <2>2, <2>3, MoveKeepsReport
<1>6. CASE Match \/ Call
  <2>1. /\ UNCHANGED <<scenario, results, executed, raised, status>>
        /\ pc \in {"match", "call"}
        /\ \/ outcome' = "raised" /\ trouble' = trouble \cup {Index} /\ pc' = "shot"
           \/ pc' = "call" /\ UNCHANGED <<outcome, trouble>>
           \/ pc = "call" /\ pc' = "shot" /\ UNCHANGED <<outcome, trouble>>
    BY <1>6 DEF Match, Call, Goes, ActionFails, arguments
  <2>2. Index' = Index /\ Step' = Step /\ Stopped' = Stopped /\ pc \in InStep /\ pc' \in InStep
    BY <2>1 DEF Index, Step, Stopped, InStep
  <2>3. Index \in executed /\ Index \notin trouble /\ outcome = "ok"
    BY <2>1, <2>2 DEF ReportInv, ExecutionInv
  <2>4. ExecutionInv'
    BY <1>00, <2>1, <2>2, <2>3 DEF ReportInv, ExecutionInv, Opening
  <2>5. LeavingInv' /\ StatusTellsTheRun'
    BY <2>1 DEF ReportInv, LeavingInv, StatusTellsTheRun
  <2>6. \A i \in DOMAIN results : i \in trouble' => i \in trouble
    BY <1>0, <2>1
  <2> QED
    BY <2>1, <2>4, <2>5, <2>6, MoveKeepsReport
<1>7. CASE Screenshot
  <2>1. UNCHANGED <<scenario, executed, trouble, raised, status>> /\ pc = "shot" /\ outcome' = outcome
    BY <1>7 DEF Screenshot, arguments, step
  <2>2. Index \in executed /\ ~Stopped /\ Index <= Len(scenario.steps)
        /\ (Index \in trouble <=> outcome = "raised")
    BY <2>1 DEF ReportInv, ExecutionInv, InStep
  <2>3. CASE outcome = "raised" /\ Record("error")
    <3>1. "error" \in Kinds
      BY DEF Kinds
    <3> QED
      BY <1>00, <2>1, <2>2, <2>3, <3>1, RecordKeepsReport DEF InStep
  <2>4. CASE outcome # "raised" /\ pc' = "body" /\ UNCHANGED results
    <3>1. ExecutionInv'
      BY <2>1, <2>2, <2>4 DEF ReportInv, ExecutionInv, Opening, InStep, Index, Stopped
    <3>2. LeavingInv' /\ StatusTellsTheRun'
      BY <2>1, <2>4 DEF ReportInv, LeavingInv, StatusTellsTheRun
    <3> QED
      BY <2>1, <2>4, <3>1, <3>2, MoveKeepsReport
  <2> QED
    BY <1>7, <2>3, <2>4 DEF Screenshot
<1>8. CASE ReadBody \/ ReadTitle \/ ReadElement
  <2>1. UNCHANGED <<scenario, executed, raised, status>> /\ pc \in {"body", "title", "element"}
    BY <1>8 DEF ReadBody, ReadTitle, ReadElement, arguments
  <2>2. Index \in executed /\ ~Stopped /\ Index <= Len(scenario.steps) /\ Index \notin trouble
    BY <2>1 DEF ReportInv, ExecutionInv, InStep
  <2>3. \/ ObservationFails
        \/ pc = "body" /\ pc' = "title" /\ UNCHANGED <<results, trouble>>
        \/ /\ pc = "title" /\ pc' = "element" /\ UNCHANGED <<results, trouble>>
           /\ Step.action \in ElementAssertions
        \/ Record("passed") /\ UNCHANGED trouble
        \/ IsAssertion(Step) /\ Record("failed") /\ UNCHANGED trouble
    <3>1. CASE ReadBody
      BY <3>1 DEF ReadBody, Resolve, GoesOn
    <3>2. CASE ReadTitle
      BY <3>2 DEF ReadTitle, GoesOn, Verdict, IsAssertion
    <3>3. CASE ReadElement
      <4>1. IsAssertion(Step)
        BY <3>3 DEF ReadElement, ReportInv, ExecutionInv, IsAssertion
      <4> QED
        BY <3>3, <4>1 DEF ReadElement, Resolve, Verdict
    <3> QED
      BY <1>8, <3>1, <3>2, <3>3
  <2>4. {"passed", "failed", "error"} \subseteq Kinds /\ pc \in InStep
    BY <2>1 DEF Kinds, InStep
  <2>5. CASE ObservationFails
    BY <1>00, <2>1, <2>2, <2>4, <2>5, RecordKeepsReport DEF ObservationFails
  <2>6. CASE Record("passed") /\ UNCHANGED trouble
    BY <1>00, <2>1, <2>2, <2>4, <2>6, RecordKeepsReport
  <2>7. CASE IsAssertion(Step) /\ Record("failed") /\ UNCHANGED trouble
    BY <1>00, <2>1, <2>2, <2>4, <2>7, RecordKeepsReport
  <2>8. CASE /\ UNCHANGED <<results, trouble>> /\ pc' \in {"title", "element"}
             /\ pc' = "element" => Step.action \in ElementAssertions
    <3>1. Index' = Index /\ Step' = Step /\ Stopped' = Stopped
      BY <2>1, <2>8 DEF Index, Step, Stopped
    <3>2. ExecutionInv'
      BY <2>1, <2>2, <2>8, <3>1 DEF ReportInv, ExecutionInv, Opening, InStep
    <3>3. LeavingInv' /\ StatusTellsTheRun'
      BY <2>1, <2>8 DEF ReportInv, LeavingInv, StatusTellsTheRun
    <3> QED
      BY <2>1, <2>8, <3>2, <3>3, MoveKeepsReport
  <2> QED
    BY <2>3, <2>5, <2>6, <2>7, <2>8
<1>9. CASE Return \/ Done
  <2>1. CASE Return
    <3>1. UNCHANGED <<scenario, results, executed, trouble, raised>> /\ pc = "closing" /\ pc' = "done"
      BY <2>1 DEF Return, arguments, report
    <3>2. ExecutionInv'
      BY <3>1 DEF ReportInv, ExecutionInv, Opening, InStep, Index
    <3>3. LeavingInv'
      BY <3>1 DEF ReportInv, LeavingInv
    <3>4. StatusTellsTheRun'
      <4>1. CASE raised = "none" /\ status' = OverallStatus
        <5>1. Len(results) = Len(scenario.steps)
          BY <3>1, <4>1 DEF ReportInv, LeavingInv
        <5>2. \A i \in DOMAIN results : results[i] \in Kinds
          BY <1>0
        <5>3. ASSUME NEW i \in DOMAIN results, results[i] = "skipped"
              PROVE  \E j \in DOMAIN results : results[j] \in {"failed", "error"}
          BY <1>0, <5>3 DEF ReportInv, OrderOfResults
        <5> QED
          BY <3>1, <4>1, <5>1, <5>2, <5>3 DEF StatusTellsTheRun, OverallStatus, Kinds
      <4>2. CASE raised \in {"unavailable", "target"} /\ status' = "not_assessed"
        BY <3>1, <4>2 DEF ReportInv, LeavingInv, StatusTellsTheRun
      <4>3. CASE status' = "raised"
        BY <4>3 DEF StatusTellsTheRun
      <4> QED
        BY <2>1, <4>1, <4>2, <4>3 DEF Return
    <3> QED
      BY <3>1, <3>2, <3>3, <3>4, MoveKeepsReport
  <2>2. CASE Done
    BY <1>1, <2>2 DEF Done
  <2> QED
    BY <1>9, <2>1, <2>2
<1> QED
  BY <1>1, <1>2, <1>3, <1>4, <1>5, <1>6, <1>7, <1>8, <1>9 DEF Next

LEMMA ReportInvariant == Spec => []ReportInv
  BY ReportInit, ReportStep, SessionInvariant, PTL DEF Spec

(* The verdict and the results agree with what was executed. *)
THEOREM ReportIsTrue == Spec => []ReportTellsTheRun
<1>1. ReportInv => ReportTellsTheRun
  BY DEF ReportInv, ReportTellsTheRun, OrderOfResults, StatusTellsTheRun
<1> QED
  BY <1>1, ReportInvariant, PTL

(* The outcomes of a step are told apart by how its execution ended: an
   exception that leaves it, or a budget spent before it, is an error and
   nothing else is; only an assertion that was evaluated fails. *)
THEOREM EscapesAreErrors == Spec => []FailureIsAnAssertion
<1>1. ReportInv => FailureIsAnAssertion
  BY DEF ReportInv
<1> QED
  BY <1>1, ReportInvariant, PTL

-----------------------------------------------------------------------------
(* The budget. *)

(* When the session is left, at the latest. *)
LeftBy == Greater(4 * MaxStall + 1, StepsLimit)

(* Where the session or a step is bounds how far the clock can be. *)
TimeInv ==
    /\ scenario \in Candidates
    /\ Deadline \in Nat /\ clock \in Nat /\ stepDeadline \in Nat
    /\ pc \in {"start", "policy", "driver"} => clock = 0
    /\ pc \in {"started", "browser"} => clock <= MaxStall
    /\ pc \in {"launched", "context"} => clock <= 2 * MaxStall
    /\ pc \in {"created", "page"} => clock <= 3 * MaxStall
    /\ pc = "loop" => clock < StepsLimit \/ (executed = {} /\ clock <= 4 * MaxStall)
    /\ pc \in InStep => stepDeadline < Deadline + MinStep /\ clock < StepsLimit
    /\ pc = "match" => clock <= stepDeadline
    /\ pc \in {"call", "shot", "title"} => clock <= stepDeadline + MaxStall
    /\ pc = "closing" => /\ guarded = 3 => clock < LeftBy
                         /\ guarded = 2 => clock < LeftBy + MaxStall
                         /\ guarded = 1 => clock < LeftBy + 2 * MaxStall
    /\ pc \in {"closing", "done"} => clock < LeftBy + 3 * MaxStall

LEMMA Constants ==
  /\ ActionTimeout \in Nat /\ NavigationTimeout \in Nat /\ MaxStall \in Nat
  /\ MinStep \in Nat /\ MinStep > 0 /\ ShotFloor \in Nat
  /\ MinScenario \in Nat /\ DefaultScenario \in Nat /\ MaxScenario \in Nat
  BY TimesAssumption

LEMMA SecondsType ==
  ASSUME NEW t, \A x \in t : x.number \in Nat, NEW default \in Nat
  PROVE  Seconds(t, default) \in Nat
<1>1. CASE t = {}
  BY <1>1 DEF Seconds
<1>2. CASE t # {}
  <2>1. (CHOOSE x \in t : TRUE) \in t
    BY <1>2
  <2> QED
    BY <1>2, <2>1 DEF Seconds
<1> QED
  BY <1>1, <1>2

LEMMA DeadlineType == scenario \in Candidates => Deadline \in Nat
<1> SUFFICES ASSUME scenario \in Candidates PROVE Deadline \in Nat
  OBVIOUS
<1>1. Seconds(scenario.timeout, DefaultScenario) \in Nat
  BY SecondsType, CandidatesAssumption, Constants
<1> QED
  BY <1>1, Constants DEF Deadline, Greater, Lesser

LEMMA TimeInit == Init => TimeInv
  BY DeadlineType, Constants DEF Init, TimeInv, InStep

LEMMA Limits ==
  ASSUME Deadline \in Nat
  PROVE  /\ StepsLimit \in Nat /\ LeftBy \in Nat
         /\ LeftBy >= StepsLimit /\ LeftBy >= 4 * MaxStall + 1
         /\ StepsLimit >= Deadline + MinStep + MaxStall + ShotFloor
         /\ StepsLimit >= Deadline + MinStep + MaxStall + MaxStall
  BY Constants DEF StepsLimit, LeftBy, Greater

(* The least and the greatest budget of a step that starts in time. *)
LEMMA BudgetBounds ==
  ASSUME scenario \in Candidates, Len(scenario.steps) \in Nat, Len(results) \in Nat,
         Index <= Len(scenario.steps), clock \in Nat, clock < Deadline
  PROVE  /\ Budget \in Nat /\ Budget >= MinStep
         /\ clock + Budget < Deadline + MinStep
<1>1. Deadline \in Nat
  BY DeadlineType
<1>2. Index \in 1..Len(scenario.steps)
  BY DEF Index
<1>3. Seconds(Step.timeout, ActionTimeout) \in Nat
  BY <1>2, SecondsType, CandidatesAssumption, Constants DEF Step
<1> QED
  BY <1>1, <1>3, Constants DEF Budget, Greater, Lesser

LEMMA TimeStep ==
  SessionInv /\ SessionInv' /\ ReportInv /\ TimeInv /\ [Next]_scenarioVars => TimeInv'
<1> SUFFICES ASSUME SessionInv, SessionInv', ReportInv, TimeInv, [Next]_scenarioVars
             PROVE  TimeInv'
  OBVIOUS
<1>0. /\ scenario \in Candidates /\ Deadline \in Nat /\ clock \in Nat /\ stepDeadline \in Nat
      /\ guarded \in 0..3 /\ guarded' \in 0..3
      /\ pc \in Opening \cup InStep \cup {"loop", "closing", "done"}
  BY DEF TimeInv, SessionInv
<1>00. /\ StepsLimit \in Nat /\ LeftBy \in Nat
       /\ LeftBy >= StepsLimit /\ LeftBy >= 4 * MaxStall + 1
       /\ StepsLimit >= Deadline + MinStep + MaxStall + ShotFloor
       /\ StepsLimit >= Deadline + MinStep + MaxStall + MaxStall
  BY <1>0, Limits
<1>1. scenario' = scenario /\ Deadline' = Deadline /\ StepsLimit' = StepsLimit /\ LeftBy' = LeftBy
  BY DEF Next, Start, CheckTarget, StartDriver, Launch, NewContext, EnterTry, NewPage, Skip, OutOfTime,
         BeginStep, StepsDone, Match, Call, Screenshot, ReadBody, ReadTitle, ReadElement,
         Interrupt, Close, Return, Done, scenarioVars, arguments, Deadline, StepsLimit, LeftBy
<1>2. pc \notin {"closing", "done"} => clock < LeftBy
  BY <1>0, <1>00, Constants DEF TimeInv, Opening
<1>3. CASE UNCHANGED scenarioVars \/ Done
  BY <1>0, <1>1, <1>3 DEF scenarioVars, Done, step, session, report, TimeInv
<1>4. CASE pc \notin {"closing", "done"} /\ pc' \in {"closing", "done"}
           /\ clock' <= clock + MaxStall /\ UNCHANGED stepDeadline /\ clock' \in Nat
           /\ (clock' = clock \/ clock' <= 4 * MaxStall)
  BY <1>0, <1>00, <1>1, <1>2, <1>4, Constants DEF TimeInv, InStep
<1>5. CASE Start \/ CheckTarget
  <2>1. /\ pc \in {"start", "policy"} /\ pc' \in {"closing", "done", "policy", "driver"}
        /\ UNCHANGED <<clock, stepDeadline>>
    <3>1. CASE Start
      BY <3>1 DEF Start, Leave, step
    <3>2. CASE CheckTarget
      BY <3>2 DEF CheckTarget, Leave, step
    <3> QED
      BY <1>5, <3>1, <3>2
  <2>2. clock = 0
    BY <2>1 DEF TimeInv
  <2> QED
    BY <1>0, <1>1, <1>4, <2>1, <2>2, Constants DEF TimeInv, InStep
<1>6. CASE StartDriver \/ Launch \/ NewContext \/ NewPage
  <2>1. clock' \in clock..(clock + MaxStall) /\ stepDeadline' = stepDeadline /\ clock' \in Nat
    BY <1>0, <1>6, Constants DEF StartDriver, Launch, NewContext, NewPage, Takes, step
  <2>2. /\ pc \in {"driver", "browser", "context", "page"}
        /\ pc = "driver" => pc' \in {"started", "closing"}
        /\ pc = "browser" => pc' \in {"launched", "closing"}
        /\ pc = "context" => pc' \in {"created", "closing"}
        /\ pc = "page" => pc' = "closing" \/ (pc' = "loop" /\ executed' = executed)
    BY <1>6 DEF StartDriver, Launch, NewContext, NewPage, Opens, Leave, report
  <2>3. clock <= 3 * MaxStall /\ executed = {}
    BY <1>0, <2>2, Constants DEF TimeInv, ReportInv, ExecutionInv, Opening
  <2>4. CASE pc' = "closing"
    BY <1>0, <1>4, <2>1, <2>2, <2>3, <2>4, Constants
  <2>5. CASE pc' # "closing"
    BY <1>0, <1>1, <2>1, <2>2, <2>3, <2>5, Constants DEF TimeInv, InStep
  <2> QED
    BY <2>4, <2>5
<1>7. CASE EnterTry \/ Interrupt \/ StepsDone
  <2>1. UNCHANGED <<clock, stepDeadline>> /\ pc \notin {"closing", "done"}
        /\ \/ pc' = "closing"
           \/ pc = "started" /\ pc' = "browser"
           \/ pc = "launched" /\ pc' = "context"
           \/ pc = "created" /\ pc' = "page"
    BY <1>7 DEF EnterTry, Interrupt, StepsDone, Guards, Leave, step
  <2> QED
    BY <1>0, <1>1, <1>4, <2>1, Constants DEF TimeInv, InStep
<1>8. CASE Skip \/ OutOfTime
  BY <1>0, <1>1, <1>8 DEF Skip, OutOfTime, Record, step, TimeInv, InStep
<1>9. CASE Close
  <2>1. pc = "closing" /\ pc' = "closing" /\ guarded > 0 /\ guarded' = guarded - 1
        /\ clock' \in clock..(clock + MaxStall) /\ stepDeadline' = stepDeadline
    BY <1>9 DEF Close, Takes, step
  <2>2. CASE guarded = 3
    BY <1>0, <1>00, <1>1, <2>1, <2>2, Constants DEF TimeInv, InStep
  <2>3. CASE guarded = 2
    BY <1>0, <1>00, <1>1, <2>1, <2>3, Constants DEF TimeInv, InStep
  <2>4. CASE guarded = 1
    BY <1>0, <1>00, <1>1, <2>1, <2>4, Constants DEF TimeInv, InStep
  <2> QED
    BY <1>0, <2>1, <2>2, <2>3, <2>4
<1>10. CASE Return
  BY <1>0, <1>1, <1>10 DEF Return, step, TimeInv, InStep
<1>11. CASE BeginStep
  <2>1. CASE pc' = "closing" /\ UNCHANGED <<clock, stepDeadline>>
    <3>1. pc = "loop"
      BY <1>11 DEF BeginStep
    <3> QED
      BY <1>0, <1>4, <2>1, <3>1, Constants
  <2>2. CASE /\ stepDeadline' = clock + Budget /\ clock' = clock
             /\ pc' \in {"shot", "match", "call"}
    <3>1. /\ Len(scenario.steps) \in Nat /\ Len(results) \in Nat
          /\ Index <= Len(scenario.steps) /\ clock < Deadline
      <4>1. Index <= Len(scenario.steps) /\ clock < Deadline
        BY <1>11 DEF BeginStep
      <4>2. Len(scenario.steps) \in Nat /\ results \in Seq(Kinds)
        BY DEF ReportInv, ExecutionInv
      <4> QED
        BY <4>1, <4>2
    <3>2. Budget \in Nat /\ Budget >= MinStep /\ clock + Budget < Deadline + MinStep
      BY <1>0, <3>1, BudgetBounds
    <3> QED
      BY <1>0, <1>00, <1>1, <2>2, <3>1, <3>2, Constants DEF TimeInv, InStep
  <2> QED
    BY <1>11, <2>1, <2>2 DEF BeginStep, Leave, step
<1>12. CASE Match
  <2>1. /\ stepDeadline' = stepDeadline /\ pc' \in {"shot", "call"}
        /\ clock <= stepDeadline /\ stepDeadline < Deadline + MinStep
        /\ clock' = clock \/ (clock < stepDeadline /\ clock' \in clock..(clock + MaxStall))
    BY <1>0, <1>12 DEF Match, Takes, Goes, ActionFails, Left, TimeInv, InStep
  <2> QED
    BY <1>0, <1>00, <1>1, <2>1, Constants DEF TimeInv, InStep
<1>13. CASE Call
  <2>1. stepDeadline' = stepDeadline /\ pc' = "shot" /\ clock <= stepDeadline + MaxStall
        /\ stepDeadline < Deadline + MinStep /\ clock < StepsLimit
    BY <1>13 DEF Call, Goes, ActionFails, TimeInv, InStep
  <2>2. clock' = clock \/ (clock' \in clock..stepDeadline)
    BY <1>0, <1>13, Constants DEF Call, Takes, Left, Lesser
  <2> QED
    BY <1>0, <1>00, <1>1, <2>1, <2>2, Constants DEF TimeInv, InStep
<1>14. CASE Screenshot
  <2>1. /\ stepDeadline' = stepDeadline /\ pc' \in {"loop", "body"} /\ clock < StepsLimit
        /\ clock <= stepDeadline + MaxStall /\ stepDeadline < Deadline + MinStep
    BY <1>14 DEF Screenshot, Record, TimeInv, InStep, step
  <2>2. clock' \in clock..(clock + Greater(ShotFloor, Left)) \/ clock' \in clock..(clock + 0)
    BY <1>14 DEF Screenshot, Takes
  <2>3. clock' \in Nat /\ (clock' <= clock + ShotFloor \/ clock' <= stepDeadline)
    BY <1>0, <2>2, Constants DEF Greater, Left
  <2>4. clock' < StepsLimit
    BY <1>0, <1>00, <2>1, <2>3, Constants
  <2> QED
    BY <1>0, <1>1, <2>1, <2>3, <2>4 DEF TimeInv, InStep
<1>15. CASE ReadBody \/ ReadElement
  <2>1. stepDeadline' = stepDeadline /\ stepDeadline < Deadline + MinStep /\ clock < StepsLimit
        /\ (pc' = "loop" \/ pc' = "title")
    BY <1>15 DEF ReadBody, ReadElement, Resolve, GoesOn, ObservationFails, Verdict, Record, step,
                 TimeInv, InStep
  <2>2. \/ clock' = clock /\ pc' = "loop"
        \/ clock < stepDeadline /\ clock' \in clock..(clock + MaxStall)
        \/ clock < stepDeadline /\ clock' \in clock..stepDeadline
        \/ clock < stepDeadline /\ clock' \in stepDeadline..(clock + Greater(MaxStall, Left))
    BY <1>0, <1>15 DEF ReadBody, ReadElement, Resolve, ObservationFails, Record, Takes, Left
  <2> QED
    BY <1>0, <1>00, <1>1, <2>1, <2>2, Constants DEF TimeInv, InStep, Greater, Left
<1>16. CASE ReadTitle
  <2>1. /\ stepDeadline' = stepDeadline /\ pc' \in {"loop", "element"}
        /\ clock <= stepDeadline + MaxStall /\ stepDeadline < Deadline + MinStep
        /\ clock' \in clock..(clock + MaxStall)
    BY <1>16 DEF ReadTitle, GoesOn, ObservationFails, Verdict, Record, Takes, step, TimeInv, InStep
  <2> QED
    BY <1>0, <1>00, <1>1, <2>1, Constants DEF TimeInv, InStep
<1> QED
  BY <1>3, <1>5, <1>6, <1>7, <1>8, <1>9, <1>10, <1>11, <1>12, <1>13, <1>14, <1>15, <1>16 DEF Next

(* No nesting of timeouts, no stall and no screenshot makes the steps outlive
   the deadline by more than a fixed amount; opening and closing the session
   adds no more than their seven calls take. *)
THEOREM BudgetIsKept == Spec => []WithinBudget
<1>1. SessionInv /\ ReportInv /\ TimeInv => WithinBudget
  <2> SUFFICES ASSUME SessionInv, ReportInv, TimeInv PROVE WithinBudget
    OBVIOUS
  <2>1. StepsLimit \in Nat /\ LeftBy \in Nat /\ LeftBy >= StepsLimit /\ LeftBy >= 4 * MaxStall + 1
    BY Limits DEF TimeInv
  <2>2. pc \in Opening \cup InStep \cup {"loop", "closing", "done"}
    BY DEF SessionInv
  <2>3. CASE pc \in Opening
    <3>1. clock <= 3 * MaxStall /\ executed = {} /\ clock \in Nat
      BY <2>3, Constants DEF TimeInv, ReportInv, ExecutionInv, Opening
    <3> QED
      BY <2>1, <3>1, Constants DEF WithinBudget, LeftBy
  <2>4. CASE pc \in InStep \cup {"loop"}
    <3>1. clock < StepsLimit \/ (executed = {} /\ clock <= 4 * MaxStall)
      BY <2>4 DEF TimeInv
    <3> QED
      BY <2>1, <3>1, Constants DEF TimeInv, WithinBudget, LeftBy
  <2>5. CASE pc \in {"closing", "done"}
    BY <2>5 DEF TimeInv, WithinBudget, LeftBy
  <2> QED
    BY <2>2, <2>3, <2>4, <2>5
<1> QED
  BY <1>1, TimeInit, TimeStep, SessionInvariant, ReportInvariant, PTL DEF Spec
=============================================================================
