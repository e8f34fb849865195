---------------------------- MODULE ScenarioRunner ----------------------------
(***************************************************************************)
(* adapters/browser/scenario_runner.py: run_scenario, with the session, the *)
(* executor and the assertions it drives.  One thread runs the steps of a  *)
(* validated scenario on one page, under a scenario deadline that cascades *)
(* into a deadline for every step.  The browser answers as it likes; the   *)
(* user may interrupt at any moment of the session.                        *)
(*                                                                         *)
(* Time is counted in ticks.  A call that is given a timeout takes at most *)
(* that long; one that is not (count(), title(), whatever opens or closes  *)
(* the session) takes up to MaxStall, whatever the deadlines.              *)
(*                                                                         *)
(* A definition without a comment right before another with the same       *)
(* parameters is a faulty variant of it, used to test the properties.      *)
(***************************************************************************)
EXTENDS Integers, Sequences, FiniteSets

CONSTANTS
    Candidates,         \* scenarios as loaded, records [steps, timeout]
    Options,            \* arguments of run_scenario
    ActionTimeout, NavigationTimeout,
    MinStep,            \* _MIN_STEP_TIMEOUT_SECONDS
    MinScenario, DefaultScenario, MaxScenario,
    ShotFloor,          \* least time a screenshot is given
    MaxStall            \* bound: what a call without a timeout takes

ASSUME TimesAssumption ==
    /\ {ActionTimeout, NavigationTimeout, MinStep, MinScenario, ShotFloor} \subseteq Nat \ {0}
    /\ DefaultScenario \in MinScenario..MaxScenario /\ MaxScenario \in Nat
    /\ MaxStall \in Nat

ASSUME CandidatesAssumption ==
    \A c \in Candidates :
        /\ Len(c.steps) \in Nat
        /\ \A t \in c.timeout : t.number \in Nat
        /\ \A i \in 1..Len(c.steps) : \A t \in c.steps[i].timeout : t.number \in Nat

VARIABLES
    scenario, options,  \* the arguments
    pc,                 \* where run_scenario is
    clock,              \* ticks since it started
    stepDeadline,       \* deadline of the step being executed
    outcome,            \* of the step's action: "ok" or "raised"
    opened,             \* layers that are running, from the driver up
    guarded,            \* layers whose try block has been entered
    missed,             \* layers whose own close never ran, or failed
    results,            \* step_results: the statuses
    executed,           \* steps the test engine was given
    trouble,            \* steps whose execution raised
    raised,             \* the exception on its way out of the session
    status              \* ScenarioResult.status, or "raised"

arguments == <<scenario, options>>
step == <<stepDeadline, outcome>>
session == <<opened, guarded, missed>>
report == <<results, executed, trouble>>
scenarioVars == <<arguments, pc, clock, step, session, report, raised, status>>

(* The layers of a session: the Playwright driver, a browser, a context.   *)
Driver == 1
Browser == 2
Context == 3

Lesser(a, b) == IF a < b THEN a ELSE b
Greater(a, b) == IF a > b THEN a ELSE b

-----------------------------------------------------------------------------
(* What validation lets through.  A timeout is {} when absent, else the    *)
(* set of one record: its number, and whether the file quotes it as text.  *)

ElementActions == {"click", "fill", "select", "check", "uncheck", "press"}
PageAssertions == {"assert_url", "assert_url_equals", "assert_title"}
ElementAssertions ==
    {"assert_visible", "assert_hidden", "assert_text", "assert_text_equals", "assert_value",
     "assert_attribute", "assert_count", "assert_enabled", "assert_disabled", "assert_checked"}
IsAssertion(s) == s.action \in PageAssertions \cup ElementAssertions

(* Text that float() reads as a number is as good as a number. *)
ValidTimeout(t) == \A x \in t : x.number \in MinScenario..MaxScenario

ValidStep(s) ==
    /\ s.action \in {"navigate", "wait_for"} \cup ElementActions \cup PageAssertions
                    \cup ElementAssertions
    /\ s.action \in {"navigate"} => s.value \notin {"none", "blank"}
    /\ s.action \in {"fill", "select", "press"} => s.value # "none" \/ s.env # "none"
    /\ s.action \in ElementActions \cup ElementAssertions => s.selector
    /\ s.action = "assert_attribute" => s.attribute
    /\ s.action = "assert_count" => s.counts # {}
    /\ ValidTimeout(s.timeout)

Valid(c) ==
    /\ c.steps # <<>>
    /\ ValidTimeout(c.timeout)
    /\ \A i \in DOMAIN c.steps : ValidStep(c.steps[i])

-----------------------------------------------------------------------------
Seconds(t, default) == IF t = {} THEN default ELSE (CHOOSE x \in t : TRUE).number
Quoted(t) == \E x \in t : x.quoted
Deadline == Greater(MinScenario, Lesser(Seconds(scenario.timeout, DefaultScenario), MaxScenario))
Index == Len(results) + 1
Step == scenario.steps[Index]
Left == stepDeadline - clock
StoppedByFailure == \E i \in DOMAIN results : results[i] = "failed"
Stopped == \E i \in DOMAIN results : results[i] # "passed"
InStep == {"match", "call", "shot", "body", "title", "element"}

(* validate_target. *)
Permitted ==
    \/ options.target \in {"file", "local"}
    \/ options.target = "external" /\ options.allowExternal

Init ==
    /\ scenario \in {c \in Candidates : Valid(c)} /\ options \in Options
    /\ pc = "start"
    /\ clock = 0 /\ stepDeadline = 0
    /\ outcome = "ok"
    /\ opened = 0 /\ guarded = 0 /\ missed = {}
    /\ results = <<>> /\ executed = {} /\ trouble = {}
    /\ raised = "none" /\ status = "none"

Takes(limit) == clock' \in clock..(clock + limit)
(* An exception goes out through the try blocks entered so far. *)
Leave(exception) ==
    /\ raised' = exception /\ pc' = "closing"
    /\ missed' = missed \cup (guarded + 1)..opened
    /\ UNCHANGED <<opened, guarded>>

-----------------------------------------------------------------------------
(* Before the session: nothing is opened while a precondition fails. *)

MissingVariables == \E i \in DOMAIN scenario.steps : scenario.steps[i].env = "unset"

Start ==
    /\ pc = "start"
    /\ \/ /\ Quoted(scenario.timeout)                   \* min() of text and number
          /\ Leave("type error") /\ UNCHANGED status
       \/ /\ ~Quoted(scenario.timeout)
          /\ IF MissingVariables THEN pc' = "done" /\ status' = "not_assessed"
             ELSE pc' = "policy" /\ UNCHANGED status
          /\ UNCHANGED <<session, raised>>
    /\ UNCHANGED <<arguments, clock, step, report>>

CheckTarget ==
    /\ pc = "policy"
    /\ IF ~options.installed THEN Leave("unavailable")
       ELSE IF ~Permitted THEN Leave("target")
       ELSE pc' = "driver" /\ UNCHANGED <<session, raised>>
    /\ UNCHANGED <<arguments, clock, step, report, status>>

(* browser_session.  A layer is opened by a call, and its try block, whose
   finally clause closes it, is entered afterwards. *)
Opens(next) == opened' = opened + 1 /\ pc' = next /\ UNCHANGED <<guarded, missed, raised>>
Guards(next) == guarded' = guarded + 1 /\ pc' = next /\ UNCHANGED <<opened, missed, raised>>

StartDriver ==
    /\ pc = "driver"
    /\ Takes(MaxStall)
    /\ Opens("started") \/ Leave("crash")
    /\ UNCHANGED <<arguments, step, report, status>>

Launch ==
    /\ pc = "browser"
    /\ Takes(MaxStall)
    /\ \/ options.engine = "unknown" /\ Leave("target")
       \/ options.engine # "unknown" /\ (Leave("unavailable") \/ Opens("launched"))
    /\ UNCHANGED <<arguments, step, report, status>>

NewContext ==
    /\ pc = "context"
    /\ Takes(MaxStall)
    /\ Opens("created") \/ Leave("crash")
    /\ UNCHANGED <<arguments, step, report, status>>

(* The default timeouts of a context are set before its try block. *)
EnterTry ==
    /\ \/ pc = "started" /\ Guards("browser")
       \/ pc = "launched" /\ Guards("context")
       \/ pc = "created" /\ (Guards("page") \/ Leave("crash"))
    /\ UNCHANGED <<arguments, clock, step, report, status>>

NewPage ==
    /\ pc = "page"
    /\ Takes(MaxStall)
    /\ (pc' = "loop" /\ UNCHANGED <<session, raised>>) \/ Leave("crash")
    /\ UNCHANGED <<arguments, step, report, status>>

-----------------------------------------------------------------------------
(* The loop over the steps. *)

Record(result) == results' = Append(results, result) /\ pc' = "loop"

Skip ==
    /\ pc = "loop" /\ Index <= Len(scenario.steps)
    /\ Stopped
    /\ Record("skipped")
    /\ UNCHANGED <<arguments, clock, step, session, executed, trouble, raised, status>>

OutOfTime ==
    /\ pc = "loop" /\ Index <= Len(scenario.steps)
    /\ ~Stopped /\ clock >= Deadline
    /\ Record("error")
    /\ UNCHANGED <<arguments, clock, step, session, executed, trouble, raised, status>>

BudgetUncapped == Greater(MinStep, Seconds(Step.timeout, ActionTimeout))
Budget == Greater(MinStep, Lesser(Seconds(Step.timeout, ActionTimeout), Deadline - clock))

(* test_engine.run on the step: its budget is what the scenario has left. *)
BeginStep ==
    /\ pc = "loop" /\ Index <= Len(scenario.steps)
    /\ ~Stopped /\ clock < Deadline
    /\ IF Quoted(Step.timeout)
       THEN Leave("type error") /\ UNCHANGED <<step, executed>>
       ELSE /\ stepDeadline' = clock + Budget
            /\ outcome' = "ok"
            /\ executed' = executed \cup {Index}
            /\ pc' = CASE IsAssertion(Step) -> "shot"
                       [] Step.action \in ElementActions -> "match"
                       [] OTHER -> "call"
            /\ UNCHANGED <<session, raised>>
    /\ UNCHANGED <<arguments, clock, results, trouble, status>>

StepsDone ==
    /\ pc = "loop" /\ Index > Len(scenario.steps)
    /\ pc' = "closing"
    /\ UNCHANGED <<arguments, clock, step, session, report, raised, status>>

-----------------------------------------------------------------------------
(* The executor: the action of the step, a screenshot, then a snapshot. *)

ActionFails == outcome' = "raised" /\ trouble' = trouble \cup {Index} /\ pc' = "shot"
Goes(next) == pc' = next /\ UNCHANGED <<outcome, trouble>>

(* _require_single_match. *)
Match ==
    /\ pc = "match"
    /\ \/ Left <= 0 /\ ActionFails /\ UNCHANGED clock
       \/ /\ Left > 0
          /\ Takes(MaxStall)
          /\ Goes("call") \/ ActionFails
    /\ UNCHANGED <<arguments, stepDeadline, session, results, executed, raised, status>>

Refused == Step.action = "navigate" /\ Step.value = "other" /\ ~options.allowExternal

(* _run_steps: goto, wait_for or the element's action, under the lesser of
   its own timeout and what is left of the step's. *)
Call ==
    LET limit == Lesser(IF Step.action = "navigate" THEN NavigationTimeout ELSE ActionTimeout,
                        Left)
    IN  /\ pc = "call"
        /\ \/ (Refused \/ Left <= 0) /\ ActionFails /\ UNCHANGED clock
           \/ /\ ~Refused /\ Left > 0
              /\ Takes(limit)
              /\ Goes("shot") \/ ActionFails            \* it timed out, or failed sooner
        /\ UNCHANGED <<arguments, stepDeadline, session, results, executed, raised, status>>

(* The finally clause, which has ShotFloor even when the budget is spent.
   An action that raised goes on raising: the test engine makes it an error. *)
Screenshot ==
    /\ pc = "shot"
    /\ Takes(IF options.screenshots THEN Greater(ShotFloor, Left) ELSE 0)
    /\ IF outcome = "raised" THEN Record("error") ELSE pc' = "body" /\ UNCHANGED results
    /\ UNCHANGED <<arguments, step, session, executed, trouble, raised, status>>

ObservationIsAFailure == Record("failed") /\ trouble' = trouble \cup {Index}
(* An exception out of _build_context. *)
ObservationFails == Record("error") /\ trouble' = trouble \cup {Index}

(* _resolve_element_state: count(), which finds nothing or fails; or readings
   of the first match, each of which looks at the deadline before it starts
   and is then given no more than what is left.  What Playwright raises in a
   reading, its timeouts included, is swallowed. *)
Resolve(absent, present) ==
    \/ Left <= 0 /\ ObservationFails /\ UNCHANGED clock
    \/ /\ Left > 0
       /\ \/ Takes(MaxStall) /\ absent
          \/ /\ clock' \in stepDeadline..(clock + Greater(MaxStall, Left))
             /\ ObservationFails
          \/ clock' \in clock..stepDeadline /\ present

GoesOn(next) == pc' = next /\ UNCHANGED <<results, trouble>>

(* _build_context starts with the body of the page. *)
ReadBody ==
    /\ pc = "body"
    /\ Resolve(GoesOn("title"), GoesOn("title"))
    /\ UNCHANGED <<arguments, step, session, executed, raised, status>>

(* The text an assertion asks for is empty: it is in every text. *)
EmptyText(s) ==
    IF s.env = "none" \/ s.action = "assert_url" THEN s.value \in {"none", "blank"}
    ELSE s.env = "empty"

(* What an assertion reads of the first match, however many there are: "yes"
   it is so (visible, the expected text, enabled...), "no", or "none": it
   could not be read. *)
Holds(s, seen) ==
    CASE s.action = "assert_hidden" -> seen.read # "yes" \/ seen.count = 0
      [] s.action = "assert_disabled" -> seen.read = "no"
      [] s.action = "assert_count" -> seen.count \in s.counts
      [] s.action \in {"assert_text", "assert_url"} -> EmptyText(s) \/ seen.read = "yes"
      [] s.action = "assert_text_equals" ->
            \/ seen.read = "yes"
            \/ seen.read = "none" /\ EmptyText(s)
      [] OTHER -> seen.read = "yes"

Absent(s) ==
    [count |-> 0, read |-> IF s.action \in {"assert_visible", "assert_hidden"} THEN "no"
                           ELSE "none"]

Verdict(seen) ==
    /\ Record(IF Holds(Step, seen) THEN "passed" ELSE "failed")
    /\ UNCHANGED trouble

(* page.title() may raise, on a page that is navigating away; an action
   without assertions that got this far has passed. *)
ReadTitle ==
    /\ pc = "title"
    /\ Takes(MaxStall)
    /\ \/ ObservationFails
       \/ ~IsAssertion(Step) /\ Record("passed") /\ UNCHANGED trouble
       \/ Step.action \in ElementAssertions /\ GoesOn("element")
       \/ /\ Step.action \in PageAssertions
          /\ \E read \in {"yes", "no"} : Verdict([count |-> 1, read |-> read])
    /\ UNCHANGED <<arguments, step, session, executed, raised, status>>

ReadElement ==
    /\ pc = "element"
    /\ Resolve(Verdict(Absent(Step)),
               \E n \in {1, 2}, read \in {"yes", "no", "none"} :
                   Verdict([count |-> n, read |-> read]))
    /\ UNCHANGED <<arguments, step, session, executed, raised, status>>

-----------------------------------------------------------------------------
(* Leaving the session. *)

(* Ctrl+C.  One inside a call has come just before it, or just after. *)
Interrupt ==
    /\ pc \notin {"closing", "done"}
    /\ Leave("interrupt")
    /\ UNCHANGED <<arguments, clock, step, report, status>>

CloseUnnested ==
    /\ pc = "closing" /\ guarded > 0
    /\ Takes(MaxStall)
    /\ opened' = Lesser(opened, guarded - 1)
    /\ raised' \in {raised, "crash", "interrupt"}
    /\ guarded' = IF raised' = raised THEN guarded - 1 ELSE 0
    /\ missed' = IF raised' = raised THEN missed ELSE missed \cup {guarded}
    /\ UNCHANGED <<arguments, pc, step, report, status>>
(* The finally clauses, innermost first.  What runs on a layer ends with
   it.  close() may raise or be interrupted, with or without effect; the
   outer clauses still run, with the new exception. *)
Close ==
    /\ pc = "closing" /\ guarded > 0
    /\ Takes(MaxStall)
    /\ guarded' = guarded - 1
    /\ \/ opened' = Lesser(opened, guarded - 1) /\ UNCHANGED <<raised, missed>>
       \/ /\ opened' \in {opened, Lesser(opened, guarded - 1)}
          /\ raised' \in {"crash", "interrupt"}
          /\ missed' = missed \cup {guarded}
    /\ UNCHANGED <<arguments, pc, step, report, status>>

OverallStatus ==
    IF \E i \in DOMAIN results : results[i] = "error" THEN "error"
    ELSE IF \E i \in DOMAIN results : results[i] = "failed" THEN "fail"
    ELSE "pass"

Return ==
    /\ pc = "closing" /\ guarded = 0
    /\ pc' = "done"
    /\ status' = CASE raised = "none" -> OverallStatus
                   [] raised \in {"unavailable", "target"} -> "not_assessed"
                   [] OTHER -> "raised"
    /\ UNCHANGED <<arguments, clock, step, session, report, raised>>

Done == pc = "done" /\ UNCHANGED scenarioVars

Next ==
    \/ Start \/ CheckTarget \/ StartDriver \/ Launch \/ NewContext \/ EnterTry \/ NewPage
    \/ Skip \/ OutOfTime \/ BeginStep \/ StepsDone
    \/ Match \/ Call \/ Screenshot \/ ReadBody \/ ReadTitle \/ ReadElement
    \/ Interrupt \/ Close \/ Return \/ Done

Spec == Init /\ [][Next]_scenarioVars

-----------------------------------------------------------------------------
(* The report tells what was done: the steps that passed are a prefix, at
   most one step after them failed or raised, everything later was skipped
   and never given to the test engine; "pass" needs every declared step, and
   "not_assessed" means that no step was ever attempted. *)
ReportTellsTheRun ==
    /\ \A i, j \in DOMAIN results :
          i < j /\ results[i] # "passed" => results[j] = "skipped"
    /\ \A i \in DOMAIN results : results[i] = "skipped" =>
          i \notin executed /\ \E j \in 1..(i - 1) : results[j] \in {"failed", "error"}
    /\ status = "pass" => /\ Len(results) = Len(scenario.steps)
                          /\ \A i \in DOMAIN results : results[i] = "passed"
    /\ status \in {"fail", "error"} => \E i \in DOMAIN results : results[i] \in {"failed", "error"}
    /\ status = "not_assessed" => executed = {}

(* How far past its deadline a scenario can run.  Its steps exceed it by less
   than the least time of a step, one call without a timeout, and the longer
   of another such call and of a last screenshot.  The whole, the
   opening and closing of the session included, takes longer still: four
   calls without a timeout may use up the deadline before the loop finds that
   out, and three follow the last step.  (docs/WEB_SCENARIOS.md:154 calls the
   deadline "a true hard wall-clock ceiling".) *)
StepsLimit == Deadline + MinStep + MaxStall + Greater(ShotFloor, MaxStall)
WithinBudget ==
    /\ executed # {} /\ pc \notin {"closing", "done"} => clock < StepsLimit
    /\ clock < Greater(4 * MaxStall + 1, StepsLimit) + 3 * MaxStall

(* Steps run only in a complete session that will be closed.  Whatever is
   raised, interrupted or fails to close at any layer, every finally clause
   that was entered runs, and nothing is left running in the end unless the
   driver itself was: interrupted between its start and its try block, or
   not stopped by a stop() that failed.  (executor.py:16-18 says "never".) *)
SessionReleased ==
    /\ pc \in InStep \cup {"loop"} => opened = Context /\ guarded = Context
    /\ pc = "done" => guarded = 0 /\ (opened >= Driver => Driver \in missed)

(* The three outcomes of a step are told apart by how its execution ended.
   It is an error when an exception left it, or no time was left to start
   it, and only then; it failed only if it is an assertion that was evaluated
   to its end.  That is not to say on what evidence: a reading that times out
   is swallowed and counts as not read, and of several matches the first one
   counts, where docs/WEB_SCENARIOS.md:170-171 promises an error. *)
FailureIsAnAssertion ==
    \A i \in DOMAIN results :
        /\ i \in trouble => results[i] = "error"
        /\ results[i] = "error" => i \in trouble \/ i \notin executed
        /\ results[i] = "failed" => i \in executed /\ IsAssertion(scenario.steps[i])

(* scenario_loader.py:91: a timeout "must be a number".  A scenario that
   passed validation never stops because one of its timeouts is not. *)
TimeoutsAreNumbers == raised # "type error"
=============================================================================
