# UniversalTest: a verification project

TLA+ models of the parts of UniversalTest where order, concurrency and failure
decide whether the tool is right, the TLC runs that check them, and TLAPS
proofs of the core. Paths below are relative to `src/universal_test/` unless
they start with `docs/` or name a module.

UniversalTest looks at a project, runs functional, load, database and browser
checks against a target the user names, turns the results into an assessment, a
comparison with a baseline and a quality gate, and writes reports. It is
driven by a local web GUI (a `ThreadingHTTPServer` and a page) or by a command
line used in CI.

## Inventory

| Component | State it keeps | Operations | What makes it correct |
|---|---|---|---|
| Run registry, `gui/runs.py` | runs by id in insertion order; per run: events, queue, outcome, error, done | `start`, the worker thread, `get`, pruning | one run in flight, never evicted; a finished run is fetchable until enough newer ones have finished; done runs have exactly one verdict; bounded memory |
| Event stream, `gui/server.py` and `gui/static/app.js` | one handler thread per connection, the queue they share, the page's checklist | `/stream`, `/result`, reconnect | the page sees every event, in the end the end, and never asks for the result early |
| Assessment pipeline, `application/service.py` | stage results, not-run reasons, progress events | nine stages in order, each with gates, early returns and exceptions | nothing is sent without consent; the checklist is in order and settled in the end; neither it nor the verdicts claim more than was done |
| Assessment and quality gate, `assessment/`, `quality_gate/` | none (pure) | `build_assessment`, `evaluate` | total failure and bad answers are told apart; headline statuses agree; worse results never look better; nothing blocked is let through |
| Performance engine, `testing/performance/` | load profile, thread pool, samples, cancellation event, deadlines | `build_load_profile`, `run` with its levels | hard ceilings, every request counted, prompt cancellation, stress runs that stop |
| REST adapter, `adapters/rest/` | HTTP client | select and normalise OpenAPI, generate values and tests, pick a credential, execute, assert | every request is built from the document and nothing else; one result per test |
| Browser and Web Scenarios, `adapters/browser/` | playwright session, page, step results | validate target, run steps under timeouts | target policy, cleanup whatever is raised or interrupted, step verdicts, an end near the deadline |
| Database adapter, `adapters/database/` | one connection | discover metadata, read only | failures are "not assessed", connection closed |
| Regression, `regression/` | baseline file | snapshot, compare, save, load | only what was saved is compared; what broke is seen; what did not change raises no alarm |
| Command line, `cli/` | none between commands | the four pipeline commands with gates, prompts and retries; `test`, `performance`, `database`, `browser test`, `scenario run`; `scan` and the like | consent, retries of outages only, truthful exit codes, nothing that ends in order is left untold |
| Configuration, `core/configuration/` | merged configuration | read, default, clamp, validate | no mistake in a file is a crash or opens a gate |
| Discovery, `discovery/` | none | detectors in order, each may raise | a detector that raises costs its own section only |
| Static assessment, `assessment/` | none | six categories from what discovery found | never block a build by themselves |
| Assertions, `core/assertions/` | none | evaluate an answer | a check that cannot be evaluated does not pass |
| Reporting, redaction, local static server | none | passes over text, process start-up | outside what a model checker adds |

**Interaction.** The command line goes through the same stages as the GUI with
gates of its own, prompts and, for functional tests, retries. Baselines outlive
a process: one process writes the file, another reads it. `POST /api/assess` calls `RunRegistry.start`, which begins a
worker thread. The worker calls `run_assessment`, whose events go through
`on_event` into the run's list (under the run's lock) and its queue. Stream
handlers replay the list and drain the queue; `/result` reads done, outcome and
error under the run's lock. Within `run_assessment` the stages call the
adapters, the adapters return results, `build_assessment` turns results into
category statuses and `evaluate` turns these and the regression findings into a
gate status and exit code. The performance stage starts a thread pool per
level.

**Hard behaviours.** Two locks and a queue shared by starters, workers and
handlers; connections that break while their handler blocks; exceptions in any
stage; consent spread over several flags; pool threads racing a cancellation
event and a deadline; equality comparisons that separate "target down" from
"target bad"; a baseline file written in place by a process that may die; tests
named by their position; schemas that refer to each other in cycles; a session of
three layers that are opened one after the other and can be interrupted at any
point; exceptions and Ctrl+C after something has been sent.
`PROJECT.json`, "hazards", lists each at its line.

## Modules

| Module | Models | Extends |
|---|---|---|
| `RunLifecycle` | the abstract promise of the registry | |
| `RunRegistry` | `gui/runs.py` | |
| `RunRegistryProofs` | theorems about `RunRegistry` | `RunRegistry` |
| `RunStream` | stream and result endpoints, and the page, composed with the registry | `RunRegistry` |
| `RunStreamProofs` | theorems about `RunStream` | `RunStream`, `RunRegistryProofs` |
| `Verdicts` | `assessment/` rules and `quality_gate/`, pure operators | |
| `AssessmentPipeline` | `application/service.py` | `Verdicts` |
| `AssessmentPipelineProofs` | theorems about `AssessmentPipeline` | `AssessmentPipeline` |
| `AssessmentVerdict` | `build_assessment` followed by `evaluate`, on all inputs | `Verdicts`, `StaticAssessment` |
| `AssessmentVerdictProofs` | theorems about `AssessmentVerdict` | `AssessmentVerdict` |
| `LoadPlan` | `testing/performance/planner.py`, pure operators | |
| `PerformanceRunner` | `testing/performance/runner.py` | `LoadPlan` |
| `PerformanceRunnerProofs` | theorems about `PerformanceRunner` | `PerformanceRunner` |
| `ScenarioRunner` | `adapters/browser/`: scenarios, session, executor, assertions | |
| `ScenarioRunnerProofs` | theorems about `ScenarioRunner` | `ScenarioRunner` |
| `Configuration` | `core/configuration/config.py`, pure operators | `Verdicts` |
| `CommandLine` | `cli/main.py`, `cli/parser.py`: one invocation | `Configuration` |
| `CommandLineProofs` | theorems about `CommandLine` | `CommandLine` |
| `OpenApi` | `adapters/rest/`: choosing and normalising a document, pure | |
| `ApiTests` | `adapters/rest/`: values, tests, credentials, answers, pure | `OpenApi` |
| `Discovery` | `discovery/`, pure operators | |
| `StaticAssessment` | the categories of `assessment/` that execute nothing, pure | `Discovery` |
| `Regression` | `regression/`: the comparisons, pure | |
| `BaselineComparison` | saving and comparing baselines around a changing project | `ApiTests`, `Regression`, `StaticAssessment` |
| `BaselineComparisonProofs` | theorems about `BaselineComparison` | `BaselineComparison` |

Each `MC*` module instantiates one of them for TLC. Definitions that model code
keep its names where they can; `PROJECT.json`, "map", gives the lines of each.
A definition that stands without a comment right before another one with the
same parameters is a faulty variant of it: substituting it must break the
property `PROJECT.json`, "mutants", names.

### RunRegistry and RunLifecycle

A run is a number, its place in the order of accepted starts: the dict keeps
insertion order and ids are never reused. One action is one critical section or
one queue operation. `Start` is the block under the registry's lock in
`start()`, prune included. The worker appends an event under the run's lock
(`AppendEvent`) and puts it afterwards (`PutEvent`); it records an outcome, or
an error and the error event; its `finally` is three actions, `SetDone`,
`PutEndOfStream`, `FinalPrune`, since another thread may run between them. The
read of `done` in `_has_active_run_locked` is atomic in CPython and part of
`Start`. A rejected start changes nothing and is no action.

`RunLifecycle` knows three sets: the run in flight, the finished runs, the runs a
client can still ask about. A run begins only when none is in flight; a
finished run may be forgotten only when `Keep` newer ones have finished.

### RunStream

A handler snapshots events and done under the run's lock (`Snapshot`), then
takes from the queue all handlers of the run share (`TakeFromQueue`). Writing is
`Deliver` on a live connection; on a broken one the bytes disappear in the
socket's buffer (`WriteVanishes`) or the write raises (`WriteFails`). The page
connects after its POST was answered, reconnects after a break, closes on the
done payload and fetches the result. What is external: TCP and the retry of
`EventSource`.

### AssessmentPipeline and Verdicts

`current` and `at` say which stage is where: before its gate, after its started
event, or inside an adapter. A stage is passed over (`PassOver`), begins
(`Begin`), gives up before it opens anything (`Decline`), or calls its adapter
(`Drive`) and completes (`Complete`). `Raise` is an exception no stage catches.
The HTTP client of a stage is opened and closed around that one call and is no
state of the model: a variable for it would repeat the `finally`.
Adapters may return every result they have: a set of counters (attempted,
failed in transport, failed a check, missed a threshold) or one of the four
kinds of database result. Verdicts are computed by the operators of `Verdicts`,
which translate `rules.py`, the category modules, `signals.py` and
`engine.py` of the gate. Reasons and messages are reduced to their presence.

### AssessmentVerdict

A state is one set of results and a policy, and the verdicts are functions of
it. A step makes one thing worse (a check fails, a request goes unanswered, a
threshold is missed, a regression is found), so the action properties compare
verdicts of neighbouring inputs. The program does not take such steps; they
enumerate its inputs. The static categories come from `StaticAssessment`, as
functions of what discovery found, of whether there is a target, and of whether
the database has tables (`tables`; one with nothing but views is assessed, but
has none).

### LoadPlan and PerformanceRunner

An optional argument is a set with at most one element. `BuildLoadProfile` is
either empty (a `ConfigurationError`) or the profile. Pool threads are
interchangeable, so the runner counts them: waiting for a task, past the check
of the cancellation event, inside the executor. A request that ends is a
sample, failed or not, slow or not. Latency is the flag slow, so that the 95th
percentile by nearest rank is a count.

### ScenarioRunner

One call of `run_scenario` on a scenario that validation accepts (`Valid`, the
initial condition). `pc` follows the code: preconditions, opening of driver,
browser, context and page, the loop over the steps, and in each step the match
of the selector, the action, the screenshot and the snapshot (body, title,
element) the assertion is evaluated on. `raised` is the exception on its way out.

The session has three layers, driver, browser and context. `opened` says how many
are running, `guarded` how many `try` blocks have been entered. These are two
counters because they are two steps: the code opens a layer by a call
(`executor.py:297,305,314`) and enters the `try` whose `finally` closes it
afterwards (299, 307-313, 317; `EnterTry`), and an exception or a Ctrl+C in between
leaves that layer without a close of its own. `missed` collects the layers this
happened to, and those whose close failed. `Close` is one `finally` clause, from the
inside out: it may raise or be interrupted, with or without effect, and the outer
ones still run. What runs on a layer ends with it. `Interrupt` is a Ctrl+C at any
moment until the closing begins; from then on it is part of `Close`.

Time is counted in ticks. A call with a timeout takes up to that timeout; a call
without one takes up to `MaxStall`: `count()`, `title()`, and every call that opens
or closes the driver, the browser, the context or the page, all of which count towards
the duration a scenario reports. The constants for 0.05 s, 1 s, 1800 s
keep the order of the code's values, not their ratio. A snapshot of an element
is the number of matches and the answer to the one question its assertion asks
(yes, no, could not be read). Selector types, messages, evidence, redaction and
the ids of steps are left out. `AssertionEngineError` has no action: the
parameters an evaluator needs are always set by `_build_step_test_case`.

Three things the model has and the documents do not. A browser that cannot be
launched gives *not_assessed*, where the table in `docs/WEB_SCENARIOS.md:166-172`
says *ERROR*. An assertion on a selector with several matches reads the first one,
and an assertion whose reading timed out is evaluated without it, where the same
table says *ERROR* for ambiguous selectors and timeouts; `FailureIsAnAssertion`
therefore speaks of what left the execution of a step as an exception, not of the
evidence an assertion was evaluated on. And the driver can be left running, see
below.

### Configuration and CommandLine

A YAML value is of one of six forms (null, text, a number that is not finite, a
number, a list, a mapping), which is what the isinstance tests of `config.py`
tell apart. `Build` is the default, replaced field by field; `LoadConfig` clamps
and validates. The sections modelled are `ci`, `quality_gate`, `browser` and
`regression`; the others go through the same function.

`CommandLine` is one invocation. `invocation` is a command, its flags and a
format, restricted to what `build_parser` accepts (`Surface`, `Always`,
`FormatsOf`). `at` follows the code: usage checks that need no configuration,
the configuration, checks that need it, the baseline, discovery, and then per
stage the plan, the prompt, the run; comparison and conclusion. `assess`, `web
assess`, `baseline save` and `baseline compare` share this pipeline; the one-stage
commands leave it by paths of their own, where a refused plan is an exit code
rather than a reason. `Run` repeats the functional tests as `ci.retry.count`
allows. An adapter may refuse a plan or return any result of `Outcomes`;
`consented`, `traffic` and `runs` record what was asked and sent.

A command also ends by what nobody catches (`raised`): an adapter raises, before or
after it reached its target (`RunRaises`: the `TypeError` of `scenario_timeouts`, a
browser that is gone, an URL that httpx does not take), the output cannot be
written (`WriteFails`), or the user presses Ctrl+C at any moment (`Interrupt`, exit
code 130). Then there is a traceback, and at most part of the report.

### OpenApi, ApiTests, Discovery, StaticAssessment, Regression

Pure operators over data reduced to what the code branches on. A document has a
marker, a version, security schemes, components and paths; a schema is text, a
number, opaque, an array, an object or an `allOf`, and refers to other
components by name, so cycles can be written. `Generable` says of which schemas
`generate_value` is sure of its value: `Values` is a recursive function over the
chain of references already followed, the code's guard against cycles, and
`HasValue` the case distinction of `generate_value` on top of it. What it is held
against, `Constructible`, has no recursion and no chains: the least set of
components closed under "all its required parts are in it". A nested or recursive
`allOf` adds nothing to a value in the code although the docstring of
`request_data.py` promises completeness, so `NothingMadeUp` leaves compositions of
that kind out (`PlainComposition`). `TestCases` are the positive and at most three
negative tests of each operation, in order; `Results` what the assertions make of the answers, by
position, since the position is the test's name. `Dropped` names the parameters a
request leaves out although the operation requires them, and says nothing about: a
cookie, and one behind a reference that leads nowhere. `Discover` runs the
detectors in the code's order; one that raises leaves its part of the model
empty, for the later ones that read it too. `Compare` has one operator per section of a
snapshot.

### BaselineComparison

Three actors and a file: a process that saves, again and again, and may die
before, while or after it writes; one that compares, in either of the two orders
the code has (`baseline compare` loads first, `assess --baseline` runs first);
and the project, which changes at any time within its family. A run of the
pipeline is one step that computes `Snapshot`; what a pipeline does step by step
is in `CommandLine` and `AssessmentPipeline`. `write_text` truncates, then
writes, so `OpenFile` and `WriteFile` are two actions; a file cut short is no
JSON and is refused. `saved` and `origin` are history variables: what the save
behind the file, and behind the loaded baseline, had seen.

## Runs

| Run | Question | Bounds | Result |
|---|---|---|---|
| `registry` | does any interleaving of starts and workers break the registry's promises? | 4 starts, 2 kept, 1 event each | passes |
| `stream` | does a page whose connection holds see everything and its end? | 1 run, 2 events, 3 connections, 2 breaks, 0 kept | passes |
| `stream_reconnect` | is it true that no handling of a broken connection is needed? | 1 event, 2 connections, 1 break | violated |
| `pipeline` | consent, honesty, reports, and a checklist in order that is settled in the end | every request, 1 request per stage, 3 formats | passes |
| `performance` | ceilings, counting, cancellation, stress, termination | ceilings 3 threads, 3 requests, 2 levels | passes |
| `scenario` | does the report agree with what was done, how late can it end, and what can be left running? | 1 or 2 steps of 16 kinds, 8 kinds to refuse, timeouts of 2 to 5 ticks, stalls of 1 | passes |
| `scenario_timeouts` | can a validated scenario stop on the type of a timeout? | 2 steps, quoted timeouts | violated |
| `verdicts` | do verdicts agree, and never improve when results get worse? | 2 functional, 1 load, 1 browser request, 3 discovered models, 4 policies | passes |
| `cli` | does any command pass the code's own gates, retry what failed, end in order but untold, or end with the wrong code? | every command and flag, 7 configuration files, 1 request per stage, an exception or Ctrl+C anywhere | passes |
| `cli_consent` | do all commands ask, and send nothing in a dry run, as the documents say? | the same | violated |
| `regression` | is what is compared what was saved, what broke seen, what did not change left alone, and every request built from the document? | 10 projects in 3 families that change, 131 others | passes |
| `regression_identity` | does a test only one run has stay out of the comparison? | the same | violated |

Why the bounds are enough. *registry*: with four starts and two kept, two
finished workers can both be late with their final prune while a third run
starts and a fourth is accepted; eviction hits the first and a middle run. With
fewer than four the late prune never meets a full registry. *stream*: two events
are the fewest whose order shows; two breaks give two abandoned handlers that
compete with the live one; keeping no completed run makes the eviction under a
page happen. *pipeline*: stages do not influence each other before the
assessment, so one request each is enough for every rung of the health ladder
except the mixed one, which `verdicts` covers with two. Flags that cannot
matter are fixed at the value most likely to let traffic through. *performance*:
three requests for two threads make one thread take a second task; two levels
distinguish "between levels" from "the end"; arguments lie on both sides of
every ceiling and include 0 and the empty list, which Python treats as absent.
*scenario*: a step that did not pass and the one after it are two steps; every
timeout can be the smallest and can be overtaken by the step or the scenario
deadline; steps that validation refuses are among the candidates. A second
assertion would only read the same page again, so it comes last or alone. Stalls of
one tick are enough to overtake a deadline that is a tick away, at each of the four
calls before the loop and the three after it.
*cli*: the optional stages are independent until the exit code, so one at a time
or all together; the files are one of each kind of mistake plus the two
settings that weaken a gate on purpose. *regression*: a comparison relates two
observations, so families of two to four projects show every pair of changes
(an answer that goes wrong, a dead target, a lost credential, a renumbering
operation, tables, detectors); two components are enough for a schema that
contains itself, the other, or something that is not there (all 121 pairs of
forms), and ten projects lack a document, have several, or have a faulty one. `MCStageSets` has all stages and a run without
target. Retrying, dying and changing are unbounded.

What the violated runs show:

- `stream_reconnect`. The handler of a broken connection is still blocked in
  `queue.get()`. When the worker puts the closing `None`, that handler may take
  it, write it into a dead socket and return. The reconnected handler then
  waits on an empty queue for ever, the page stays on the progress screen and
  never asks for the result, although `static/app.js:585-586` says that "final
  state always arrives via /result once the run thread finishes".
- `cli_consent`. `browser test` opens a browser on its target without `--yes` and
  without a prompt (`cli/main.py:766-795`), although `docs/BROWSER_TESTING.md:54-55`
  and `docs/WEB_SCENARIOS.md:120-121` describe one. The property also says that a
  dry run sends nothing, as the help of the flag does (`cli/parser.py:34`: "Describe
  what would run without executing anything"); `assess --dry-run --database-profile`
  connects to the database all the same (`cli/main.py:617-630`).
  `ConsentBeforeTraffic`, which passes, is what the code does keep to.

- `scenario_timeouts`. `_validate_timeout` asks whether `float()` can read the
  value, so `timeout_seconds: "60"` passes; `run_scenario` compares it as it was
  loaded and stops with a `TypeError`. For a step's timeout this happens after
  earlier steps have acted on the target, and their results are lost.

- `regression_identity`. Tests are called API-001, API-002 and so on by position.
  Adding an operation in front of one that has always been broken moves the
  broken result to a new name, and `compare_functional` reports it as newly
  failed, although `regression/functional_compare.py` and `SPECIFICATION.md`
  have only tests of both runs compared. `BreakageIsSeen` is therefore stated of
  runs with the same document.

What `WithinBudget` says about the "true hard wall-clock ceiling" of
`docs/WEB_SCENARIOS.md:154`: it is none, and this is how far a scenario can exceed it.
The steps end less than `MinStep` + `MaxStall` + the longer of `ShotFloor` and
`MaxStall` after the deadline: the least time of a step, one call without a timeout,
and the longer of another such call and of a last screenshot; overruns of earlier
steps do not add up. The whole scenario takes longer: four calls without a timeout
(driver, browser, context, page) may use up the deadline before the loop finds that
out, and three follow the last step. What such a call takes, no constant of the code
bounds.

What `SessionReleased` says about "never leaks a process" (`executor.py:16-18`): every
`finally` clause that was entered runs, whatever else happens, and nothing is left
running but a driver that was never guarded, because its start was interrupted
before the `try`, or whose own `stop()` failed.

### Fairness

- `RunStream`: each worker, each handler, and the page's connect and fetch are
  weakly fair: threads are scheduled, a blocking `get` or lock is disabled
  rather than ignored, and the page does what its script says. `MaxEvents`
  bounds a worker's events, which stands for a pipeline that terminates.
  Nothing forces a start or a break.
- `CommandLine`: weak fairness of the single thread's steps as a whole (`Step`, not
  `Interrupt`: nobody has to press Ctrl+C). Every adapter is assumed to come back,
  and a prompt is answered or its input closed. `EveryCommandEnds` then rests on
  the bound of the retries.
- `BaselineComparison` has safety properties only and states no fairness.
- `AssessmentPipeline` and `ScenarioRunner` have safety properties only and state no
  fairness. That they end is a matter of calls that are external here: HTTP has
  timeouts, but `title()`, `count()` and the calls that open and close a browser
  session have none, so termination is not claimed.
- `PerformanceRunner`: the running thread, the pool threads and the level's
  deadline are weakly fair. Cancellation and the run timeout are not: a run must
  end without them. `MaxAnswers` bounds the requests of a level that runs by
  duration.

Deadlock checking is off where the system stops: after the last bounded run,
after the pipeline's or the load run's end. `ScenarioRunner` ends in `Done`,
and the run `scenario` checks that it cannot stop before.

## Proofs

`RunRegistryProofs` proves for every value of `MaxCompleted`, `MaxStarts` and
`MaxEvents` (natural numbers, `BoundsAssumption`; nothing else is assumed):
type correctness, the five invariants of the run `registry`, and that
`RunRegistry` implements `RunLifecycle`.

The invariants are not inductive by themselves. `IInv` adds:

- `WorkerInv`, what a worker's position says about its run: done exactly in the
  last three positions, an outcome or an error exactly one of both from the
  `finally` block on. Without it `SetDone` could make a run done with no verdict.
- `CompletedBounded`: at most `MaxCompleted + 1` registered runs are done, and at
  most `MaxCompleted` while a run is in flight. Without it a start could find
  the registry over its bound and `RegistryBounded` would not survive a step.

The argument about eviction is about ranks. `PruneCompleted` removes the
completed runs whose rank among the completed ones is below the overflow.
`RankBound` and `RankOnto` say that ranks in a finite set of integers are
exactly the numbers below its cardinality, so pruning leaves at most
`MaxCompleted` completed runs (`PruneFacts`) and each removed one has at least
`MaxCompleted` newer completed runs. The step lemmas treat the three actions
that touch the registry (`RegistryInvStart`, `RegistryInvSetDone`,
`RegistryInvFinalPrune`); all others leave it alone (`RegistryInvFrame`). For
the refinement, `Start` is `Begin`, `SetDone` is `Finish`, `FinalPrune` is
`Forget`, everything else stutters.

`ScenarioRunnerProofs` proves the four invariants of the run `scenario` for every
set of scenarios, all timeouts and all stalls, from `TimesAssumption` (timeouts are
positive integers, the default lies within its bounds) and `CandidatesAssumption` (a
scenario has finitely many steps, and timeouts that are numbers). Three inductive
invariants, each on top of the one before:

- `SessionInv`: what is opened and what is guarded follow from `pc`, each step apart;
  while the session is being left, a driver that runs unguarded has been missed.
  Theorem `SessionIsReleased` is as strong as the code allows: the windows between
  a layer and its `try` are in it.
- `ReportInv`: `ExecutionInv` ties the executed and the troubled steps to the
  position (a step in progress is executed, is not yet recorded, and raised only
  if it is on its way out), `LeavingInv` ties the pending exception to what was
  done. Recording is the one hard step, for the order of the results and for
  what an error means; `RecordKeepsReport` treats it once for all seven actions
  that record.
- `TimeInv`: for each position, how far the clock may be past the step's
  deadline. `WithinBudget` alone is not inductive: a step in progress may be
  given time up to its own deadline, which must be known to lie less than
  `MinStep` behind the scenario's. Before the loop the clock is bounded by the calls
  made so far, while the session closes by the `finally` clauses still to run.

`PerformanceRunnerProofs` proves, for all ceilings, defaults and arguments
(`CeilingsAssumption`: the ceilings are positive and the defaults below them;
`MaxAnswersAssumption`), the five invariants of the run `performance`:
`BoundedConcurrency`, `WithinEstimate`, `CancellationIsPrompt`, `StressStops`,
`EveryRequestCounted`.
`PlanBelowCeilings` is about the planner: whatever it accepts is below the
ceilings. `IInv` adds to that

- `PoolOK` and `ThreadsBounded`: outside a level the pool is empty, and inside
  one no thread is in two places, so threads never exceed the concurrency;
- `TasksBounded`: requests sent, queued and about to be sent are at most those
  of the levels so far. Requests sent alone could not be bounded: a step that
  sends must know that it used up a task;
- `LateBounded`: late requests and threads past the check of the event together
  are at most the threads of the level; after the level, of the one before;
- `StopsOK`: a stress run that goes on has no level that met a stop condition.

`EveryRequestCounted` is stated with running totals rather than a fold: a step that
ends a level extends the witness by one total, a request in flight moves into the
sample, and every other step leaves the sum alone (`CountStep`).

`BaselineComparisonProofs` proves `ComparedWasSaved`, `NoFalseAlarm`,
`BreakageIsSeen` and `NothingMadeUp` for all families of projects, all sets of stages and every tolerance.
`ProjectAssumption` says what a project is (one record of `Fields`, finitely many
documents with finitely many components each, paths in a sequence, at most one
`security` field per operation, one document named by `--openapi`, a metric measured
at most once),
`BaselineAssumption` that tolerances are not negative and that a target is enough
for the functional tests to run.

- For `ComparedWasSaved` the invariant ties a complete file to what its save had
  seen (`FileWasSaved`); opening the file forgets it, so that neither a save
  that died nor one in progress is mistaken for another.
- For `NoFalseAlarm`, `OneRunEach` says there is one run on either side. The
  rest is about `Compare`: for each section, that equal sections have no
  findings (`EqualTests` to `EqualRuns`); that two projects with the same answers
  differ in nothing but the database, discovery and assessment sections
  (`OnlySurroundings`). The first two only inform (`TablesInform`,
  `DiscoveriesInform`), and an assessment category is a severe regression only
  when it comes to fail (`VerdictsRegressToFail`), which only the four can that
  execute something (`OnlyExecutionFails`); these depend on what did not change
  (`ExecutionDecides`). So findings are medium at most (`SurroundingsInform`) and
  the status is not fail (`StatusFollowsFindings`).
- For `BreakageIsSeen`, `BaselineThere` says that a finished comparison has a
  baseline. What broke is in a section both snapshots have (`BrokenTest`,
  `BrokenPage`, `BrokenScenario`), is a finding of high severity there
  (`BreakageIsGrave`), and such a finding closes the gate whatever else the
  comparison and the current run come to (`GraveFindingsBlock`).
- For `NothingMadeUp` the recursive definitions have to be known to mean something.
  A set of natural numbers has a least member (`LeastNumber`), which serves as
  induction: `Flattened` is about the concatenation of any number of sequences, and
  `ValuesLookAhead` says that the recursion of `Values` has a solution, because a
  chain of references only leads to longer ones and the document is finite.
  `GenerableIsConstructible` is the heart: suppose some chain leads to a value that
  is not constructible, take the longest such chain; whatever the value is built
  from lies behind a longer one and is constructible, so the value is
  (`ValueIsConstructible`; the parts of an `allOf`, which the code looks at one level
  deep, go by themselves in `PartsAreKnown`). It holds for recursive and dangling
  references alike. From there on, every endpoint is an operation of the document
  (`EndpointsAreOperations`), every test that is sent belongs to an endpoint with a
  request and a credential (`SentTests`), such an endpoint is described and secured
  (`RequestsAreDescribed`, `SecurityIsOpened`), and the load test is about all that
  `--endpoint` and `--method` can mean (`SelectedIsMeant`).

`RunStreamProofs` extends the registry's argument to the composition, from
`BoundsAssumption` and `StreamBoundsAssumption`. A step of a handler or of the
page leaves the registry alone, so `IInv` survives (`StreamsKeepRegistry`).
`SInv` adds to it `HandlersOK` (which run a handler serves, and what it holds)
and `SentinelMeansDone`: wherever the closing `None` of a run is, in its queue
or in the hands of a handler, that run is done. Without it a handler that takes
the `None` could tell the page to fetch a result that is not there yet, which is
what `NeverFetchedEarly` excludes. `StreamsRefineLifecycle` carries the refinement
over: registry, handlers, pages and broken connections together implement
`RunLifecycle`, since nothing but a step of the registry changes what it sees
(`StreamStepRefines`).

`UnbrokenStreamIsComplete` needs an invariant that follows every item from the worker
to the page. `CInv` adds to `SInv`

- `QueuesOK`: the closing `None` is the last item of a queue, and the worker is past
  putting it;
- `ConnectionsOK`: a page has at most one live connection, and exactly one while it
  watches and none has broken. Two of them would each take a part of the queue, as
  `stream_reconnect` shows;
- `StreamShows`: what the page has seen, what its handler holds, what is queued and
  what the worker has recorded but not yet put, one after the other, end with the
  whole run so far. Before the snapshot nothing has been taken (`Untouched`), so the
  handler may start with the recorded events although the queue repeats them; once
  the handler holds the `None`, what it holds is final.

No single queue or handler has the whole run, so neither `UnbrokenStreamComplete`
nor a statement about one of them is inductive.

`AssessmentPipelineProofs` proves the invariants `NothingUnasked`,
`NeverOverclaimed`, `ReportsAreFinal`, `GreenMeansClean` and the
order of the checklist, for all requests, results, formats and policies of
`PipelineAssumption`. `IInv` says for each position what is true there:
`PositionOK` (`current` and `at` fit), `PhasesOK` (which phases have started and
ended, and that a stage left behind is settled unless it is one of `Unannounced`),
`TrafficOK` (what was sent passed its gate), `EvidenceOK` and `ReasonsOK`
(a stage that is over has a result or a reason, one that is not has neither),
`VerdictsOK` (category statuses are those of the results, which
`NeverOverclaimed` needs long after the stages ended), `ReportsOK`, `GateOK`.
`GreenIsClean` assumes the policy to be `Strict`: it fails on functional failures and
missed thresholds and does not excuse an unreachable target. The default
policy is one; for a laxer one the statement is false, as it should be.

`CommandLineProofs` proves `ConsentBeforeTraffic`, `NothingRunsUntold`,
`RetriesOnlyOutages` and `AssessExitCode` for all invocations, documents and
results of the adapters. `CommandLineAssumption` says that the adapters' counts
are consistent, that only the load test misses thresholds, and which categories
the findings of a comparison have; `FilesAssumption` that a number read with
`int()` is an integer. `IInv` follows the position: `ConfiguredOK` (the
configuration in use is the one `LoadConfig` accepted), `ConsentOK` (a stage past
its prompt was consented to), `RetryOK` (a repeat follows a total transport
failure and is within `ci.retry.count` as clamped), `ToldOK` (a stage that is over
has its result or reason), `ResultsOK`. Steps are either in order (`Orderly`), and
then each part has a lemma of its own, or an end by an exception (`Breaks`), which
keeps all of them at once (`BreakKeeps`). `PolicyKept` is the step that makes the
exit code a matter of the document: a category it does not mention keeps the
default rules.

`AssessmentVerdictProofs` proves the two invariants and the two action properties
of the run `verdicts`, for any number of requests, any models and any policies
(`VerdictAssumption`: attempts are natural numbers). `EvidenceInvariant` is all
that is needed of the past. Every step either adds a finding or replaces one result by a worse
one (`StepReplaces`), so a category status can only get worse (`HealthWorsens`,
`CategoriesWorsen`) and so do the headlines, which look at the set of statuses
(`SeverityGrows`). For `BlockedIsFinal` the signal that blocks either stays, or its
category comes to fail, which is an infrastructure signal and makes the gate an
error, or it is the overall status, which `ClosedUpwards` covers.

Every invariant and every action property of the runs is proved. Only model-checked
is liveness (`UnbrokenWatcherFinishes` of `RunStream`, and that load tests and
commands end): the prover has no support for ENABLED and fairness. What a
proof does not say is that the code reaches the interesting states; that is what
the runs are for, in which every action fires.

## Where the code and its documents differ

The four violated runs are above. The following were met while modelling; the
models do what the code does and no property claims otherwise.

- Consent. `web assess --target` also sends the functional tests when the project
  has an OpenAPI document.
- The checklist. With functional testing off, `_run_functional` returns without an
  event (`application/service.py:224`), whereas most other optional stages emit
  *skipped*, and its entry stays pending; `docs/GUI_ARCHITECTURE.md:47-48` has an
  event at each stage boundary. A comparison that was not asked for and the quality
  gate are silent in the same way. `ChecklistProtocol` names the three
  (`Unannounced`) and holds all other stages to it.
- Web scenarios. The deadline is no ceiling and the driver can be left running, as
  said above; `executor.py:16-18` and `SPECIFICATION.md:675-677` guarantee the cleanup.
  Ambiguous selectors and readings that time out are not *ERROR*
  (`executor.py:144-145`, `docs/WEB_SCENARIOS.md:170-171`).
- Command line. An exception of an adapter ends a command with a traceback and no
  report, after something was sent (`cli/main.py:732-741,891`); a report that cannot be
  written costs those that come after it.
- Configuration. `ci.retry.count: abc` is a `ValueError` nobody catches, with the
  exit code of a failed gate. `regression.performance: null` disables every
  tolerance, and a negative tolerance is accepted.
- Baselines. `baseline save --dry-run` writes; saving to an existing path
  overwrites it, although `SPECIFICATION.md` says no code path does. A run
  without `--target` may turn testability from pass to warning and thereby
  count as a regression, although `ARCHITECTURE.md:1003-1006` excludes missing
  data. A table whose metadata cannot be read is reported as removed. A
  performance comparison ignores which endpoint was loaded.
- OpenAPI. A required cookie is never sent (`test_generation.py:98-116`), and nothing
  is said of that; `NothingMadeUp` is about what a request does contain. A load test is
  sent whether or not the credential its operation asks for is there. Nested,
  recursive and unresolvable parts of an `allOf` add nothing,
  and siblings of `allOf` are lost in part (`request_data.py:66-70,106-114`). With
  several 2xx codes every answer is held against the first one's schema
  (`test_generation.py:166-172`). A parameter whose reference does not resolve
  is dropped although required; parameters of the same name on path and operation
  are both kept (`normalizer.py:111-114`). Requirements for two schemes at once
  are met with one, and the optional requirement `{}` is not seen as optional
  (`normalizer.py:97-104`). The negative test for a missing query parameter
  sends it all the same when an API key has its name.
- Performance. `resolve_performance_target` falls back to `--endpoint` also for a
  document without operations (`performance.py:69-70,81-99`).
- Assessment. `assessment_completeness` can never be full, since
  `_compute_unassessed` always names business logic (`engine.py:124-126,174-176`).
- The page. A late answer of `/api/web/detect` or `/api/perf/endpoints` for the
  folder picked before is shown for the new one (`app.js:64-87,167-213,358-371`),
  and consent checkboxes survive a change of target (`app.js:282-300`).

## Not modelled

- Reporting, redaction and logging: formatting and regular expressions over
  text. Which files are written is in `AssessmentPipeline` and `CommandLine`.
- What a detector matches in file names, manifests and texts; `Discover` takes
  it as a parameter.
- Reading YAML and JSON; the depth limits of value generation (10) and of
  reference resolution (40), which no document of the runs comes near: beyond
  them the code has no value and sends less than the model; what a request looks
  like on the wire.
- The browser smoke test of `adapters/browser/adapter.py`, which goes through the
  session `ScenarioRunner` has, and is in the pipelines as a result.
- The form of the GUI page, its folder dialogs, previews and static files; the
  local static server and the launcher, which only start processes and sockets.
- Drivers, playwright and HTTP are external: models have the outcomes their
  wrappers let through. A usage error of argparse, a failing `Thread.start()`,
  the file system and the process are outside, except as an exception that
  ends a pipeline, an output that cannot be written, and the death of a save.

## Plan

What is left, in this order:

1. The page's form with its pending requests, as a module next to `RunStream`, and
   the smoke test as a second user of the session of `ScenarioRunner`.
