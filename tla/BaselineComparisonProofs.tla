----------------------- MODULE BaselineComparisonProofs -----------------------
(***************************************************************************)
(* Theorems about BaselineComparison, for all families of projects, all    *)
(* sets of stages and every tolerance: a comparison uses what was saved,   *)
(* cries no wolf and lets no breakage through, and no request that is sent *)
(* is made up.                                                             *)
(***************************************************************************)
EXTENDS BaselineComparison, FiniteSetTheorems, SequenceTheorems, TLAPS

Observed == {Observation(p, stages) : p \in UNION Families, stages \in StageSets}
Snapshots == {o.snapshot : o \in Observed}

(* The processes and what passes between them. *)
ProcessesOK ==
    /\ project \in UNION Families
    /\ saved \subseteq Observed
    /\ saver \in {Idle} \cup [at : {"observed", "writing"}, seen : Observed]
    /\ comparer \in {Idle} \cup [at : {"begun", "both"}, next : {"load", "run"},
                                 baseline : SUBSET Snapshots, origin : SUBSET Observed,
                                 seen : SUBSET Observed]

(* A complete file is the snapshot of the save that saved remembers. *)
FileWasSaved ==
    \/ file \in {Absent, Truncated, Foreign}
    \/ \E o \in saved : file = Complete(o.snapshot)

(* There is one save behind a file, and one run on either side of a comparison. *)
OneRunEach ==
    /\ \A a, b \in saved : a = b
    /\ comparer # Idle => /\ \A a, b \in comparer.origin : a = b
                         /\ \A a, b \in comparer.seen : a = b

IInv == ProcessesOK /\ FileWasSaved /\ ComparedWasSaved /\ OneRunEach

LEMMA BaselineInit == Init => IInv
  BY DEF Init, IInv, ProcessesOK, FileWasSaved, ComparedWasSaved, OneRunEach

LEMMA StatesDiffer ==
    /\ Absent.state = "absent" /\ Truncated.state = "truncated" /\ Foreign.state = "foreign"
    /\ \A s : Complete(s).state = "complete" /\ Complete(s).snapshot = s
  BY DEF Absent, Truncated, Foreign, Complete

LEMMA IdleDiffers ==
    Idle.at = "idle" /\ \A at, seen : [at |-> at, seen |-> seen] # Idle
  BY DEF Idle

LEMMA BaselineStep == IInv /\ [Next]_baselineVars => IInv'
<1> SUFFICES ASSUME IInv, [Next]_baselineVars PROVE IInv'
  OBVIOUS
<1> USE DEF IInv, ProcessesOK, FileWasSaved, ComparedWasSaved, OneRunEach
<1>1. CASE UNCHANGED baselineVars
  BY <1>1 DEF baselineVars
<1>2. CASE RunBeforeSave
  <2>1. \A stages \in StageSets : Observation(project, stages) \in Observed
    BY DEF Observed
  <2> QED
    BY <1>2, <2>1 DEF RunBeforeSave
<1>3. CASE OpenFile
  <2>1. saver # Idle
    BY <1>3, IdleDiffers DEF OpenFile
  <2> QED
    BY <1>3, <2>1 DEF OpenFile
<1>4. CASE WriteFile
  <2>1. saver # Idle
    BY <1>4, IdleDiffers DEF WriteFile
  <2> QED
    BY <1>4, <2>1 DEF WriteFile
<1>5. CASE SaverDies
  BY <1>5 DEF SaverDies
<1>6. CASE BeginComparison
  BY <1>6 DEF BeginComparison
<1>7. CASE LoadBaseline
  <2>1. comparer # Idle /\ file.state = "complete"
    BY <1>7, IdleDiffers DEF LoadBaseline, Loads
  <2>2. PICK o \in saved : file = Complete(o.snapshot)
    BY <2>1, StatesDiffer
  <2>3. file.snapshot = o.snapshot
    BY <2>2, StatesDiffer
  <2>4. file.snapshot \in Snapshots
    BY <2>3 DEF Snapshots
  <2>5. comparer'.baseline = {file.snapshot} /\ comparer'.origin = saved /\ comparer'.seen = comparer.seen
    BY <1>7, <2>1 DEF LoadBaseline
  <2>6. ProcessesOK'
    BY <1>7, <2>1, <2>4 DEF LoadBaseline
  <2>7. ComparedWasSaved' /\ OneRunEach'
    <3>1. UNCHANGED <<file, saved>>
      BY <1>7 DEF LoadBaseline
    <3> QED
      BY <2>1, <2>2, <2>3, <2>5, <3>1
  <2>8. FileWasSaved'
    BY <1>7 DEF LoadBaseline
  <2> QED
    BY <2>6, <2>7, <2>8
<1>8. CASE RefuseBaseline
  BY <1>8 DEF RefuseBaseline
<1>9. CASE RunPipeline
  <2>1. comparer # Idle
    BY <1>9, IdleDiffers DEF RunPipeline
  <2>2. PICK stages \in StageSets :
           comparer' = [comparer EXCEPT !.seen = {Observation(project, stages)}, !.next = "load",
                                        !.at = IF comparer.baseline # {} THEN "both" ELSE "begun"]
    BY <1>9 DEF RunPipeline
  <2> DEFINE one == {Observation(project, stages)}
  <2>3. one \in SUBSET Observed /\ \A a, b \in one : a = b
    BY DEF Observed
  <2>4. comparer' = [comparer EXCEPT !.seen = one, !.next = "load",
                                     !.at = IF comparer.baseline # {} THEN "both" ELSE "begun"]
    BY <2>2
  <2> HIDE DEF one
  <2>5. /\ comparer'.baseline = comparer.baseline /\ comparer'.origin = comparer.origin
        /\ comparer'.seen = one
        /\ comparer' \in [at : {"begun", "both"}, next : {"load", "run"},
                          baseline : SUBSET Snapshots, origin : SUBSET Observed,
                          seen : SUBSET Observed]
    BY <2>1, <2>3, <2>4
  <2>6. UNCHANGED <<project, file, saver, saved>>
    BY <1>9 DEF RunPipeline
  <2> QED
    BY <2>1, <2>3, <2>5, <2>6
<1>10. CASE EndComparison
  BY <1>10 DEF EndComparison
<1>11. CASE Drift
  BY <1>11 DEF Drift
<1> QED
  BY <1>1, <1>2, <1>3, <1>4, <1>5, <1>6, <1>7, <1>8, <1>9, <1>10, <1>11 DEF Next

(* The strengthened invariant holds in every reachable state. *)
THEOREM BaselineInvariant == Spec => []IInv
  BY BaselineInit, BaselineStep, PTL DEF Spec

(* However saves, their deaths and comparisons overlap, a comparison is made
   with what one save had seen that ran to its end (baseline_store.py). *)
THEOREM BaselineIsGenuine == Spec => []ComparedWasSaved
<1>1. IInv => ComparedWasSaved
  BY DEF IInv
<1> QED
  BY <1>1, BaselineInvariant, PTL

-----------------------------------------------------------------------------
(* What a comparison finds between equal sections, and how bad the findings
   are that are informational only. *)

LEMMA EqualTests ==
    ASSUME NEW category, NEW results PROVE TestFindings(category, results, results) = {}
<1>1. \A status : Classified(category, status, status) = "unchanged"
  BY DEF Classified
<1>2. DOMAIN TestSeverity = {"regressed", "changed"}
  BY DEF TestSeverity
<1> QED
  BY <1>1, <1>2 DEF TestFindings

LEMMA EqualMetrics ==
    ASSUME NEW metric, NEW n \in Int, BaselineAssumption
    PROVE ~MetricRegressed(metric, n, n, Tolerance)
<1>1. \A percent \in Nat : ~RisesBeyond(n, n, percent) /\ ~FallsBeyond(n, n, percent)
  <2> SUFFICES ASSUME NEW percent \in Nat, n > 0 PROVE ~(0 > percent * n)
    BY DEF RisesBeyond, FallsBeyond
  <2> QED
    OBVIOUS
<1>2. \A threshold \in DOMAIN Tolerance : Tolerance[threshold] \in Nat
  BY BaselineAssumption DEF BaselineAssumption
<1>3. CASE metric \in DOMAIN LatencyThreshold
  BY <1>1, <1>2, <1>3 DEF MetricRegressed
<1>4. CASE metric \notin DOMAIN LatencyThreshold
  BY <1>1, <1>2, <1>4 DEF MetricRegressed
<1> QED
  BY <1>3, <1>4

LEMMA EqualLoad ==
    ASSUME NEW p \in UNION Families
    PROVE PerformanceFindings(p.load.levels, p.load.levels, Tolerance) = {}
<1> DEFINE l == p.load.levels
<1>1. \A level \in DOMAIN l, metric \in ComparedMetrics :
         \A b, a \in l[level][metric] : ~MetricRegressed(metric, b, a, Tolerance)
  BY EqualMetrics, ProjectAssumption, BaselineAssumption DEF ProjectAssumption
<1> HIDE DEF l
<1>2. PerformanceFindings(l, l, Tolerance) = {}
  BY <1>1 DEF PerformanceFindings
<1> QED
  BY <1>2 DEF l

LEMMA EqualTables == ASSUME NEW t PROVE DatabaseFindings(t, t) = {}
  BY DEF DatabaseFindings

LEMMA TablesInform ==
    ASSUME NEW s, NEW t PROVE \A f \in DatabaseFindings(s, t) : f.severity = "info"
<1>1. \A item, change : Finding("database", item, change, "info").severity = "info"
  BY DEF Finding
<1>2. ASSUME NEW f \in DatabaseFindings(s, t)
      PROVE \E item, change : f = Finding("database", item, change, "info")
  BY Zenon DEF DatabaseFindings
<1> QED
  BY <1>1, <1>2

LEMMA EqualDiscoveries == ASSUME NEW d PROVE DiscoveryFindings(d, d) = {}
  BY DEF DiscoveryFindings

LEMMA DiscoveriesInform ==
    ASSUME NEW d, NEW e PROVE \A f \in DiscoveryFindings(d, e) : f.severity = "info"
  BY DEF DiscoveryFindings, Finding

LEMMA EqualVerdicts == ASSUME NEW a PROVE AssessmentFindings(a, a) = {}
<1>1. \A status : AssessmentSeverity(status, status) = {}
  BY DEF AssessmentSeverity
<1> QED
  BY <1>1 DEF AssessmentFindings

(* Nothing is a grave regression of the assessment as long as no category comes
   to fail. *)
LEMMA VerdictsRegressToFail ==
    ASSUME NEW a, NEW b,
           \A name \in DOMAIN a \cap DOMAIN b : b[name] = "fail" => a[name] = "fail"
    PROVE \A f \in AssessmentFindings(a, b) : f.severity = "medium"
<1>1. \A name \in DOMAIN a \cap DOMAIN b : AssessmentSeverity(a[name], b[name]) \subseteq {"medium"}
  BY DEF AssessmentSeverity
<1> QED
  BY <1>1 DEF AssessmentFindings, Finding

-----------------------------------------------------------------------------
(* A run sees at most one of everything a snapshot has a section for. *)

LEMMA OneDocument ==
    ASSUME NEW p \in UNION Families
    PROVE \A f, g \in SelectSpecification(p.files, p.openapi) : f = g
<1>1. IsFiniteSet(DOMAIN p.files) /\ \A f, g \in p.openapi : f = g
  BY ProjectAssumption DEF ProjectAssumption
<1>2. CASE p.openapi # {}
  BY <1>1, <1>2 DEF SelectSpecification
<1>3. CASE p.openapi = {} /\ Cardinality(Candidates(p.files)) = 1
  <2>1. IsFiniteSet(Candidates(p.files))
    BY <1>1, FS_Subset DEF Candidates
  <2>2. \E f : Candidates(p.files) = {f}
    BY <1>3, <2>1, FS_Singleton
  <2> QED
    BY <1>3, <2>2 DEF SelectSpecification
<1>4. CASE p.openapi = {} /\ Cardinality(Candidates(p.files)) # 1
  BY <1>4 DEF SelectSpecification
<1> QED
  BY <1>2, <1>3, <1>4

LEMMA OneApi == ASSUME NEW p \in UNION Families PROVE \A a, b \in Api(p) : a = b
<1>1. \A document : \A a, b \in ParseSpecification(document) : a = b
  BY DEF ParseSpecification
<1> QED
  BY <1>1, OneDocument DEF Api, Specification

LEMMA OneSectionEach ==
    ASSUME NEW p \in UNION Families, NEW stages
    PROVE /\ \A s, t \in FunctionalSection(p, stages) : s = t
          /\ \A s \in LoadSection(p, stages, p.load.levels) : s = p.load.levels
          /\ \A s, t \in ScenarioSection(p, stages) : s = t
<1>1. \A s, t \in FunctionalSection(p, stages) : s = t
  BY OneApi DEF FunctionalSection, Only
<1>2. \A s \in LoadSection(p, stages, p.load.levels) : s = p.load.levels
  BY DEF LoadSection, Only
<1>3. \A s, t \in ScenarioSection(p, stages) : s = t
  BY DEF ScenarioSection, Only
<1> QED
  BY <1>1, <1>2, <1>3

-----------------------------------------------------------------------------
(* Two runs that saw the same tests and the same load: what is left to find. *)
TableFindings(p, q, stages) ==
    UNION {DatabaseFindings(b, c) : b \in Only("database", stages, {Readable(p)}),
                                    c \in Only("database", stages, {Readable(q)})}

LEMMA OnlySurroundings ==
    ASSUME NEW p \in UNION Families, NEW q \in UNION Families, NEW stages,
           FunctionalSection(p, stages) = FunctionalSection(q, stages),
           LoadSection(p, stages, p.load.levels) = LoadSection(q, stages, q.load.levels),
           Only("browser", stages, {p.browser}) = Only("browser", stages, {q.browser}),
           ScenarioSection(p, stages) = ScenarioSection(q, stages)
    PROVE Compare(Snapshot(p, stages), Snapshot(q, stages), Tolerance)
            = TableFindings(p, q, stages)
              \cup DiscoveryFindings(DiscoverySnapshot(Model(p)), DiscoverySnapshot(Model(q)))
              \cup AssessmentFindings(Categories(p, stages), Categories(q, stages))
<1> DEFINE b == Snapshot(p, stages)
           c == Snapshot(q, stages)
<1>1. /\ b.functional = FunctionalSection(p, stages) /\ c.functional = b.functional
      /\ b.performance = LoadSection(p, stages, p.load.levels) /\ c.performance = b.performance
      /\ b.browser = Only("browser", stages, {p.browser}) /\ c.browser = b.browser
      /\ b.scenario = ScenarioSection(p, stages) /\ c.scenario = b.scenario
      /\ b.database = Only("database", stages, {Readable(p)})
      /\ c.database = Only("database", stages, {Readable(q)})
      /\ b.discovery = DiscoverySnapshot(Model(p)) /\ c.discovery = DiscoverySnapshot(Model(q))
      /\ b.assessment = Categories(p, stages) /\ c.assessment = Categories(q, stages)
  BY DEF Snapshot
<1>2. \A category \in DOMAIN Good :
         UNION {TestFindings(category, x, y) : x \in b[category], y \in c[category]} = {}
  <2>1. DOMAIN Good = {"functional", "browser", "scenario"}
    BY DEF Good
  <2>2. \A category \in DOMAIN Good : \A x \in b[category], y \in c[category] : x = y
    <3>1. \A x, y \in Only("browser", stages, {p.browser}) : x = y
      BY DEF Only
    <3> HIDE DEF b, c
    <3>2. \A x \in b.functional, y \in c.functional : x = y
      BY <1>1, OneSectionEach
    <3>3. \A x \in b.browser, y \in c.browser : x = y
      BY <1>1, <3>1
    <3>4. \A x \in b.scenario, y \in c.scenario : x = y
      BY <1>1, OneSectionEach
    <3> QED
      BY <2>1, <3>2, <3>3, <3>4
  <2> HIDE DEF b, c
  <2> QED
    BY <2>2, EqualTests
<1> HIDE DEF b, c
<1>3. UNION {PerformanceFindings(x, y, Tolerance) : x \in b.performance, y \in c.performance} = {}
  BY <1>1, OneSectionEach, EqualLoad
<1>4. Compare(b, c, Tolerance)
        = (UNION {DatabaseFindings(x, y) : x \in b.database, y \in c.database})
          \cup DiscoveryFindings(b.discovery, c.discovery)
          \cup AssessmentFindings(b.assessment, c.assessment)
  <2>1. UNION {UNION {TestFindings(category, x, y) : x \in b[category], y \in c[category]} :
                  category \in DOMAIN Good} = {}
    BY <1>2
  <2> QED
    BY <1>3, <2>1 DEF Compare
<1> QED
  BY <1>1, <1>4 DEF b, c, TableFindings

LEMMA EqualRuns ==
    ASSUME NEW p \in UNION Families, NEW stages
    PROVE Compare(Snapshot(p, stages), Snapshot(p, stages), Tolerance) = {}
<1>1. \A x, y \in Only("database", stages, {Readable(p)}) : x = y
  BY DEF Only
<1>2. TableFindings(p, p, stages) = {}
  BY <1>1, EqualTables DEF TableFindings
<1>3. DiscoveryFindings(DiscoverySnapshot(Model(p)), DiscoverySnapshot(Model(p))) = {}
  BY EqualDiscoveries
<1>4. AssessmentFindings(Categories(p, stages), Categories(p, stages)) = {}
  BY EqualVerdicts
<1>5. Compare(Snapshot(p, stages), Snapshot(p, stages), Tolerance)
        = TableFindings(p, p, stages)
          \cup DiscoveryFindings(DiscoverySnapshot(Model(p)), DiscoverySnapshot(Model(p)))
          \cup AssessmentFindings(Categories(p, stages), Categories(p, stages))
  BY OnlySurroundings, Zenon
<1> QED
  BY <1>2, <1>3, <1>4, <1>5

(* Neither the database nor anything that is not executed ever fails. *)
LEMMA OnlyExecutionFails ==
    ASSUME NEW p, NEW stages, NEW name \in DOMAIN Categories(p, stages),
           Categories(p, stages)[name] = "fail"
    PROVE name \in {"functional", "performance", "browser", "scenario"}
<1>1. \A m, target, tables :
         LET static == StaticCategories(m, target, tables)
         IN  \A c \in DOMAIN static : static[c] # "fail"
  BY DEF StaticCategories, ProjectDiscovery, BuildHealth, Testability, ConfigurationHygiene,
         TestInfrastructure, FrontendHealth
<1>2. \A evidence : DatabaseCategory(evidence) # "fail"
  BY DEF DatabaseCategory
<1> DEFINE static == StaticCategories(Model(p), stages \ {"database"} # {},
                                      "database" \in stages /\ DOMAIN Readable(p) # {})
           evidence == Only("database", stages, DatabaseEvidence(p))
<1>3. \A c \in DOMAIN static : static[c] # "fail"
  BY <1>1
<1>4. name = "database" => Categories(p, stages)[name] = DatabaseCategory(evidence)
  BY DEF Categories
<1>5. name \in {"functional", "performance", "database", "browser", "scenario"}
        \/ (name \in DOMAIN static /\ Categories(p, stages)[name] = static[name])
  BY DEF Categories
<1> HIDE DEF static, evidence
<1> QED
  BY <1>2, <1>3, <1>4, <1>5

(* The four categories that may fail are functions of what was executed. *)
LEMMA ExecutionDecides ==
    ASSUME NEW p, NEW q, NEW stages,
           FunctionalSection(p, stages) = FunctionalSection(q, stages),
           LoadSection(p, stages, p.load.counts) = LoadSection(q, stages, q.load.counts),
           p.browser = q.browser,
           ScenarioSection(p, stages) = ScenarioSection(q, stages)
    PROVE \A name \in {"functional", "performance", "browser", "scenario"} :
             Categories(p, stages)[name] = Categories(q, stages)[name]
<1> DEFINE Browser(r) == {Tally(b, "failed") : b \in Only("browser", stages, {r.browser})}
<1>1. Browser(p) = Browser(q)
  OBVIOUS
<1>2. \A r : /\ Categories(r, stages)["functional"]
                  = ExecutionCategory({Summary(f) : f \in FunctionalSection(r, stages)})
             /\ Categories(r, stages)["performance"]
                  = PerformanceCategory(LoadSection(r, stages, r.load.counts))
             /\ Categories(r, stages)["browser"] = ExecutionCategory(Browser(r))
             /\ Categories(r, stages)["scenario"]
                  = ExecutionCategory({Tally(s, "fail") : s \in ScenarioSection(r, stages)})
  BY DEF Categories
<1> HIDE DEF Browser
<1> QED
  BY <1>1, <1>2

-----------------------------------------------------------------------------
(* Two projects that differ in their tables, in what detectors find or in
   which of them raise. *)
SameButSurroundings(p, q) ==
    p = [q EXCEPT !.tables = p.tables, !.unreadable = p.unreadable,
                  !.found = p.found, !.raising = p.raising]

LEMMA SurroundingsInform ==
    ASSUME NEW p \in UNION Families, NEW q \in UNION Families, NEW stages,
           SameButSurroundings(p, q)
    PROVE \A f \in Compare(Snapshot(p, stages), Snapshot(q, stages), Tolerance) :
             f.severity \in {"info", "medium"}
<1>1. /\ p.files = q.files /\ p.openapi = q.openapi /\ p.endpoint = q.endpoint
      /\ p.method = q.method /\ p.credentials = q.credentials /\ p.answers = q.answers
      /\ p.load = q.load /\ p.browser = q.browser /\ p.scenarios = q.scenarios
  <2>1. q = [f \in Fields |-> q[f]]
    BY ProjectAssumption DEF ProjectAssumption
  <2>2. DOMAIN q = Fields
    BY <2>1
  <2> QED
    BY <2>2 DEF SameButSurroundings, Fields
<1>2. /\ FunctionalSection(p, stages) = FunctionalSection(q, stages)
      /\ LoadSection(p, stages, p.load.levels) = LoadSection(q, stages, q.load.levels)
      /\ LoadSection(p, stages, p.load.counts) = LoadSection(q, stages, q.load.counts)
      /\ Only("browser", stages, {p.browser}) = Only("browser", stages, {q.browser})
      /\ ScenarioSection(p, stages) = ScenarioSection(q, stages)
  BY <1>1 DEF FunctionalSection, LoadSection, ScenarioSection, Api
<1>3. \A name \in DOMAIN Categories(p, stages) \cap DOMAIN Categories(q, stages) :
         Categories(q, stages)[name] = "fail" => Categories(p, stages)[name] = "fail"
  BY <1>1, <1>2, OnlyExecutionFails, ExecutionDecides
<1>4. \A f \in TableFindings(p, q, stages) : f.severity = "info"
  BY TablesInform DEF TableFindings
<1>5. \A f \in DiscoveryFindings(DiscoverySnapshot(Model(p)), DiscoverySnapshot(Model(q))) :
         f.severity = "info"
  BY DiscoveriesInform
<1>6. \A f \in AssessmentFindings(Categories(p, stages), Categories(q, stages)) :
         f.severity = "medium"
  BY <1>3, VerdictsRegressToFail
<1>7. Compare(Snapshot(p, stages), Snapshot(q, stages), Tolerance)
        = TableFindings(p, q, stages)
          \cup DiscoveryFindings(DiscoverySnapshot(Model(p)), DiscoverySnapshot(Model(q)))
          \cup AssessmentFindings(Categories(p, stages), Categories(q, stages))
  BY <1>2, OnlySurroundings
<1> QED
  BY <1>4, <1>5, <1>6, <1>7

(* Without a finding of high severity a comparison does not fail. *)
LEMMA StatusFollowsFindings ==
    ASSUME NEW b, NEW c, NEW found, \A f \in found : f.severity \in {"info", "medium"}
    PROVE RegressionStatus(b, c, found) # "fail"
<1>1. \A category : StatusFromFindings({f \in found : f.category = category}) # "fail"
  BY DEF StatusFromFindings
<1>2. \A statuses : "fail" \notin statuses => OverallStatus(statuses) # "fail"
  BY DEF OverallStatus
<1> QED
  BY <1>1, <1>2 DEF RegressionStatus

LEMMA FindingsOfOneRunEach ==
    ASSUME IInv, comparer.at = "both", NEW o \in comparer.origin, NEW c \in comparer.seen
    PROVE /\ \E p \in UNION Families, stages \in StageSets : o = Observation(p, stages)
          /\ \E p \in UNION Families, stages \in StageSets : c = Observation(p, stages)
          /\ \A f \in findings : f \in Compare(o.snapshot, c.snapshot, Tolerance)
<1>1. comparer # Idle
  BY IdleDiffers
<1>2. o \in Observed /\ c \in Observed
  BY <1>1 DEF IInv, ProcessesOK
<1>3. \A b \in comparer.baseline, seen \in comparer.seen : b = o.snapshot /\ seen = c
  BY <1>1 DEF IInv, ComparedWasSaved, OneRunEach
<1> QED
  BY <1>2, <1>3 DEF Observed, findings

(* Equal runs of an unchanged project show nothing, and new or lost tables and
   technologies, unreadable metadata and detectors that raise are no reason for
   a comparison to fail (SPECIFICATION.md, "always informational"). *)
THEOREM NoComparisonCriesWolf == Spec => []NoFalseAlarm
<1>1. ASSUME IInv PROVE NoFalseAlarm
  <2> SUFFICES ASSUME comparer.at = "both",
                      NEW o \in comparer.origin, NEW c \in comparer.seen,
                      o.stages = c.stages
               PROVE /\ o.project = c.project => findings = {}
                     /\ SameButSurroundings(o.project, c.project)
                          => \A b \in comparer.baseline :
                                RegressionStatus(b, c.snapshot, findings) # "fail"
    BY DEF NoFalseAlarm, SameButSurroundings
  <2>1. PICK p \in UNION Families, stages \in StageSets : o = Observation(p, stages)
    BY <1>1, FindingsOfOneRunEach
  <2>2. PICK q \in UNION Families, others \in StageSets : c = Observation(q, others)
    BY <1>1, FindingsOfOneRunEach
  <2>3. /\ o.project = p /\ o.snapshot = Snapshot(p, stages)
        /\ c.project = q /\ c.snapshot = Snapshot(q, stages)
    BY <2>1, <2>2 DEF Observation
  <2>4. \A f \in findings : f \in Compare(Snapshot(p, stages), Snapshot(q, stages), Tolerance)
    BY <1>1, <2>3, FindingsOfOneRunEach
  <2>5. ASSUME p = q PROVE findings = {}
    BY <2>4, <2>5, EqualRuns
  <2>6. ASSUME SameButSurroundings(p, q), NEW b \in comparer.baseline
        PROVE RegressionStatus(b, c.snapshot, findings) # "fail"
    BY <2>4, <2>6, SurroundingsInform, StatusFollowsFindings
  <2> QED
    BY <2>3, <2>5, <2>6
<1> QED
  BY <1>1, BaselineInvariant, PTL

-----------------------------------------------------------------------------
(* A finished comparison has a baseline. *)
BaselineThere == comparer.at = "both" => comparer.baseline # {}

LEMMA BaselineThereInit == Init => BaselineThere
  BY IdleDiffers DEF Init, BaselineThere

LEMMA BaselineThereStep == IInv /\ BaselineThere /\ [Next]_baselineVars => BaselineThere'
<1> SUFFICES ASSUME IInv, BaselineThere, [Next]_baselineVars PROVE BaselineThere'
  OBVIOUS
<1>1. ASSUME comparer # Idle
      PROVE comparer \in [at : {"begun", "both"}, next : {"load", "run"},
                          baseline : SUBSET Snapshots, origin : SUBSET Observed,
                          seen : SUBSET Observed]
  BY <1>1 DEF IInv, ProcessesOK
<1>2. CASE UNCHANGED comparer
  BY <1>2 DEF BaselineThere
<1>3. CASE BeginComparison
  BY <1>3 DEF BeginComparison, BaselineThere
<1>4. CASE LoadBaseline
  <2>1. comparer # Idle
    BY <1>4, IdleDiffers DEF LoadBaseline, Loads
  <2>2. comparer'.baseline = {file.snapshot}
    BY <1>1, <1>4, <2>1 DEF LoadBaseline
  <2> QED
    BY <2>2 DEF BaselineThere
<1>5. CASE RunPipeline
  <2>1. comparer # Idle
    BY <1>5, IdleDiffers DEF RunPipeline
  <2>2. PICK stages \in StageSets :
           comparer' = [comparer EXCEPT !.seen = {Observation(project, stages)}, !.next = "load",
                                        !.at = IF comparer.baseline # {} THEN "both" ELSE "begun"]
    BY <1>5 DEF RunPipeline
  <2> DEFINE one == {Observation(project, stages)}
  <2>3. comparer' = [comparer EXCEPT !.seen = one, !.next = "load",
                                     !.at = IF comparer.baseline # {} THEN "both" ELSE "begun"]
    BY <2>2
  <2> HIDE DEF one
  <2>4. /\ comparer'.baseline = comparer.baseline
        /\ comparer'.at = IF comparer.baseline # {} THEN "both" ELSE "begun"
    BY <1>1, <2>1, <2>3
  <2> QED
    BY <2>4 DEF BaselineThere
<1>6. CASE RefuseBaseline \/ EndComparison
  BY <1>6, IdleDiffers DEF RefuseBaseline, EndComparison, BaselineThere
<1> QED
  BY <1>2, <1>3, <1>4, <1>5, <1>6
     DEF Next, baselineVars, RunBeforeSave, OpenFile, WriteFile, SaverDies, Drift

(* A finding of high severity blocks: the default policy fails on it, and what
   may overrule that is a target that is unreachable. *)
LEMMA GraveFindingsBlock ==
    ASSUME NEW f \in findings, f.severity = "high" PROVE gate \notin {"pass", "warning"}
<1> DEFINE category == (CHOOSE seen \in comparer.seen : TRUE).snapshot.assessment
           infra == InfraSignals(category)
           overall == OverallStatus({category[c] : c \in DOMAIN category})
           quality == QualitySignals(category, overall, {RegressionSignals(findings)})
<1>1. gate = GateStatus(infra, quality, DefaultPolicy)
  BY DEF gate
<1>2. <<"regression", "high">> \in quality
  <2>1. <<"regression", "high">> \in RegressionSignals(findings)
    BY DEF RegressionSignals
  <2> HIDE DEF category, overall
  <2> QED
    BY <2>1 DEF QualitySignals
<1>3. Classify(DefaultPolicy, <<"regression", "high">>) = "fail"
  BY DEF Classify, DefaultPolicy
<1> HIDE DEF infra, quality
<1> QED
  BY <1>1, <1>2, <1>3 DEF GateStatus

(* What passed and does not any more is a finding of high severity. *)
LEMMA BreakageIsGrave ==
    ASSUME NEW category \in DOMAIN Good, NEW before, NEW after,
           NEW id \in DOMAIN before \cap DOMAIN after,
           before[id] \in Good[category], after[id] \in Bad[category]
    PROVE \E f \in TestFindings(category, before, after) : f.severity = "high"
<1>1. Good[category] \cap Bad[category] = {}
  BY DEF Good, Bad
<1>2. Classified(category, before[id], after[id]) = "regressed"
  BY <1>1 DEF Classified
<1>3. "regressed" \in DOMAIN TestSeverity /\ TestSeverity["regressed"] = "high"
  BY DEF TestSeverity
<1>4. Finding(category, id, "regressed", "high") \in TestFindings(category, before, after)
  BY <1>2, <1>3 DEF TestFindings
<1> QED
  BY <1>4 DEF Finding

(* The sections of a snapshot in which something broke. *)
LEMMA BrokenSection ==
    ASSUME NEW p, NEW q, NEW stages, NEW others, NEW category \in DOMAIN Good,
           NEW before, NEW after,
           before \in Snapshot(p, stages)[category], after \in Snapshot(q, others)[category],
           NEW id \in DOMAIN before \cap DOMAIN after,
           before[id] \in Good[category], after[id] \in Bad[category]
    PROVE \E f \in Compare(Snapshot(p, stages), Snapshot(q, others), Tolerance) : f.severity = "high"
<1> DEFINE b == Snapshot(p, stages)
           c == Snapshot(q, others)
<1> HIDE DEF b, c
<1>1. PICK f \in TestFindings(category, before, after) : f.severity = "high"
  BY BreakageIsGrave
<1>2. before \in b[category] /\ after \in c[category]
  BY DEF b, c
<1>3. f \in UNION {UNION {TestFindings(k, x, y) : x \in b[k], y \in c[k]} : k \in DOMAIN Good}
  BY <1>2
<1>4. f \in Compare(b, c, Tolerance)
  BY <1>3 DEF Compare
<1> QED
  BY <1>1, <1>4 DEF b, c

LEMMA BrokenTest ==
    ASSUME NEW p, NEW q, NEW stages, NEW others, Api(p) = Api(q), p.credentials = q.credentials,
           "functional" \in stages \cap others,
           NEW api \in Api(q), NEW case \in ToSet(TestCases(api, q.credentials)),
           TestStatus(case, p.answers[case.endpoint][case.kind]) = "passed",
           TestStatus(case, q.answers[case.endpoint][case.kind]) # "passed"
    PROVE \E f \in Compare(Snapshot(p, stages), Snapshot(q, others), Tolerance) : f.severity = "high"
<1> DEFINE cases == TestCases(api, q.credentials)
           before == Results(api, p.credentials, p.answers)
           after == Results(api, q.credentials, q.answers)
<1>1. PICK id \in DOMAIN cases : case = cases[id]
  BY DEF ToSet
<1>2. /\ before[id] = TestStatus(case, p.answers[case.endpoint][case.kind])
      /\ after[id] = TestStatus(case, q.answers[case.endpoint][case.kind])
      /\ id \in DOMAIN before \cap DOMAIN after
  BY <1>1 DEF Results
<1>3. after[id] \in {"failed", "error"}
  BY <1>2 DEF TestStatus
<1>4. before \in Snapshot(p, stages).functional /\ after \in Snapshot(q, others).functional
  BY DEF Snapshot, FunctionalSection, Only
<1>5. /\ "functional" \in DOMAIN Good /\ Good["functional"] = {"passed"}
      /\ Bad["functional"] = {"failed", "error"}
  BY DEF Good, Bad
<1> HIDE DEF before, after, cases
<1> QED
  BY <1>2, <1>3, <1>4, <1>5, BrokenSection

LEMMA BrokenPage ==
    ASSUME NEW p, NEW q, NEW stages, NEW others, "browser" \in stages \cap others,
           NEW t \in DOMAIN p.browser \cap DOMAIN q.browser,
           p.browser[t] = "passed", q.browser[t] \in {"failed", "error"}
    PROVE \E f \in Compare(Snapshot(p, stages), Snapshot(q, others), Tolerance) : f.severity = "high"
<1>1. p.browser \in Snapshot(p, stages).browser /\ q.browser \in Snapshot(q, others).browser
  BY DEF Snapshot, Only
<1>2. /\ "browser" \in DOMAIN Good /\ Good["browser"] = {"passed"}
      /\ Bad["browser"] = {"failed", "error"}
  BY DEF Good, Bad
<1> QED
  BY <1>1, <1>2, BrokenSection

LEMMA BrokenScenario ==
    ASSUME NEW p, NEW q, NEW stages, NEW others, "scenario" \in stages \cap others,
           NEW s \in DOMAIN p.scenarios \cap DOMAIN q.scenarios,
           p.scenarios[s] = "pass", q.scenarios[s] \in {"fail", "error"}
    PROVE \E f \in Compare(Snapshot(p, stages), Snapshot(q, others), Tolerance) : f.severity = "high"
<1> DEFINE Section(r) ==
        [x \in {y \in DOMAIN r.scenarios : r.scenarios[y] # "not_assessed"} |-> r.scenarios[x]]
<1>1. /\ s \in DOMAIN Section(p) /\ Section(p)[s] = p.scenarios[s]
      /\ s \in DOMAIN Section(q) /\ Section(q)[s] = q.scenarios[s]
  OBVIOUS
<1>2. Section(p) \in Snapshot(p, stages).scenario /\ Section(q) \in Snapshot(q, others).scenario
  BY DEF Snapshot, ScenarioSection, Only
<1>3. /\ "scenario" \in DOMAIN Good /\ Good["scenario"] = {"pass"}
      /\ Bad["scenario"] = {"fail", "error"}
  BY DEF Good, Bad
<1> HIDE DEF Section
<1> QED
  BY <1>1, <1>2, <1>3, BrokenSection

(* Between two runs that generate the same tests, everything that passed and
   does not pass any more closes the gate, for all projects, stages and
   tolerances (regression/, quality_gate/engine.py). *)
THEOREM NoBreakageEscapes == Spec => []BreakageIsSeen
<1>1. ASSUME IInv, BaselineThere PROVE BreakageIsSeen
  <2> DEFINE Came(p, case) == TestStatus(case, p.answers[case.endpoint][case.kind])
             cases(p) == UNION {ToSet(TestCases(api, p.credentials)) : api \in Api(p)}
             Broken(o, c) ==
                \/ /\ "functional" \in o.stages \cap c.stages
                   /\ \E case \in cases(c.project) :
                         Came(o.project, case) = "passed" /\ Came(c.project, case) # "passed"
                \/ /\ "browser" \in o.stages \cap c.stages
                   /\ \E t \in DOMAIN o.project.browser \cap DOMAIN c.project.browser :
                         /\ o.project.browser[t] = "passed"
                         /\ c.project.browser[t] \in {"failed", "error"}
                \/ /\ "scenario" \in o.stages \cap c.stages
                   /\ \E s \in DOMAIN o.project.scenarios \cap DOMAIN c.project.scenarios :
                         /\ o.project.scenarios[s] = "pass"
                         /\ c.project.scenarios[s] \in {"fail", "error"}
  <2> SUFFICES ASSUME comparer.at = "both", NEW o \in comparer.origin, NEW c \in comparer.seen,
                      Api(o.project) = Api(c.project),
                      o.project.credentials = c.project.credentials,
                      Broken(o, c)
               PROVE gate \notin {"pass", "warning"}
    BY DEF BreakageIsSeen
  <2>1. PICK p \in UNION Families, stages \in StageSets : o = Observation(p, stages)
    BY <1>1, FindingsOfOneRunEach
  <2>2. PICK q \in UNION Families, others \in StageSets : c = Observation(q, others)
    BY <1>1, FindingsOfOneRunEach
  <2>3. /\ o.project = p /\ o.snapshot = Snapshot(p, stages) /\ o.stages = stages
        /\ c.project = q /\ c.snapshot = Snapshot(q, others) /\ c.stages = others
    BY <2>1, <2>2 DEF Observation
  <2>4. \E f \in Compare(o.snapshot, c.snapshot, Tolerance) : f.severity = "high"
    BY <2>3, BrokenTest, BrokenPage, BrokenScenario
  <2>5. PICK b \in comparer.baseline : b = o.snapshot
    <3>1. comparer # Idle
      BY IdleDiffers
    <3>2. PICK b \in comparer.baseline : TRUE
      BY <1>1 DEF BaselineThere
    <3> QED
      BY <1>1, <3>1, <3>2 DEF IInv, ComparedWasSaved, OneRunEach
  <2>6. Compare(o.snapshot, c.snapshot, Tolerance) \subseteq findings
    BY <2>5 DEF findings
  <2> QED
    BY <2>4, <2>6, GraveFindingsBlock
<1> QED
  BY <1>1, BaselineInvariant, BaselineThereInit, BaselineThereStep, PTL DEF Spec

-----------------------------------------------------------------------------
(* Recursion.  There is no least counterexample among the natural numbers:
   that is induction for a set of numbers, and what the recursive functions of
   the model need to exist and to be reasoned about. *)

LEMMA LeastNumber ==
    ASSUME NEW T \in SUBSET Nat, T # {} PROVE \E x \in T : \A y \in T : x <= y
<1> DEFINE R == OpToRel(<, Nat)
<1>1. \A x, y \in Nat : y < x => <<y, x>> \in R
  BY Zenon DEF OpToRel
<1>2. IsWellFoundedOn(R, Nat)
  BY NatLessThanWellFounded
<1> HIDE DEF R
<1>3. PICK x \in T : \A y \in T : ~ (<<y, x>> \in R)
  BY <1>2, WFMin
<1>4. \A y \in T : ~(y < x)
  BY <1>1, <1>3, Zenon
<1>5. \A y \in T : x <= y
  BY <1>4
<1> QED
  BY <1>5

(* What FlattenSeq does: g[i] is the first i sequences joined. *)
Joined(seqs, g, i) == IF i = 1 THEN seqs[i] ELSE g[i - 1] \o seqs[i]
Joins(seqs, g, k) == \A i \in 1..k : g[i] = Joined(seqs, g, i)

LEMMA JoinExists ==
    ASSUME NEW S, NEW seqs \in Seq(Seq(S))
    PROVE \E g \in [1..Len(seqs) -> Seq(S)] : Joins(seqs, g, Len(seqs))
<1> USE DEF Joins, Joined
<1> DEFINE T == {k \in 0..Len(seqs) : ~ \E g \in [1..k -> Seq(S)] : Joins(seqs, g, k)}
<1>1. Len(seqs) \in Nat /\ \A i \in 1..Len(seqs) : seqs[i] \in Seq(S)
  OBVIOUS
<1>2. ASSUME T # {} PROVE FALSE
  <2>1. PICK k \in T : \A y \in T : k <= y
    <3>1. T \in SUBSET Nat
      BY <1>1
    <3> HIDE DEF T
    <3> QED
      BY <1>2, <3>1, LeastNumber
  <2>2. k \in 0..Len(seqs) /\ ~ \E g \in [1..k -> Seq(S)] : Joins(seqs, g, k)
    BY <2>1
  <2>3. CASE k = 0
    <3> DEFINE none == [i \in 1..0 |-> <<>>]
    <3>1. none \in [1..k -> Seq(S)] /\ Joins(seqs, none, k)
      BY <2>3
    <3> QED
      BY <2>2, <3>1
  <2>4. CASE k > 0
    <3>1. k - 1 \in 0..Len(seqs) /\ k - 1 \notin T /\ k \in 1..Len(seqs)
      <4>1. k - 1 \in 0..Len(seqs) /\ k \in 1..Len(seqs) /\ ~(k <= k - 1)
        BY <1>1, <2>2, <2>4
      <4> HIDE DEF T
      <4> QED
        BY <2>1, <4>1
    <3>2. PICK g \in [1..(k - 1) -> Seq(S)] : Joins(seqs, g, k - 1)
      BY <3>1
    <3> DEFINE h == [i \in 1..k |-> IF i = k THEN (IF k = 1 THEN seqs[k] ELSE g[k - 1] \o seqs[k])
                                    ELSE g[i]]
    <3>3. \A i \in 1..k : h[i] \in Seq(S)
      <4>1. \A i \in 1..k : i # k => i \in 1..(k - 1)
        BY <3>1
      <4>2. k # 1 => k - 1 \in 1..(k - 1)
        BY <3>1
      <4>3. seqs[k] \in Seq(S) /\ (k # 1 => g[k - 1] \o seqs[k] \in Seq(S))
        BY <1>1, <3>1, <3>2, <4>2, ConcatProperties
      <4> QED
        BY <3>2, <4>1, <4>3
    <3>4. Joins(seqs, h, k)
      <4> SUFFICES ASSUME NEW i \in 1..k
                   PROVE h[i] = IF i = 1 THEN seqs[i] ELSE h[i - 1] \o seqs[i]
        OBVIOUS
      <4>1. CASE i = k
        BY <3>1, <4>1
      <4>2. CASE i # k
        <5>1. i \in 1..(k - 1) /\ (i # 1 => i - 1 \in 1..k /\ i - 1 # k)
          BY <3>1, <4>2
        <5> QED
          BY <3>2, <4>2, <5>1
      <4> QED
        BY <4>1, <4>2
    <3>5. h \in [1..k -> Seq(S)]
      BY <3>3
    <3> QED
      BY <2>2, <3>4, <3>5
  <2> QED
    BY <2>2, <2>3, <2>4
<1>3. Len(seqs) \in 0..Len(seqs) /\ Len(seqs) \notin T
  <2> HIDE DEF T
  <2> QED
    BY <1>1, <1>2
<1> QED
  BY <1>3

(* FlattenSeq ends with a joining, as there is one. *)
LEMMA FlattenJoins ==
    ASSUME NEW seqs, Len(seqs) # 0,
           NEW g, g = [i \in 1..Len(seqs) |-> Joined(seqs, g, i)]
    PROVE \E h : FlattenSeq(seqs) = h[Len(seqs)] /\ h = [i \in 1..Len(seqs) |-> Joined(seqs, h, i)]
  BY DEF FlattenSeq, Joined

(* What is put together from sequences over S is a sequence over S. *)
LEMMA Flattened ==
    ASSUME NEW S, NEW seqs \in Seq(Seq(S)) PROVE FlattenSeq(seqs) \in Seq(S)
<1> DEFINE n == Len(seqs)
<1>1. n \in Nat /\ \A i \in 1..n : seqs[i] \in Seq(S)
  OBVIOUS
<1>2. CASE n = 0
  BY <1>2 DEF FlattenSeq
<1>3. CASE n # 0
  <2>1. PICK g \in [1..n -> Seq(S)] : Joins(seqs, g, n)
    BY JoinExists
  <2>2. g = [i \in 1..n |-> Joined(seqs, g, i)]
    BY <2>1 DEF Joins
  <2>3. PICK h : FlattenSeq(seqs) = h[n] /\ h = [i \in 1..n |-> Joined(seqs, h, i)]
    BY <1>3, <2>2, FlattenJoins
  <2>4. \A i \in 1..n : h[i] = Joined(seqs, h, i)
    BY <2>3
  <2> DEFINE T == {i \in 1..n : h[i] \notin Seq(S)}
  <2>5. ASSUME T # {} PROVE FALSE
    <3>1. T \in SUBSET Nat
      BY <1>1
    <3>2. PICK i \in T : \A j \in T : i <= j
      <4> HIDE DEF T
      <4> QED
        BY <2>5, <3>1, LeastNumber
    <3>3. i \in 1..n /\ h[i] \notin Seq(S)
      BY <3>2
    <3>4. CASE i = 1
      BY <1>1, <2>4, <3>3, <3>4 DEF Joined
    <3>5. CASE i # 1
      <4>1. i - 1 \in 1..n /\ ~(i <= i - 1)
        BY <1>1, <3>3, <3>5
      <4>2. h[i - 1] \in Seq(S)
        BY <3>2, <4>1
      <4>3. h[i - 1] \o seqs[i] \in Seq(S)
        BY <1>1, <3>3, <4>2, ConcatProperties
      <4> QED
        BY <2>4, <3>3, <3>5, <4>3 DEF Joined
    <3> QED
      BY <3>4, <3>5
  <2>6. n \in 1..n
    BY <1>1, <1>3
  <2>7. h[n] \in Seq(S)
    BY <2>5, <2>6
  <2> QED
    BY <2>3, <2>7
<1> QED
  BY <1>2, <1>3

-----------------------------------------------------------------------------
(* Values is the function its recursive definition says: a chain leads to longer
   chains only, so it can be built from the longest ones down. *)

Behind(components, chain, further) ==
    {name \in DOMAIN components \ chain :
        HasValue(components, components[name], chain \cup {name}, further)}

(* The chains with at most n names left to follow. *)
Chains(components, n) ==
    {chain \in SUBSET DOMAIN components : Cardinality(DOMAIN components \ chain) <= n}

Solves(g, components, chains) == g = [chain \in chains |-> Behind(components, chain, g)]

(* A value depends on what is behind the chain and behind longer ones. *)
LEMMA ValueLooksAhead ==
    ASSUME NEW components, NEW schema, NEW via \in SUBSET DOMAIN components, NEW f, NEW g,
           \A chain \in SUBSET DOMAIN components : via \subseteq chain => f[chain] = g[chain]
    PROVE HasValue(components, schema, via, f) <=> HasValue(components, schema, via, g)
<1>1. f[via] = g[via]
  OBVIOUS
<1>2. \A part \in DOMAIN components : f[via \cup {part}] = g[via \cup {part}]
  OBVIOUS
<1> QED
  BY <1>1, <1>2 DEF HasValue

LEMMA LongerChain ==
    ASSUME NEW components, IsFiniteSet(DOMAIN components),
           NEW chain \in SUBSET DOMAIN components, NEW name \in DOMAIN components \ chain,
           NEW longer \in SUBSET DOMAIN components, chain \cup {name} \subseteq longer
    PROVE /\ Cardinality(DOMAIN components \ longer) < Cardinality(DOMAIN components \ chain)
          /\ Cardinality(DOMAIN components \ longer) \in Nat
          /\ Cardinality(DOMAIN components \ chain) \in Nat
<1> DEFINE D == DOMAIN components
<1>1. IsFiniteSet(D \ chain) /\ IsFiniteSet(D \ longer) /\ IsFiniteSet((D \ chain) \ {name})
  BY FS_Difference
<1>2. Cardinality((D \ chain) \ {name}) = Cardinality(D \ chain) - 1
  BY <1>1, FS_RemoveElement
<1>3. Cardinality(D \ longer) <= Cardinality((D \ chain) \ {name})
  <2>1. D \ longer \in SUBSET ((D \ chain) \ {name})
    OBVIOUS
  <2> QED
    BY <1>1, <2>1, FS_Subset
<1>4. Cardinality(D \ chain) \in Nat /\ Cardinality(D \ longer) \in Nat
  BY <1>1, FS_CardinalityType
<1> HIDE DEF D
<1>5. Cardinality(D \ longer) < Cardinality(D \ chain)
  BY <1>2, <1>3, <1>4
<1> QED
  BY <1>4, <1>5 DEF D

LEMMA ValuesWithin ==
    ASSUME NEW components, IsFiniteSet(DOMAIN components), NEW n \in Nat
    PROVE \E g : Solves(g, components, Chains(components, n))
<1> DEFINE Within(k) == \E g : Solves(g, components, Chains(components, k))
           T == {k \in Nat : ~Within(k)}
<1>1. ASSUME T # {} PROVE FALSE
  <2>1. PICK k \in T : \A j \in T : k <= j
    <3>1. T \in SUBSET Nat
      OBVIOUS
    <3> HIDE DEF T
    <3> QED
      BY <1>1, <3>1, LeastNumber
  <2>2. k \in Nat /\ ~Within(k)
    BY <2>1
  <2>3. PICK g : \A chain \in Chains(components, k) : \A name \in DOMAIN components \ chain :
                   \A longer \in SUBSET DOMAIN components : chain \cup {name} \subseteq longer =>
                       longer \in Chains(components, k) /\ g[longer] = Behind(components, longer, g)
    <3>1. CASE k = 0
      <4>1. ASSUME NEW chain \in Chains(components, k), NEW name \in DOMAIN components \ chain,
                   NEW longer \in SUBSET DOMAIN components, chain \cup {name} \subseteq longer
            PROVE FALSE
        <5>1. chain \in SUBSET DOMAIN components /\ Cardinality(DOMAIN components \ chain) <= 0
          BY <3>1 DEF Chains
        <5>2. /\ Cardinality(DOMAIN components \ longer) < Cardinality(DOMAIN components \ chain)
              /\ Cardinality(DOMAIN components \ longer) \in Nat
              /\ Cardinality(DOMAIN components \ chain) \in Nat
          BY <4>1, <5>1, LongerChain
        <5> QED
          BY <5>1, <5>2
      <4> QED
        BY <4>1
    <3>2. CASE k # 0
      <4>1. k - 1 \in Nat /\ ~(k <= k - 1)
        BY <2>2, <3>2
      <4>2. Within(k - 1)
        BY <2>1, <4>1
      <4>3. PICK g : Solves(g, components, Chains(components, k - 1))
        BY <4>2
      <4>4. ASSUME NEW chain \in Chains(components, k), NEW name \in DOMAIN components \ chain,
                   NEW longer \in SUBSET DOMAIN components, chain \cup {name} \subseteq longer
            PROVE longer \in Chains(components, k) /\ longer \in Chains(components, k - 1)
        <5>1. chain \in SUBSET DOMAIN components /\ Cardinality(DOMAIN components \ chain) <= k
          BY DEF Chains
        <5>2. /\ Cardinality(DOMAIN components \ longer) < Cardinality(DOMAIN components \ chain)
              /\ Cardinality(DOMAIN components \ longer) \in Nat
              /\ Cardinality(DOMAIN components \ chain) \in Nat
          BY <4>4, <5>1, LongerChain
        <5>3. /\ Cardinality(DOMAIN components \ longer) <= k
              /\ Cardinality(DOMAIN components \ longer) <= k - 1
          BY <2>2, <5>1, <5>2
        <5> QED
          BY <5>3 DEF Chains
      <4>5. \A chain \in Chains(components, k - 1) : g[chain] = Behind(components, chain, g)
        BY <4>3 DEF Solves
      <4> QED
        BY <4>4, <4>5
    <3> QED
      BY <3>1, <3>2
  <2> DEFINE h == [chain \in Chains(components, k) |-> Behind(components, chain, g)]
  <2>4. ASSUME NEW chain \in Chains(components, k)
        PROVE Behind(components, chain, g) = Behind(components, chain, h)
    <3>1. ASSUME NEW name \in DOMAIN components \ chain
          PROVE HasValue(components, components[name], chain \cup {name}, g)
                  <=> HasValue(components, components[name], chain \cup {name}, h)
      <4>1. chain \cup {name} \in SUBSET DOMAIN components
        BY DEF Chains
      <4>2. \A longer \in SUBSET DOMAIN components :
               chain \cup {name} \subseteq longer => g[longer] = h[longer]
        BY <2>3
      <4> HIDE DEF h
      <4> QED
        BY <4>1, <4>2, ValueLooksAhead
    <3> HIDE DEF h
    <3> QED
      BY <3>1 DEF Behind
  <2>5. h = [chain \in Chains(components, k) |-> Behind(components, chain, h)]
    BY <2>4
  <2> QED
    BY <2>2, <2>5 DEF Solves
<1> HIDE DEF Within
<1>2. Within(n)
  BY <1>1
<1> QED
  BY <1>2 DEF Within

LEMMA ValuesSolve ==
    ASSUME NEW components,
           NEW g, Solves(g, components, SUBSET DOMAIN components)
    PROVE Solves(Values(components), components, SUBSET DOMAIN components)
  BY DEF Values, Behind, Solves

(* The recursive definition of Values has a solution, which it therefore is. *)
LEMMA ValuesLookAhead ==
    ASSUME NEW components, IsFiniteSet(DOMAIN components),
           NEW chain \in SUBSET DOMAIN components
    PROVE Values(components)[chain] = Behind(components, chain, Values(components))
<1> DEFINE D == DOMAIN components
<1>1. Cardinality(D) \in Nat
  BY FS_CardinalityType
<1>2. Chains(components, Cardinality(D)) = SUBSET D
  <2>1. ASSUME NEW c \in SUBSET D PROVE Cardinality(D \ c) <= Cardinality(D)
    <3>1. D \ c \in SUBSET D
      OBVIOUS
    <3> QED
      BY <3>1, FS_Subset
  <2> QED
    BY <2>1 DEF Chains
<1>3. PICK g : Solves(g, components, Chains(components, Cardinality(D)))
  BY <1>1, ValuesWithin
<1>4. Solves(g, components, SUBSET D)
  BY <1>2, <1>3
<1>5. Solves(Values(components), components, SUBSET D)
  BY <1>4, ValuesSolve
<1> QED
  BY <1>5 DEF Solves

LEMMA ValueBehind ==
    ASSUME NEW components, IsFiniteSet(DOMAIN components),
           NEW chain \in SUBSET DOMAIN components, NEW name \in Values(components)[chain]
    PROVE /\ name \in DOMAIN components \ chain
          /\ HasValue(components, components[name], chain \cup {name}, Values(components))
<1>1. name \in Behind(components, chain, Values(components))
  BY ValuesLookAhead
<1> QED
  BY <1>1 DEF Behind

-----------------------------------------------------------------------------
(* Whatever generate_value makes of a schema is built from known values only:
   by induction on how much of the document a chain of references leaves. *)

PartsOf(components) ==
    UNION {ToSet(components[c].parts) : c \in {x \in DOMAIN components : components[x].form = "allOf"}}

LEMMA GivenMore ==
    ASSUME NEW field, NEW properties, NEW known, NEW more,
           \A p \in ToSet(properties) : p.schema \in known => p.schema \in more,
           Given(field, properties, known)
    PROVE Given(field, properties, more)
  BY DEF Given

LEMMA LeavesAreKnown ==
    ASSUME NEW components, IsFiniteSet(DOMAIN components), NEW chain \in SUBSET DOMAIN components,
           NEW known, Closed(known, components),
           NEW name \in Values(components)[chain],
           components[name].form \in {"text", "number", "opaque"}
    PROVE name \in known
<1>1. /\ name \in DOMAIN components
      /\ HasValue(components, components[name], chain \cup {name}, Values(components))
  BY ValueBehind
<1>2. components[name].form \in {"text", "number"}
  BY <1>1 DEF HasValue
<1> QED
  BY <1>1, <1>2 DEF Closed, ConstructibleFrom

(* The properties of a part are leaves. *)
LEMMA PartPropertiesAreKnown ==
    ASSUME NEW components, IsFiniteSet(DOMAIN components), PlainComposition(components),
           NEW chain \in SUBSET DOMAIN components, NEW known, Closed(known, components),
           NEW part \in PartsOf(components), NEW field,
           Given(field, components[part].properties, Values(components)[chain])
    PROVE Given(field, components[part].properties, known)
<1>1. \A p \in ToSet(components[part].properties) :
         p.schema \in DOMAIN components => components[p.schema].form \in {"text", "number", "opaque"}
  <2>1. PICK c \in DOMAIN components : /\ components[c].form = "allOf"
                                      /\ part \in ToSet(components[c].parts)
    BY DEF PartsOf
  <2> DEFINE properties == components[part].properties
  <2>2. \A i \in DOMAIN properties : properties[i].schema \in DOMAIN components =>
           components[properties[i].schema].form \in {"text", "number", "opaque"}
    BY <2>1, Zenon DEF PlainComposition
  <2> HIDE DEF properties
  <2>3. \A p \in ToSet(properties) : p.schema \in DOMAIN components =>
           components[p.schema].form \in {"text", "number", "opaque"}
    BY <2>2 DEF ToSet
  <2> QED
    BY <2>3 DEF properties
<1>2. \A name \in Values(components)[chain] : name \in DOMAIN components
  BY ValueBehind
<1>3. \A p \in ToSet(components[part].properties) :
         p.schema \in Values(components)[chain] => p.schema \in known
  BY <1>1, <1>2, LeavesAreKnown
<1> QED
  BY <1>3, GivenMore

LEMMA PartsAreKnown ==
    ASSUME NEW components, IsFiniteSet(DOMAIN components), PlainComposition(components),
           NEW chain \in SUBSET DOMAIN components, NEW known, Closed(known, components),
           NEW name \in Values(components)[chain], name \in PartsOf(components)
    PROVE name \in known
<1>1. /\ name \in DOMAIN components
      /\ HasValue(components, components[name], chain \cup {name}, Values(components))
  BY ValueBehind
<1>2. components[name].form = "object"
  BY DEF PartsOf, PlainComposition
<1>3. chain \cup {name} \in SUBSET DOMAIN components
  BY <1>1
<1>4. \A field \in components[name].required :
         Given(field, components[name].properties, Values(components)[chain \cup {name}])
  BY <1>1, <1>2 DEF HasValue
<1>5. \A field \in components[name].required : Given(field, components[name].properties, known)
  BY <1>3, <1>4, PartPropertiesAreKnown
<1> QED
  BY <1>1, <1>2, <1>5 DEF Closed, ConstructibleFrom

(* One level: with everything behind the chain known, so is what it leads to. *)
LEMMA ValueIsConstructible ==
    ASSUME NEW components, IsFiniteSet(DOMAIN components), PlainComposition(components),
           NEW known, Closed(known, components), NEW name \in DOMAIN components,
           NEW via \in SUBSET DOMAIN components, via \cap PartsOf(components) = {},
           Values(components)[via] \subseteq known,
           HasValue(components, components[name], via, Values(components))
    PROVE name \in known
<1> DEFINE schema == components[name]
           further == Values(components)
<1>1. CASE schema.form \in {"text", "number"}
  BY <1>1 DEF Closed, ConstructibleFrom
<1>2. CASE schema.form = "array" /\ (schema.minItems = 0 \/ schema.items \in further[via])
  BY <1>2 DEF Closed, ConstructibleFrom
<1>3. CASE /\ schema.form = "object"
           /\ \A field \in schema.required : Given(field, schema.properties, further[via])
  <2>1. \A field \in schema.required : Given(field, schema.properties, known)
    BY <1>3, GivenMore
  <2> QED
    BY <1>3, <2>1 DEF Closed, ConstructibleFrom
<1>4. CASE schema.form = "allOf"
  <2> DEFINE Part(i) == components[schema.parts[i]]
             parts == {components[p] : p \in ToSet(schema.parts)}
  <2>1. \A i \in DOMAIN schema.parts :
           /\ schema.parts[i] \in DOMAIN components \ via
           /\ Part(i).form = "object"
           /\ schema.parts[i] \in PartsOf(components)
           /\ via \cup {schema.parts[i]} \in SUBSET DOMAIN components
    BY <1>4 DEF PlainComposition, PartsOf, ToSet
  <2>2. \A i \in DOMAIN schema.parts : \A field \in Part(i).required :
           \E j \in DOMAIN schema.parts :
              Given(field, Part(j).properties, further[via \cup {schema.parts[j]}])
    BY <1>4, <2>1 DEF HasValue
  <2>3. \A i \in DOMAIN schema.parts : \A field \in Part(i).required :
           \E j \in DOMAIN schema.parts : Given(field, Part(j).properties, known)
    BY <2>1, <2>2, PartPropertiesAreKnown
  <2>4. \A field \in UNION {p.required : p \in parts} : \E p \in parts : Given(field, p.properties, known)
    BY <2>3 DEF ToSet
  <2> HIDE DEF parts
  <2>5. ConstructibleFrom(schema, components, known)
    BY <1>4, <2>4 DEF ConstructibleFrom, parts
  <2> QED
    BY <2>5 DEF Closed
<1> QED
  BY <1>1, <1>2, <1>3, <1>4 DEF HasValue

(* Whatever generate_value is sure of has a finite value built from the schemas
   of the document alone, however these refer to one another or to nothing
   (request_data.py, openapi_loader.py). *)
THEOREM GenerableIsConstructible ==
    ASSUME NEW components, IsFiniteSet(DOMAIN components), PlainComposition(components),
           NEW root, Generable(components, root)
    PROVE root \in Constructible(components)
<1> DEFINE D == DOMAIN components
           K == Values(components)
           Left(chain) == Cardinality(D \ chain)
<1>1. \A chain \in SUBSET D : Left(chain) \in Nat
  BY FS_Difference, FS_CardinalityType
<1>2. ASSUME NEW known \in SUBSET D, Closed(known, components)
      PROVE K[{}] \subseteq known
  <2> DEFINE Unknown(chain) == chain \cap PartsOf(components) = {} /\ ~(K[chain] \subseteq known)
             T == {Left(chain) : chain \in {c \in SUBSET D : Unknown(c)}}
  <2>1. ASSUME T # {} PROVE FALSE
    <3>1. T \in SUBSET Nat
      BY <1>1
    <3>2. PICK x \in T : \A y \in T : x <= y
      <4> HIDE DEF T
      <4> QED
        BY <2>1, <3>1, LeastNumber
    <3>3. PICK chain \in SUBSET D : Unknown(chain) /\ x = Left(chain)
      BY <3>2
    <3>4. PICK name \in K[chain] : name \notin known
      BY <3>3
    <3>5. name \in D \ chain /\ HasValue(components, components[name], chain \cup {name}, K)
      BY ValueBehind
    <3>6. name \notin PartsOf(components)
      BY <1>2, <3>4, PartsAreKnown
    <3>7. K[chain \cup {name}] \subseteq known
      <4> DEFINE via == chain \cup {name}
      <4>1. via \in SUBSET D /\ via \cap PartsOf(components) = {}
        BY <3>3, <3>5, <3>6
      <4>2. Left(via) < Left(chain) /\ Left(via) \in Nat /\ Left(chain) \in Nat
        <5>1. name \in D \ chain /\ chain \cup {name} \subseteq via
          BY <3>5
        <5> HIDE DEF via
        <5> QED
          BY <4>1, <5>1, LongerChain
      <4>3. ~Unknown(via)
        <5> SUFFICES ASSUME Unknown(via) PROVE FALSE
          OBVIOUS
        <5>1. Left(via) \in T
          BY <4>1
        <5> HIDE DEF T, Left
        <5> QED
          BY <3>2, <3>3, <4>2, <5>1
      <4> QED
        BY <4>1, <4>3
    <3>8. chain \cup {name} \in SUBSET D /\ (chain \cup {name}) \cap PartsOf(components) = {}
      BY <3>3, <3>5, <3>6
    <3>9. name \in known
      BY <1>2, <3>5, <3>7, <3>8, ValueIsConstructible
    <3> QED
      BY <3>4, <3>9
  <2>2. ~Unknown({})
    <3>1. Unknown({}) => Left({}) \in T
      OBVIOUS
    <3> HIDE DEF T
    <3> QED
      BY <2>1, <3>1
  <2> QED
    BY <2>2
<1>3. root \in K[{}] /\ K[{}] \subseteq D
  <2>1. K[{}] = Behind(components, {}, K)
    BY ValuesLookAhead
  <2> QED
    BY <2>1 DEF Generable, Behind
<1> QED
  BY <1>2, <1>3 DEF Constructible

-----------------------------------------------------------------------------
(* What the normaliser makes of a document is an endpoint for some of its
   operations, and no other. *)

EndpointsOf(document) ==
    UNION {{BuildEndpoint(path, method, document) : method \in DOMAIN path.operations} :
              path \in ToSet(document.paths)}

LEMMA EndpointsOfPath ==
    ASSUME NEW document, NEW path \in ToSet(document.paths)
    PROVE Endpoints(path, document) \in Seq(EndpointsOf(document))
<1> DEFINE S == EndpointsOf(document)
           one(i) == IF /\ HttpMethod[i] \in DOMAIN path.operations
                        /\ ~path.operations[HttpMethod[i]].malformed
                     THEN <<BuildEndpoint(path, HttpMethod[i], document)>> ELSE <<>>
           seqs == [i \in DOMAIN HttpMethod |-> one(i)]
<1>1. DOMAIN HttpMethod = 1..7
  BY DEF HttpMethod
<1>2. ASSUME NEW i \in 1..7 PROVE one(i) \in Seq(S)
  <2>1. CASE /\ HttpMethod[i] \in DOMAIN path.operations
             /\ ~path.operations[HttpMethod[i]].malformed
    <3>1. BuildEndpoint(path, HttpMethod[i], document) \in S
      BY <2>1 DEF EndpointsOf
    <3>2. one(i) = <<BuildEndpoint(path, HttpMethod[i], document)>>
      BY <2>1
    <3> HIDE DEF S, one
    <3> QED
      BY <3>1, <3>2
  <2>2. CASE ~(/\ HttpMethod[i] \in DOMAIN path.operations
               /\ ~path.operations[HttpMethod[i]].malformed)
    <3>1. one(i) = <<>>
      BY <2>2
    <3> HIDE DEF S, one
    <3> QED
      BY <3>1
  <2> QED
    BY <2>1, <2>2
<1>3. seqs \in Seq(Seq(S))
  <2> HIDE DEF S, one
  <2> QED
    BY <1>1, <1>2
<1>4. FlattenSeq(seqs) \in Seq(S)
  <2> HIDE DEF S, seqs
  <2> QED
    BY <1>3, Flattened
<1>5. Endpoints(path, document) = FlattenSeq(seqs)
  BY Zenon DEF Endpoints
<1> QED
  BY <1>4, <1>5

LEMMA EndpointsAreOperations ==
    ASSUME NEW document, document.paths \in Seq(ToSet(document.paths)),
           NEW api \in ParseSpecification(document)
    PROVE /\ api.endpoints \in Seq(EndpointsOf(document))
          /\ api.components = document.components
          /\ api.schemes = document.schemes
<1> DEFINE S == EndpointsOf(document)
           seqs == [i \in DOMAIN document.paths |-> Endpoints(document.paths[i], document)]
<1>1. api = [components |-> document.components, schemes |-> document.schemes,
             endpoints |-> FlattenSeq(seqs)]
  BY DEF ParseSpecification
<1>2. seqs \in Seq(Seq(S))
  <2>1. \A i \in DOMAIN document.paths : Endpoints(document.paths[i], document) \in Seq(S)
    BY EndpointsOfPath DEF ToSet
  <2>2. DOMAIN document.paths = 1..Len(document.paths) /\ Len(document.paths) \in Nat
    OBVIOUS
  <2> HIDE DEF S
  <2> QED
    BY <2>1, <2>2
<1>3. FlattenSeq(seqs) \in Seq(S)
  <2> HIDE DEF S, seqs
  <2> QED
    BY <1>2, Flattened
<1> HIDE DEF seqs
<1> QED
  BY <1>1, <1>3

(* A request that can be built is one of a described operation. *)
LEMMA RequestsAreDescribed ==
    ASSUME NEW document, IsFiniteSet(DOMAIN document.components),
           PlainComposition(document.components),
           NEW path \in ToSet(document.paths), NEW method \in DOMAIN path.operations,
           HasRequest(BuildEndpoint(path, method, document), document.components)
    PROVE Described(document, BuildEndpoint(path, method, document).name)
<1> DEFINE e == BuildEndpoint(path, method, document)
           own == path.operations[method]
           o == [own |-> own, shared |-> path.parameters]
           asked == path.parameters \o own.parameters
           C == Constructible(document.components)
<1>1. /\ e.name = <<path.name, method>>
      /\ e.parameters = BuildParameters(asked)
      /\ e.body = {BuildRequestBody(b) : b \in own.body}
  BY DEF BuildEndpoint
<1>2. \A root : Generable(document.components, root) => root \in C
  BY GenerableIsConstructible
<1>3. o \in Operations(document, e.name)
  BY <1>1 DEF Operations
<1>4. ASSUME NEW p \in ToSet(asked), p.resolved,
             p.location = "path" \/ (p.required /\ p.location \in {"query", "header"})
      PROVE p.schema \in C
  <2> DEFINE q == [location |-> p.location, schema |-> p.schema,
                   required |-> p.required \/ p.location = "path"]
  <2>1. q \in e.parameters
    <3> HIDE DEF asked
    <3> QED
      BY <1>1, <1>4 DEF BuildParameters
  <2>2. Sends(q)
    BY <1>4 DEF Sends
  <2>3. Generable(document.components, q.schema)
    BY <2>1, <2>2 DEF HasRequest
  <2> QED
    BY <1>2, <2>3
<1>5. ASSUME NEW body \in own.body, body.required
      PROVE \E c \in ToSet(body.content) : c.schema \in C
  <2>1. BuildRequestBody(body) \in e.body
    BY <1>1
  <2>2. PICK s \in BuildRequestBody(body).schema : Generable(document.components, s)
    BY <1>5, <2>1 DEF HasRequest, BuildRequestBody
  <2>3. PICK c \in PickContent(body.content) : s = c.schema
    BY <2>2 DEF BuildRequestBody
  <2>4. c \in ToSet(body.content)
    BY DEF PickContent, ToSet
  <2> QED
    BY <1>2, <2>2, <2>3, <2>4
<1>6. \A p \in ToSet(o.shared \o o.own.parameters) :
         (p.location = "path" \/ p.required) /\ ~Dropped(p) => p.schema \in C
  BY <1>4 DEF Dropped
<1>7. \A body \in o.own.body : body.required => \E c \in ToSet(body.content) : c.schema \in C
  BY <1>5
<1> HIDE DEF o
<1> QED
  BY <1>3, <1>6, <1>7, Zenon DEF Described

(* An operation whose security there is a credential for. *)
LEMMA SecurityIsOpened ==
    ASSUME NEW document, NEW credentials, NEW api, api.schemes = document.schemes,
           NEW path \in ToSet(document.paths), NEW method \in DOMAIN path.operations,
           \A a, b \in path.operations[method].security : a = b,
           HasCredentials(BuildEndpoint(path, method, document), api, credentials)
    PROVE Secured(document, BuildEndpoint(path, method, document).name, credentials)
<1> DEFINE e == BuildEndpoint(path, method, document)
           own == path.operations[method]
           o == [own |-> own, shared |-> path.parameters]
           security == IF own.security # {} THEN own.security ELSE {document.security}
           asked == UNION {ToSet(SecurityNames(s)) : s \in IF own.security = {}
                                                           THEN {document.security}
                                                           ELSE own.security}
<1>1. /\ e.name = <<path.name, method>>
      /\ e.security = SecurityNames(CHOOSE s \in security : TRUE)
  BY DEF BuildEndpoint
<1>2. o \in Operations(document, e.name)
  BY <1>1 DEF Operations
<1>3. asked = ToSet(e.security)
  <2>1. PICK s \in security : s = CHOOSE x \in security : TRUE
    OBVIOUS
  <2>2. security = {s}
    BY <2>1
  <2>3. asked = ToSet(SecurityNames(s))
    BY <2>2
  <2> QED
    BY <1>1, <2>1, <2>3
<1>4. asked # {} => \E scheme \in asked \cap DOMAIN document.schemes :
                       Opens(document.schemes, scheme) \cap credentials # {}
  <2>1. CASE e.security = <<>>
    <3>1. ToSet(<<>>) = {}
      BY DEF ToSet
    <3> HIDE DEF e, asked
    <3> QED
      BY <1>3, <2>1, <3>1
  <2>2. CASE ToSet(e.security) \cap AvailableSchemes(api.schemes, credentials) # {}
    BY <1>3, <2>2 DEF AvailableSchemes
  <2> QED
    BY <2>1, <2>2 DEF HasCredentials
<1>5. o.own = own
  OBVIOUS
<1> HIDE DEF o, own
<1> QED
  BY <1>2, <1>4, <1>5, Zenon DEF Secured

-----------------------------------------------------------------------------
(* Every test that is sent is one of an endpoint with a request and, where it
   asks for one, a credential. *)

Deviation == {"missing parameter", "missing body field", "invalid field type",
              "unsupported content type"}

LEMMA SomeKinds ==
    ASSUME NEW a \in Seq(Deviation), NEW b \in Seq(Deviation),
           NEW c \in Seq(Deviation), NEW d \in Seq(Deviation)
    PROVE LET all == FlattenSeq(<<a, b, c, d>>) IN
          SubSeq(all, 1, IF Len(all) < MAX_NEGATIVE_TESTS_PER_ENDPOINT THEN Len(all)
                         ELSE MAX_NEGATIVE_TESTS_PER_ENDPOINT) \in Seq(Deviation)
<1> DEFINE all == FlattenSeq(<<a, b, c, d>>)
           n == IF Len(all) < 3 THEN Len(all) ELSE 3
<1>1. <<a, b, c, d>> \in Seq(Seq(Deviation))
  OBVIOUS
<1>2. all \in Seq(Deviation)
  BY <1>1, Flattened
<1> HIDE DEF all
<1>3. n \in Nat /\ n <= Len(all)
  BY <1>2
<1>4. SubSeq(all, 1, n) \in Seq(Deviation)
  <2>1. \A i \in 1..n : all[i] \in Deviation
    BY <1>2, <1>3
  <2> HIDE DEF n
  <2> QED
    BY <1>2, <1>3, <2>1
<1> QED
  BY <1>4 DEF MAX_NEGATIVE_TESTS_PER_ENDPOINT, all

LEMMA OneItem == ASSUME NEW S, NEW s \in S PROVE <<s>> \in Seq(S)
  OBVIOUS

LEMMA KindsAreNames ==
    ASSUME NEW endpoint, NEW components PROVE NegativeKinds(endpoint, components) \in Seq(Deviation)
<1>1. <<>> \in Seq(Deviation)
  OBVIOUS
<1>2. /\ <<"missing parameter">> \in Seq(Deviation)
      /\ <<"missing body field">> \in Seq(Deviation)
      /\ <<"invalid field type">> \in Seq(Deviation)
      /\ <<"unsupported content type">> \in Seq(Deviation)
  BY OneItem DEF Deviation
<1> QED
  BY <1>1, <1>2, SomeKinds, Zenon DEF NegativeKinds

HasTests(e, api, credentials) ==
    HasCredentials(e, api, credentials) /\ HasRequest(e, api.components)

LEMMA CasesOfEndpoint ==
    ASSUME NEW e, NEW api, NEW credentials
    PROVE \E R : /\ EndpointCases(e, api, credentials) \in Seq(R)
                 /\ \A case \in R : case.execute =>
                       case.endpoint = e.name /\ HasTests(e, api, credentials)
<1> DEFINE positive == PositiveTestCase(e, api, credentials)
           kinds == NegativeKinds(e, api.components)
           deviations == [k \in DOMAIN kinds |-> Case(e.name, kinds[k], e.errors, FALSE)]
           R == {positive} \cup IF positive.execute
                                THEN {Case(e.name, kinds[k], e.errors, FALSE) : k \in DOMAIN kinds}
                                ELSE {}
<1>1. positive.execute => positive.endpoint = e.name /\ HasTests(e, api, credentials)
  BY DEF PositiveTestCase, Skip, Case, HasTests
<1>2. \A case \in R : case.execute => case.endpoint = e.name /\ HasTests(e, api, credentials)
  <2>1. \A k \in DOMAIN kinds : Case(e.name, kinds[k], e.errors, FALSE).endpoint = e.name
    BY DEF Case
  <2> HIDE DEF positive, kinds
  <2> QED
    BY <1>1, <2>1
<1>3. <<positive>> \in Seq(R)
  <2>1. positive \in R
    OBVIOUS
  <2> HIDE DEF R, positive
  <2> QED
    BY <2>1
<1>4. ASSUME positive.execute PROVE deviations \in Seq(R)
  <2> DEFINE Deviant(k) == Case(e.name, kinds[k], e.errors, FALSE)
  <2>1. kinds \in Seq(Deviation)
    BY KindsAreNames
  <2>2. DOMAIN kinds = 1..Len(kinds) /\ Len(kinds) \in Nat
    BY <2>1
  <2>3. \A k \in 1..Len(kinds) : Deviant(k) \in R
    BY <1>4, <2>2
  <2>4. deviations = [k \in 1..Len(kinds) |-> Deviant(k)]
    BY <2>2
  <2> HIDE DEF R, positive, kinds, deviations, Deviant
  <2> QED
    BY <2>2, <2>3, <2>4
<1> DEFINE rest == IF positive.execute THEN deviations ELSE <<>>
<1>5. EndpointCases(e, api, credentials) = <<positive>> \o rest
  BY Zenon DEF EndpointCases
<1>6. EndpointCases(e, api, credentials) \in Seq(R)
  <2>1. rest \in Seq(R)
    <3>1. <<>> \in Seq(R)
      OBVIOUS
    <3>2. CASE positive.execute
      BY <1>4, <3>2, Zenon
    <3>3. CASE ~positive.execute
      BY <3>1, <3>3, Zenon
    <3> QED
      BY <3>2, <3>3
  <2> HIDE DEF R, positive, rest
  <2> QED
    BY <1>3, <1>5, <2>1, ConcatProperties
<1> HIDE DEF R
<1> QED
  BY <1>2, <1>6

LEMMA SentTests ==
    ASSUME NEW S, NEW api, api.endpoints \in Seq(S), NEW credentials,
           NEW case \in ToSet(TestCases(api, credentials)), case.execute
    PROVE \E e \in S : case.endpoint = e.name /\ HasTests(e, api, credentials)
<1> DEFINE Cases(i) == EndpointCases(api.endpoints[i], api, credentials)
           seqs == [i \in DOMAIN api.endpoints |-> Cases(i)]
           All == UNION {ToSet(Cases(i)) : i \in DOMAIN api.endpoints}
<1>1. \A i \in DOMAIN api.endpoints : api.endpoints[i] \in S
  OBVIOUS
<1>2. ASSUME NEW i \in DOMAIN api.endpoints
      PROVE /\ Cases(i) \in Seq(All)
            /\ \A c \in ToSet(Cases(i)) : c.execute =>
                   c.endpoint = api.endpoints[i].name /\ HasTests(api.endpoints[i], api, credentials)
  <2>1. PICK R : /\ Cases(i) \in Seq(R)
                 /\ \A c \in R : c.execute =>
                       c.endpoint = api.endpoints[i].name /\ HasTests(api.endpoints[i], api, credentials)
    BY CasesOfEndpoint
  <2>2. \A k \in 1..Len(Cases(i)) : Cases(i)[k] \in All
    <3>1. \A c \in ToSet(Cases(i)) : c \in All
      OBVIOUS
    <3> HIDE DEF All, Cases
    <3> QED
      BY <2>1, <3>1 DEF ToSet
  <2> HIDE DEF All, Cases
  <2> QED
    BY <2>1, <2>2 DEF ToSet
<1>3. seqs \in Seq(Seq(All))
  <2>1. DOMAIN api.endpoints = 1..Len(api.endpoints) /\ Len(api.endpoints) \in Nat
    OBVIOUS
  <2> HIDE DEF All, Cases
  <2> QED
    BY <1>2, <2>1
<1>4. FlattenSeq(seqs) \in Seq(All)
  <2> HIDE DEF All, seqs
  <2> QED
    BY <1>3, Flattened
<1>5. case \in ToSet(FlattenSeq(seqs))
  BY Zenon DEF TestCases
<1>6. case \in All
  <2> HIDE DEF All, seqs
  <2> QED
    BY <1>4, <1>5 DEF ToSet
<1>7. PICK i \in DOMAIN api.endpoints : case \in ToSet(Cases(i))
  BY <1>6
<1> QED
  BY <1>1, <1>2, <1>7

-----------------------------------------------------------------------------
(* select_endpoint: the operation of the load test is all that --endpoint and
   --method can mean. *)

Eligible(api, path, method) ==
    {e.name : e \in {x \in ToSet(api.endpoints) : /\ path = {} \/ x.name[1] \in path
                                                  /\ method = {} \/ x.name[2] \in method}}
Loadable(api, path, method) ==
    {e.name : e \in {x \in SelectEndpoint(api, path, method) : HasRequest(x, api.components)}}

LEMMA SelectedIsMeant ==
    ASSUME NEW S, NEW api, api.endpoints \in Seq(S), NEW path, NEW method,
           NEW name \in Loadable(api, path, method)
    PROVE /\ Eligible(api, path, method) = {name}
          /\ Loadable(api, path, method) = {name}
          /\ \E e \in S : name = e.name /\ HasRequest(e, api.components)
<1> DEFINE M == Meant(api, path, method)
<1>1. PICK e \in SelectEndpoint(api, path, method) : name = e.name /\ HasRequest(e, api.components)
  BY DEF Loadable
<1>2. Cardinality(M) = 1
  BY <1>1 DEF SelectEndpoint
<1>3. IsFiniteSet(M)
  <2>1. M \subseteq 1..Len(api.endpoints) /\ Len(api.endpoints) \in Nat
    BY DEF Meant
  <2>2. IsFiniteSet(1..Len(api.endpoints))
    BY <2>1, FS_Interval
  <2> HIDE DEF M
  <2> QED
    BY <2>1, <2>2, FS_Subset
<1>4. PICK i : M = {i}
  BY <1>2, <1>3, FS_Singleton
<1>5. SelectEndpoint(api, path, method) = {api.endpoints[i]} /\ i \in DOMAIN api.endpoints
  <2>1. SelectEndpoint(api, path, method) = {api.endpoints[j] : j \in M}
    BY <1>2, Zenon DEF SelectEndpoint
  <2>2. \A j \in M : j \in DOMAIN api.endpoints
    BY DEF Meant
  <2> HIDE DEF M
  <2> QED
    BY <1>4, <2>1, <2>2
<1>6. e = api.endpoints[i] /\ e \in S
  BY <1>1, <1>5
<1>7. Loadable(api, path, method) = {name}
  BY <1>1, <1>5, <1>6 DEF Loadable
<1>8. Eligible(api, path, method) = {api.endpoints[j].name : j \in M}
  BY DEF Eligible, Meant, ToSet
<1>9. Eligible(api, path, method) = {name}
  <2> HIDE DEF M
  <2> QED
    BY <1>1, <1>4, <1>6, <1>8
<1> QED
  BY <1>1, <1>6, <1>7, <1>9

(* What a project's document is, and what is made of it. *)
LEMMA DocumentOfApi ==
    ASSUME NEW p \in UNION Families, NEW api \in Api(p),
           NEW f \in SelectSpecification(p.files, p.openapi)
    PROVE /\ f \in DOMAIN p.files
          /\ IsFiniteSet(DOMAIN p.files[f].components)
          /\ api.endpoints \in Seq(EndpointsOf(p.files[f]))
          /\ api.components = p.files[f].components
          /\ api.schemes = p.files[f].schemes
          /\ \A path \in ToSet(p.files[f].paths) : \A method \in DOMAIN path.operations :
                \A a, b \in path.operations[method].security : a = b
<1>1. f \in DOMAIN p.files
  BY DEF SelectSpecification, Candidates
<1>2. api \in ParseSpecification(p.files[f])
  BY OneDocument DEF Api, Specification
<1>3. /\ IsFiniteSet(DOMAIN p.files[f].components)
      /\ p.files[f].paths \in Seq(ToSet(p.files[f].paths))
      /\ \A path \in ToSet(p.files[f].paths) : \A method \in DOMAIN path.operations :
            \A a, b \in path.operations[method].security : a = b
  BY <1>1, ProjectAssumption DEF ProjectAssumption
<1> QED
  BY <1>1, <1>2, <1>3, EndpointsAreOperations

LEMMA LoadedOperation ==
    ASSUME NEW p \in UNION Families, NEW api \in Api(p),
           NEW f \in SelectSpecification(p.files, p.openapi), api.endpoints # <<>>
    PROVE PerformanceTarget(p.files, p.openapi, p.endpoint, p.method)
              = Loadable(api, p.endpoint, p.method)
<1> DEFINE document == Specification(p.files, p.openapi)
<1>1. DOMAIN p.files # {}
  BY DocumentOfApi
<1>2. document = {api}
  <2>1. Api(p) = {api}
    BY OneApi
  <2> QED
    BY <2>1 DEF Api
<1> DEFINE literal == {<<r, m>> : r \in p.endpoint,
                                  m \in IF p.method = {} THEN {"get"} ELSE p.method}
           of(x) == IF x.endpoints = <<>> THEN literal
                    ELSE {e.name : e \in {y \in SelectEndpoint(x, p.endpoint, p.method) :
                                             HasRequest(y, x.components)}}
<1>3. PerformanceTarget(p.files, p.openapi, p.endpoint, p.method) = UNION {of(x) : x \in document}
  <2>1. ~(p.openapi = {} /\ DOMAIN p.files = {})
    BY <1>1
  <2> QED
    BY <2>1 DEF PerformanceTarget
<1>4. of(api) = Loadable(api, p.endpoint, p.method)
  BY DEF Loadable
<1> HIDE DEF document, of
<1> QED
  BY <1>2, <1>3, <1>4

(* Nothing is sent that the document does not describe: whatever the functional
   tests send is an operation with a credential where it asks for one, every
   value a request carries is built from the document, also where schemas refer
   to themselves, and the load test is about the one operation that can be meant
   (test_generation.py, request_data.py, performance.py).  What a request leaves
   out (Dropped) is not claimed to be there. *)
THEOREM NothingIsMadeUp == Spec => []NothingMadeUp
<1>1. ASSUME IInv PROVE NothingMadeUp
  <2> SUFFICES ASSUME comparer # Idle, NEW c \in comparer.seen, NEW api \in Api(c.project),
                      NEW f \in SelectSpecification(c.project.files, c.project.openapi),
                      PlainComposition(c.project.files[f].components)
               PROVE LET p == c.project
                         sent == {case.endpoint : case \in
                                     {x \in ToSet(TestCases(api, p.credentials)) : x.execute}}
                         loaded == PerformanceTarget(p.files, p.openapi, p.endpoint, p.method)
                     IN  /\ \A name \in sent : /\ Described(p.files[f], name)
                                              /\ Secured(p.files[f], name, p.credentials)
                         /\ api.endpoints # <<>> /\ loaded # {} =>
                               /\ Eligible(api, p.endpoint, p.method) = loaded
                               /\ \A name \in loaded : Described(p.files[f], name)
    BY Zenon DEF NothingMadeUp, Eligible
  <2> DEFINE p == c.project
             document == p.files[f]
  <2>1. p \in UNION Families
    BY <1>1 DEF IInv, ProcessesOK, Observed, Observation
  <2>2. /\ IsFiniteSet(DOMAIN document.components)
        /\ api.endpoints \in Seq(EndpointsOf(document))
        /\ api.components = document.components
        /\ api.schemes = document.schemes
        /\ \A path \in ToSet(document.paths) : \A method \in DOMAIN path.operations :
              \A a, b \in path.operations[method].security : a = b
    BY <2>1, DocumentOfApi
  <2>3. \A e \in EndpointsOf(document) :
           \E path \in ToSet(document.paths) : \E method \in DOMAIN path.operations :
              e = BuildEndpoint(path, method, document)
    BY DEF EndpointsOf
  <2>4. \A e \in EndpointsOf(document) :
           HasRequest(e, document.components) => Described(document, e.name)
    BY <2>2, <2>3, RequestsAreDescribed
  <2>5. \A e \in EndpointsOf(document) :
           HasCredentials(e, api, p.credentials) => Secured(document, e.name, p.credentials)
    BY <2>2, <2>3, SecurityIsOpened
  <2> HIDE DEF document
  <2>6. ASSUME NEW case \in ToSet(TestCases(api, p.credentials)), case.execute
        PROVE /\ Described(document, case.endpoint)
              /\ Secured(document, case.endpoint, p.credentials)
    <3>1. PICK e \in EndpointsOf(document) :
             case.endpoint = e.name /\ HasTests(e, api, p.credentials)
      BY <2>2, <2>6, SentTests
    <3> QED
      BY <2>2, <2>4, <2>5, <3>1 DEF HasTests
  <2>7. ASSUME api.endpoints # <<>>,
               NEW name \in PerformanceTarget(p.files, p.openapi, p.endpoint, p.method)
        PROVE /\ Eligible(api, p.endpoint, p.method)
                     = PerformanceTarget(p.files, p.openapi, p.endpoint, p.method)
              /\ Described(document, name)
    <3>1. PerformanceTarget(p.files, p.openapi, p.endpoint, p.method)
              = Loadable(api, p.endpoint, p.method)
      BY <2>1, <2>7, LoadedOperation
    <3>2. /\ Eligible(api, p.endpoint, p.method) = {name}
          /\ Loadable(api, p.endpoint, p.method) = {name}
          /\ \E e \in EndpointsOf(document) : name = e.name /\ HasRequest(e, api.components)
      BY <2>2, <3>1, SelectedIsMeant
    <3> QED
      BY <2>2, <2>4, <3>1, <3>2
  <2> QED
    BY <2>6, <2>7 DEF document
<1> QED
  BY <1>1, BaselineInvariant, PTL
=============================================================================
