-------------------------- MODULE BaselineComparison --------------------------
(***************************************************************************)
(* baseline save, baseline compare and assess --baseline as processes that *)
(* share a file, around a project that changes between and during them.    *)
(*                                                                         *)
(* One process saves, again and again, and may die at any point; another   *)
(* compares.  Either goes through the whole pipeline in one step, which    *)
(* reads the project as it then is; CommandLine and AssessmentPipeline     *)
(* have the pipeline itself.  The file is written in place.                *)
(*                                                                         *)
(* A definition without a comment right before another with the same       *)
(* parameters is a faulty variant of it, used to test the properties.      *)
(***************************************************************************)
EXTENDS ApiTests, Regression, StaticAssessment

CONSTANTS
    Families,   \* sets of projects; a project turns into others of its family
    StageSets,  \* the sets of stages a run may be asked for
    Tolerance   \* regression.performance of universal-test.yaml

Stage == {"functional", "performance", "database", "browser", "scenario"}

Fields == {"files", "openapi", "endpoint", "method", "credentials", "answers", "load", "tables",
           "unreadable", "browser", "scenarios", "raising", "found"}

(* What a project is made of; --openapi names one file, an operation has one
   security field or none, and a metric of a load test is measured once or not
   at all. *)
ASSUME ProjectAssumption ==
    \A p \in UNION Families :
        /\ p = [f \in Fields |-> p[f]]
        /\ p.credentials \subseteq Credential
        /\ IsFiniteSet(DOMAIN p.files)
        /\ \A f \in DOMAIN p.files :
              /\ IsFiniteSet(DOMAIN p.files[f].components)
              /\ p.files[f].paths \in Seq(ToSet(p.files[f].paths))
              /\ \A path \in ToSet(p.files[f].paths) : \A method \in DOMAIN path.operations :
                    \A a, b \in path.operations[method].security : a = b
        /\ \A f, g \in p.openapi : f = g
        /\ \A level \in DOMAIN p.load.levels, metric \in ComparedMetrics :
              /\ p.load.levels[level][metric] \subseteq Int
              /\ \A a, b \in p.load.levels[level][metric] : a = b

(* A target is enough for the functional tests to run.  A negative tolerance
   would ask for an improvement. *)
ASSUME BaselineAssumption ==
    /\ \A threshold \in DOMAIN Tolerance : Tolerance[threshold] \in Nat
    /\ \A stages \in StageSets :
          stages \subseteq Stage /\ (stages \ {"database"} # {} => "functional" \in stages)

VARIABLES
    project,    \* the project and everything the stages would find in it
    file,       \* the baseline file
    saver,      \* the process that saves
    comparer,   \* the process that compares
    saved       \* what the save that wrote the file had seen: {} or a singleton

baselineVars == <<project, file, saver, comparer, saved>>

Absent == [state |-> "absent"]
Truncated == [state |-> "truncated"]
(* Any other file: no JSON, no baseline, another schema version. *)
Foreign == [state |-> "foreign"]
Complete(snapshot) == [state |-> "complete", snapshot |-> snapshot]

Idle == [at |-> "idle"]

Init ==
    /\ project \in UNION Families
    /\ file \in {Absent, Foreign}
    /\ saver = Idle
    /\ comparer = Idle
    /\ saved = {}

-----------------------------------------------------------------------------
(* One run of the pipeline with the stages asked for.  Every stage but the
   database's is a matter of having a target. *)
Only(stage, stages, section) == IF stage \in stages THEN section ELSE {}

Api(p) == Specification(p.files, p.openapi)
FunctionalSection(p, stages) ==
    Only("functional", stages, {Results(api, p.credentials, p.answers) : api \in Api(p)})

(* The load test runs when there is one operation to send. *)
LoadSection(p, stages, section) ==
    Only("performance", stages,
         {section : target \in PerformanceTarget(p.files, p.openapi, p.endpoint, p.method)})

(* discover_database: a table whose metadata cannot be read is left out, with
   a warning. *)
Readable(p) == [t \in DOMAIN p.tables \ p.unreadable |-> p.tables[t]]
DatabaseEvidence(p) ==
    {IF p.unreadable # {} THEN "partial_metadata"
     ELSE IF DOMAIN p.tables = {} THEN "no_tables" ELSE "complete"}

(* A scenario that was not assessed is not part of the snapshot, and without
   any other neither is the section. *)
ScenarioSection(p, stages) ==
    LET executed == {s \in DOMAIN p.scenarios : p.scenarios[s] # "not_assessed"} IN
    Only("scenario", stages,
         IF executed = {} THEN {} ELSE {[s \in executed |-> p.scenarios[s]]})

Tally(statuses, failing) ==
    [attempted |-> Cardinality(DOMAIN statuses),
     transport |-> Cardinality({t \in DOMAIN statuses : statuses[t] = "error"}),
     failed    |-> Cardinality({t \in DOMAIN statuses : statuses[t] = failing}),
     breach    |-> FALSE]

(* discover, with what detect_apis makes of the documents. *)
Model(p) ==
    Discover([p.found EXCEPT !.apis = @ \cup DetectApis(p.files)], p.raising)

(* build_assessment: the categories by name. *)
Categories(p, stages) ==
    LET executed ==
            [functional  |-> ExecutionCategory({Summary(r) : r \in FunctionalSection(p, stages)}),
             performance |-> PerformanceCategory(LoadSection(p, stages, p.load.counts)),
             database    |-> DatabaseCategory(Only("database", stages, DatabaseEvidence(p))),
             browser     |-> ExecutionCategory({Tally(b, "failed") :
                                                   b \in Only("browser", stages, {p.browser})}),
             scenario    |-> ExecutionCategory({Tally(s, "fail") :
                                                   s \in ScenarioSection(p, stages)})]
        static == StaticCategories(Model(p), stages \ {"database"} # {},
                                   "database" \in stages /\ DOMAIN Readable(p) # {})
    IN  [c \in DOMAIN executed \cup DOMAIN static |->
            IF c \in DOMAIN executed THEN executed[c] ELSE static[c]]

(* build_snapshot *)
Snapshot(p, stages) ==
    [functional  |-> FunctionalSection(p, stages),
     performance |-> LoadSection(p, stages, p.load.levels),
     database    |-> Only("database", stages, {Readable(p)}),
     browser     |-> Only("browser", stages, {p.browser}),
     scenario    |-> ScenarioSection(p, stages),
     discovery   |-> DiscoverySnapshot(Model(p)),
     assessment  |-> Categories(p, stages)]

Observation(p, stages) == [project |-> p, stages |-> stages, snapshot |-> Snapshot(p, stages)]

-----------------------------------------------------------------------------
(* baseline save *)
RunBeforeSave ==
    /\ saver = Idle
    /\ \E stages \in StageSets :
          saver' = [at |-> "observed", seen |-> Observation(project, stages)]
    /\ UNCHANGED <<project, file, comparer, saved>>

(* write_text opens the file for writing and thereby empties it. *)
OpenFile ==
    /\ saver.at = "observed"
    /\ saver' = [saver EXCEPT !.at = "writing"]
    /\ file' = Truncated
    /\ saved' = {}
    /\ UNCHANGED <<project, comparer>>

WriteFile ==
    /\ saver.at = "writing"
    /\ file' = Complete(saver.seen.snapshot)
    /\ saved' = {saver.seen}
    /\ saver' = Idle
    /\ UNCHANGED <<project, comparer>>

SaverDies ==
    /\ saver # Idle
    /\ saver' = Idle
    /\ UNCHANGED <<project, file, comparer, saved>>

-----------------------------------------------------------------------------
(* baseline compare and assess --baseline.  origin is what the baseline that
   was loaded had seen when it was saved. *)
Nothing == [functional |-> {}, performance |-> {}, database |-> {}, browser |-> {},
            scenario |-> {}, discovery |-> {}, assessment |-> <<>>]

(* baseline compare loads first, assess runs the pipeline first. *)
BeginComparison ==
    /\ comparer = Idle
    /\ \E first \in {"load", "run"} :
          comparer' = [at |-> "begun", next |-> first, baseline |-> {}, origin |-> {}, seen |-> {}]
    /\ UNCHANGED <<project, file, saver, saved>>

Loads(state) ==
    /\ comparer.at = "begun"
    /\ comparer.next = "load"
    /\ file.state = state

(* A file cut short is a baseline with the rest missing. *)
LoadLeniently ==
    /\ comparer.at = "begun"
    /\ comparer.next = "load"
    /\ file.state \in {"complete", "truncated"}
    /\ comparer' = [comparer EXCEPT
                       !.baseline = {IF file = Truncated THEN Nothing ELSE file.snapshot},
                       !.origin = saved,
                       !.next = "run",
                       !.at = IF comparer.seen # {} THEN "both" ELSE "begun"]
    /\ UNCHANGED <<project, file, saver, saved>>
(* load_baseline, on the file as it is now. *)
LoadBaseline ==
    /\ Loads("complete")
    /\ comparer' = [comparer EXCEPT
                       !.baseline = {file.snapshot},
                       !.origin = saved,
                       !.next = "run",
                       !.at = IF comparer.seen # {} THEN "both" ELSE "begun"]
    /\ UNCHANGED <<project, file, saver, saved>>

(* RegressionError: both commands end with exit code 2 and without a
   comparison.  A prefix of a JSON object is no JSON. *)
RefuseBaseline ==
    /\ \E state \in {"absent", "truncated", "foreign"} : Loads(state)
    /\ comparer' = Idle
    /\ UNCHANGED <<project, file, saver, saved>>

RunPipeline ==
    /\ comparer.at = "begun"
    /\ comparer.next = "run"
    /\ \E stages \in StageSets :
          comparer' = [comparer EXCEPT
                          !.seen = {Observation(project, stages)},
                          !.next = "load",
                          !.at = IF comparer.baseline # {} THEN "both" ELSE "begun"]
    /\ UNCHANGED <<project, file, saver, saved>>

(* Both sides are there: the comparison and the verdict below are functions of
   them.  Then the process ends. *)
EndComparison ==
    /\ comparer.at = "both"
    /\ comparer' = Idle
    /\ UNCHANGED <<project, file, saver, saved>>

findings ==
    UNION {Compare(b, seen.snapshot, Tolerance) : b \in comparer.baseline, seen \in comparer.seen}

(* evaluate, under the default policy. *)
gate ==
    LET category == (CHOOSE seen \in comparer.seen : TRUE).snapshot.assessment IN
    GateStatus(InfraSignals(category),
               QualitySignals(category, OverallStatus({category[c] : c \in DOMAIN category}),
                              {RegressionSignals(findings)}),
               DefaultPolicy)

-----------------------------------------------------------------------------
(* The project changes at any time. *)
Drift ==
    /\ \E family \in Families : project \in family /\ project' \in family \ {project}
    /\ UNCHANGED <<file, saver, comparer, saved>>

Next ==
    \/ RunBeforeSave \/ OpenFile \/ WriteFile \/ SaverDies
    \/ BeginComparison \/ LoadBaseline \/ RefuseBaseline \/ RunPipeline \/ EndComparison
    \/ Drift

Spec == Init /\ [][Next]_baselineVars

-----------------------------------------------------------------------------
(* Whatever happens to the process that saves, and however the two overlap, a
   comparison is made with exactly what one save had seen that ran to its end,
   never with a part of it or with something else (baseline_store.py). *)
ComparedWasSaved ==
    comparer # Idle =>
        \A b \in comparer.baseline : \E o \in comparer.origin : b = o.snapshot

(* Between two runs that generate the same tests, everything that passed and
   does not pass any more makes the gate of assess fail, or report the target
   as unreachable: a functional test whose answer went wrong, a browser test,
   a scenario. *)
BreakageIsSeen ==
    comparer.at = "both" =>
        \A o \in comparer.origin, c \in comparer.seen :
            LET was == o.project
                is == c.project
                cases == UNION {ToSet(TestCases(api, is.credentials)) : api \in Api(is)}
                Came(p, case) == TestStatus(case, p.answers[case.endpoint][case.kind])
                Both(stage) == stage \in o.stages \cap c.stages
                Broken ==
                    \/ /\ Both("functional")
                       /\ \E case \in cases :
                             Came(was, case) = "passed" /\ Came(is, case) # "passed"
                    \/ /\ Both("browser")
                       /\ \E t \in DOMAIN was.browser \cap DOMAIN is.browser :
                             was.browser[t] = "passed" /\ is.browser[t] \in {"failed", "error"}
                    \/ /\ Both("scenario")
                       /\ \E s \in DOMAIN was.scenarios \cap DOMAIN is.scenarios :
                             was.scenarios[s] = "pass" /\ is.scenarios[s] \in {"fail", "error"}
            IN  Api(was) = Api(is) /\ was.credentials = is.credentials /\ Broken
                    => gate \notin {"pass", "warning"}

(* The other way round: two equal runs of an unchanged project show nothing,
   and as long as everything that answers does as before, new or lost tables
   and technologies are no reason for the comparison to fail
   (SPECIFICATION.md, "always informational"), nor is a detector that raises. *)
NoFalseAlarm ==
    comparer.at = "both" =>
        \A o \in comparer.origin, c \in comparer.seen :
            LET was == o.project
                is == c.project
            IN  o.stages = c.stages =>
                  /\ was = is => findings = {}
                  /\ was = [is EXCEPT !.tables = was.tables, !.unreadable = was.unreadable,
                                      !.found = was.found, !.raising = was.raising]
                        => \A b \in comparer.baseline :
                              RegressionStatus(b, c.snapshot, findings) # "fail"

(* Nothing is sent that was made up.  Every operation the functional tests send
   is one of the document, with a credential when it or else the document asks
   for one, and every value its request carries, for its path, a required query
   or header parameter or a required body, is built from what the document
   gives, also in schemas that refer to themselves or to nothing.  The load test
   sends the one operation that can be meant, never one of several, with values
   of the same kind; a credential is not asked for there.  That a request is
   complete is not claimed: Dropped says what the code leaves out of it, and a
   nested or recursive allOf is out of the property's reach. *)
NothingMadeUp ==
    comparer # Idle =>
        \A c \in comparer.seen : \A api \in Api(c.project) :
            LET p == c.project
                sent == {case.endpoint : case \in
                            {x \in ToSet(TestCases(api, p.credentials)) : x.execute}}
                loaded == PerformanceTarget(p.files, p.openapi, p.endpoint, p.method)
                meant == {e.name : e \in {x \in ToSet(api.endpoints) :
                                            /\ p.endpoint = {} \/ x.name[1] \in p.endpoint
                                            /\ p.method = {} \/ x.name[2] \in p.method}}
            IN  \A f \in SelectSpecification(p.files, p.openapi) :
                    PlainComposition(p.files[f].components) =>
                        /\ "functional" \in c.stages =>
                              \A name \in sent : /\ Described(p.files[f], name)
                                                 /\ Secured(p.files[f], name, p.credentials)
                        /\ "performance" \in c.stages /\ api.endpoints # <<>> /\ loaded # {} =>
                              meant = loaded /\ \A name \in loaded : Described(p.files[f], name)

(* SPECIFICATION.md:418-420: "A test present in only one of the two runs is
   ADDED/REMOVED, never itself a regression verdict."  A test is the request it
   sends: when each that both runs have came out the same, none regressed. *)
OnlyCommonTestsRegress ==
    comparer.at = "both" =>
        \A o \in comparer.origin, c \in comparer.seen :
            LET Named(p) ==
                    UNION {LET cases == TestCases(api, p.credentials) IN
                           {<<cases[i].endpoint, cases[i].kind,
                              Results(api, p.credentials, p.answers)[i]>> : i \in DOMAIN cases} :
                               api \in Api(p)}
                Agree == \A b \in Named(o.project), a \in Named(c.project) :
                            <<b[1], b[2]>> = <<a[1], a[2]>> => b[3] = a[3]
            IN  Agree => ~\E f \in findings : f.category = "functional" /\ f.change = "regressed"
=============================================================================
