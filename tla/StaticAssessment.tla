--------------------------- MODULE StaticAssessment ---------------------------
(***************************************************************************)
(* The categories of an assessment that execute nothing: assessment/       *)
(* discovery_assessment.py, configuration_assessment.py,                   *)
(* frontend_assessment.py and testability_assessment.py judge what         *)
(* discovery found.  Pure operators, no state.                             *)
(*                                                                         *)
(* A definition without a comment right before another with the same       *)
(* parameters is a faulty variant of it, used to test the properties.      *)
(***************************************************************************)
EXTENDS Discovery

-----------------------------------------------------------------------------
(* assess_project_discovery.  "generic" is what a project without any other
   type gets. *)
ProjectDiscovery(model) ==
    LET types == {d \in Sure(model.project_types) : d.name # "generic"} IN
    IF model.languages = {} /\ types = {} THEN "unknown"
    ELSE IF Sure(model.languages) \cup types # {} THEN "pass"
    ELSE "warning"

(* assess_build_health.  A static website needs no build system. *)
BuildHealth(model) ==
    LET static_web == model.build_systems = {}
                        /\ model.frontend \cap {"static_web", "unknown_web"} # {}
    IN  IF Sure(model.build_systems) # {} \/ static_web THEN "pass" ELSE "warning"

TestInfrastructure(model) == IF model.test_frameworks # {} THEN "pass" ELSE "warning"

ConfigurationHygiene(model) == IF model.secrets THEN "warning" ELSE "pass"

FRONTEND_TEST_FRAMEWORK_NAMES ==
    {"Jest", "Vitest", "Mocha", "Karma", "Jasmine", "Playwright", "Cypress", "WebdriverIO",
     "Puppeteer", "Testing Library"}

UntestedIsBroken(model) ==
    IF model.frontend = {} THEN "not_assessed"
    ELSE IF Names(model.test_frameworks) \cap FRONTEND_TEST_FRAMEWORK_NAMES # {} THEN "pass"
    ELSE "fail"
FrontendHealth(model) ==
    IF model.frontend = {} THEN "not_assessed"
    ELSE IF Names(model.test_frameworks) \cap FRONTEND_TEST_FRAMEWORK_NAMES # {} THEN "pass"
    ELSE "warning"

-----------------------------------------------------------------------------
(* The signals of assess_testability that count as good.  A document that only
   looks like OpenAPI and a database without tables do not; what was named on
   the command line, target and database profile, counts with the project. *)
GoodSignals(model, target, tables) ==
    {s \in {"api", "test framework", "test directories", "docker", "target", "database"} :
        CASE s = "api"              -> Detected("openapi") \in model.apis
          [] s = "test framework"   -> model.test_frameworks # {}
          [] s = "test directories" -> model.test_directories
          [] s = "docker"           ->
                Names(model.infrastructure) \cap {"Docker", "Docker Compose"} # {}
          [] s = "target"           -> target
          [] s = "database"         -> tables}
Testability(model, target, tables) ==
    LET good == Cardinality(GoodSignals(model, target, tables)) IN
    IF good >= 2 THEN "pass" ELSE IF good = 1 THEN "warning" ELSE "unknown"

(* build_assessment, the part that depends on nothing executed but whether a
   target was given, and whether a database with tables was read. *)
StaticCategories(model, target, tables) ==
    [discovery           |-> ProjectDiscovery(model),
     build               |-> BuildHealth(model),
     testability         |-> Testability(model, target, tables),
     configuration       |-> ConfigurationHygiene(model),
     test_infrastructure |-> TestInfrastructure(model),
     frontend            |-> FrontendHealth(model)]

(* _discovery_snapshot: what a baseline remembers of a project. *)
DiscoverySnapshot(model) ==
    UNION {{<<kind, name>> : name \in Names(model[kind])} :
              kind \in {"languages", "frameworks", "databases", "apis", "test_frameworks",
                         "infrastructure"}}
=============================================================================
