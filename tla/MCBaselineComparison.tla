------------------------- MODULE MCBaselineComparison -------------------------
(***************************************************************************)
(* Families of projects.  Working changes what the functional tests see:   *)
(* an answer goes wrong, the target goes down, the credential is lost.     *)
(* Numbering adds an operation before one that has always been broken, or  *)
(* removes it.  Surroundings changes what everything else sees, and has    *)
(* detectors that raise.  The rest are families of one project: documents  *)
(* that are missing, several, of another version or partly malformed, and  *)
(* every way to relate two components a request body is made of.           *)
(***************************************************************************)
EXTENDS BaselineComparison

Right(code) == Answer(code, TRUE)
Kinds == {"positive", "missing parameter", "missing body field", "invalid field type",
          "unsupported content type"}
Broken == <<"/broken", "get">>
Operation == {"/ping", "/items", "/broken"} \X {"get", "post"}
Answers == [o \in Operation |->
               [k \in Kinds |->
                   IF o = Broken THEN Answer(500, FALSE)
                   ELSE IF k = "positive" THEN Right(200) ELSE Right(400)]]

Json(schema) == <<[json |-> FALSE, schema |-> "Name"], [json |-> TRUE, schema |-> schema]>>
Plain ==
    [malformed |-> FALSE, security |-> {}, parameters |-> <<>>, body |-> {},
     responses |-> (200 :> Json("Name") @@ 0 :> <<>>)]
Path(name, operations) == [name |-> name, parameters |-> <<>>, operations |-> operations]
Ping == Path("/ping", [get |-> Plain])
BrokenPath == Path("/broken", [get |-> Plain])
Filter == [resolved |-> TRUE, location |-> "query", required |-> TRUE, schema |-> "Name"]
Tenant == [resolved |-> TRUE, location |-> "header", required |-> FALSE, schema |-> "Item"]
Dangling == [Filter EXCEPT !.resolved = FALSE]
Body(schema) == {[required |-> TRUE, content |-> Json(schema)]}
List ==
    [Plain EXCEPT !.parameters = <<Filter>>,
                  !.responses = (400 :> <<>> @@ 404 :> <<>> @@ 200 :> Json("Name"))]
Create ==
    [Plain EXCEPT !.security = {<<<<"other">>, <<"token">>>>}, !.body = Body("Item"),
                  !.responses = (201 :> Json("Item") @@ 200 :> <<>> @@ 400 :> <<>> @@ 4 :> <<>>)]
Items == [Path("/items", [post |-> Create, get |-> List]) EXCEPT !.parameters = <<Tenant, Dangling>>]

Components ==
    [Name |-> Text, Count |-> Numeric,
     Item |-> Object({"name", "count"},
                     <<Property("name", "Name"), Property("count", "Count"), Property("in", "Item")>>)]
Document ==
    [marked |-> TRUE, version |-> "3", components |-> Components, security |-> <<>>,
     schemes |-> [token |-> "bearer", other |-> "apiKey"], paths |-> <<Items>>]

Level(p95, rps) ==
    [p50_ms |-> {0}, p90_ms |-> {}, p95_ms |-> {p95}, p99_ms |-> {}, rps |-> {rps},
     error_rate_percent |-> {0}]
Healthy == [attempted |-> 1, transport |-> 0, failed |-> 0, breach |-> FALSE]
Found ==
    [languages |-> {Detected("Python")}, manifests |-> {}, build_systems |-> {},
     frameworks |-> {Detected("React"), Detected("Flask")}, databases |-> {}, apis |-> {},
     test_frameworks |-> {Detected("Jest")}, infrastructure |-> {}, frontend |-> FALSE,
     directories |-> [app |-> [pages |-> 1, index |-> TRUE, assets |-> FALSE, suspicious |-> FALSE]],
     test_directories |-> FALSE, secrets |-> FALSE]
Base ==
    [files |-> [openapi |-> Document], openapi |-> {}, endpoint |-> {"/items"}, method |-> {"get"},
     credentials |-> {"bearer_token"}, answers |-> Answers,
     load |-> [levels |-> (1 :> Level(100, 50)), counts |-> Healthy],
     tables |-> [users |-> [columns |-> {"id"}, foreign_keys |-> 0, indexes |-> 1]],
     unreadable |-> {}, browser |-> [page |-> "passed", form |-> "passed"],
     scenarios |-> [login |-> "pass", logout |-> "not_assessed"],
     raising |-> {}, found |-> Found]

Working ==
    {Base,
     [Base EXCEPT !.answers[<<"/items", "get">>]["missing parameter"] = Right(200),
                 !.load.levels[1] = Level(111, 50), !.scenarios["login"] = "fail"],
     [Base EXCEPT !.answers = [e \in DOMAIN @ |-> [k \in Kinds |-> NoAnswer]]],
     [Base EXCEPT !.credentials = {"basic"}]}
Numbering == {[Base EXCEPT !.files["openapi"].paths = @ \o <<BrokenPath>>],
              [Base EXCEPT !.files["openapi"].paths = <<Ping>> \o @ \o <<BrokenPath>>]}
(* No project is of two families. *)
Quiet == [Base EXCEPT !.found.test_directories = TRUE]
Surroundings ==
    {Quiet,
     [Quiet EXCEPT !.browser["page"] = "error"],
     [Quiet EXCEPT !.tables = <<>>, !.found.infrastructure = {Detected("Docker")},
                  !.found.frameworks = {}, !.found.secrets = TRUE],
     [Quiet EXCEPT !.unreadable = {"users"}, !.found.languages = {Inferred("Python")},
                  !.raising = {"frameworks", "test_frameworks"}]}

(* One project each. *)
Documents ==
    {[Base EXCEPT !.endpoint = {}, !.method = {}],
     [Base EXCEPT !.files = <<>>],
     [Base EXCEPT !.files["openapi"].marked = FALSE],
     [Base EXCEPT !.files["openapi"].version = "2"],
     [Base EXCEPT !.files["openapi"].security = <<<<"token">>>>, !.credentials = {}],
     [Base EXCEPT !.files["openapi"].security = <<<<"token">>>>, !.credentials = {},
                  !.files["openapi"].paths[1].operations["get"].security = {<<>>}],
     [Base EXCEPT !.files["openapi"].paths[1].operations["get"].malformed = TRUE],
     [Base EXCEPT !.files = @ @@ [swagger |-> Document]],
     [Base EXCEPT !.files = @ @@ [swagger |-> Document], !.openapi = {"swagger"}],
     [Base EXCEPT !.files = @ @@ [swagger |-> [Document EXCEPT !.marked = FALSE]]]}

ComponentNames == {"Body", "Part"}
Forms ==
    {Text, Opaque, ArrayOf(0, "Body"), ArrayOf(1, "Part"), Object({}, <<Property("a", "Body")>>),
     Object({"a"}, <<>>), Object({"a", "b"}, <<Property("a", "Part"), Property("b", "Part")>>)}
        \cup {Object({"a"}, <<Property("a", x)>>) : x \in {"Body", "Nowhere"}}
        \cup {AllOf(<<x>>) : x \in ComponentNames}
OnePost(components) ==
    [Base EXCEPT !.files["openapi"].components = components,
                 !.files["openapi"].paths =
                     <<Path("/items", [post |-> [Create EXCEPT !.security = {}, !.body = Body("Body")]])>>,
                 !.endpoint = {}, !.method = {}]

MCFamilies ==
    {Working, Numbering, Surroundings} \cup {{p} : p \in Documents}
        \cup {{OnePost(components)} : components \in [ComponentNames -> Forms]}
MCStageSets == {Stage, {"database"}}
MCTolerance == [p50_percent |-> 10, p95_percent |-> 0, rps_percent |-> 10, error_rate_absolute |-> 1]
=============================================================================
