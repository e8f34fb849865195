------------------------------ MODULE ApiTests -------------------------------
(***************************************************************************)
(* adapters/rest/: an OpenAPI document becomes functional tests, and the   *)
(* answers of the target become their results.  Pure operators, no state.  *)
(*                                                                         *)
(* An api is what OpenApi makes of a document: components, schemes and the *)
(* sequence of endpoints.                                                  *)
(*                                                                         *)
(* A definition without a comment right before another with the same       *)
(* parameters is a faulty variant of it, used to test the properties.      *)
(***************************************************************************)
EXTENDS OpenApi

(* SchemaModel.  "text" and "number" have an example, a default, an enum or a
   type to make a value from; "opaque" has nothing of the kind. *)
Text == [form |-> "text"]
Numeric == [form |-> "number"]
Opaque == [form |-> "opaque"]
ArrayOf(minItems, items) == [form |-> "array", minItems |-> minItems, items |-> items]
Object(required, properties) ==
    [form |-> "object", required |-> required, properties |-> properties]
Property(field, schema) == [field |-> field, schema |-> schema]
AllOf(parts) == [form |-> "allOf", parts |-> parts]

Given(field, properties, known) ==
    \E p \in ToSet(properties) : p.field = field /\ p.schema \in known

(* generate_value on what resolve_internal_refs leaves: whether there is a
   value to send.  via is the chain of references that leads here, further has
   for every chain what there is a value of behind it.  The parts of an allOf
   count by their own properties and required fields, the last declaration of a
   field first; whatever has none of its own, a marker or a nested allOf, adds
   nothing. *)
HasValue(components, schema, via, further) ==
    \/ schema.form \in {"text", "number"}
    \/ schema.form = "array" /\ (schema.minItems = 0 \/ schema.items \in further[via])
    \/ /\ schema.form = "object"
       /\ \A field \in schema.required : Given(field, schema.properties, further[via])
    \/ /\ schema.form = "allOf"
       /\ LET merged == {i \in DOMAIN schema.parts :
                           /\ schema.parts[i] \in DOMAIN components \ via
                           /\ components[schema.parts[i]].form = "object"}
              Part(i) == components[schema.parts[i]]
          IN  \A field \in UNION {Part(i).required : i \in merged} :
                  \E i \in merged :
                      /\ Given(field, Part(i).properties, further[via \cup {schema.parts[i]}])
                      /\ \A j \in merged : j > i =>
                             \A p \in ToSet(Part(j).properties) : p.field # field

GenerableThroughCycles(components, root) ==
    LET D == DOMAIN components
        Known[chain \in SUBSET D] ==
            chain \cup {name \in D \ chain :
                           HasValue(components, components[name], chain \cup {name}, Known)}
    IN  root \in Known[{}]
(* A reference that leads back into the chain it is resolved in, or nowhere,
   becomes a marker without a type, and has no value. *)
Values(components) ==
    LET D == DOMAIN components
        Known[chain \in SUBSET D] ==
            {name \in D \ chain :
                HasValue(components, components[name], chain \cup {name}, Known)}
    IN  Known
Generable(components, root) == root \in Values(components)[{}]

-----------------------------------------------------------------------------
(* Credentials: what the environment variables of the command line gave. *)
Credential == {"bearer_token", "api_key", "basic"}

(* The one ladder both available_scheme_names and build_auth_headers have.  A
   bearer token serves every scheme that ends in one. *)
Opens(schemes, name) ==
    IF name \notin DOMAIN schemes THEN {}
    ELSE CASE schemes[name] \in {"bearer", "oauth2", "openIdConnect"} -> {"bearer_token"}
           [] schemes[name] = "basic"  -> {"basic"}
           [] schemes[name] = "apiKey" -> {"api_key"}
           [] OTHER -> {}

AvailableSchemes(schemes, credentials) ==
    {name \in DOMAIN schemes : Opens(schemes, name) \cap credentials # {}}

(* The credential of the first scheme there is one for, if any. *)
AuthHeaders(endpoint, schemes, credentials) ==
    LET usable == SelectSeq(endpoint.security,
                            LAMBDA name : Opens(schemes, name) \cap credentials # {})
    IN  IF usable = <<>> THEN {} ELSE Opens(schemes, Head(usable))

-----------------------------------------------------------------------------
(* test_generation.py. *)
Skip(endpoint, status) ==
    [endpoint |-> endpoint, kind |-> "positive", execute |-> FALSE, result |-> status,
     expect |-> {}, checked |-> FALSE]
Case(endpoint, kind, expect, checked) ==
    [endpoint |-> endpoint, kind |-> kind, execute |-> TRUE, result |-> "unknown",
     expect |-> expect, checked |-> checked]

(* build_positive_request: what has to be sent. *)
Sends(p) == p.location = "path" \/ (p.required /\ p.location \in {"query", "header"})
HasRequest(endpoint, components) ==
    /\ \A p \in endpoint.parameters : Sends(p) => Generable(components, p.schema)
    /\ \A b \in endpoint.body : b.required => \E s \in b.schema : Generable(components, s)

HasCredentials(endpoint, api, credentials) ==
    endpoint.security = <<>>
        \/ ToSet(endpoint.security) \cap AvailableSchemes(api.schemes, credentials) # {}

PositiveTestCase(endpoint, api, credentials) ==
    IF ~HasCredentials(endpoint, api, credentials) THEN Skip(endpoint.name, "skipped")
    ELSE IF ~HasRequest(endpoint, api.components) \/ endpoint.success = {}
         THEN Skip(endpoint.name, "unknown")
    ELSE Case(endpoint.name, "positive", endpoint.success, endpoint.checked)

MAX_NEGATIVE_TESTS_PER_ENDPOINT == 3
(* Deviations from the positive request, only where some error is documented.
   A body that was not sent is not deviated from. *)
NegativeKinds(endpoint, components) ==
    LET Missing == {p \in endpoint.parameters :
                        p.required /\ p.location \in {"query", "header"}}
        sent == {b \in endpoint.body : b.required}
        (* the schemas of bodies that are JSON objects *)
        objects == {components[s] :
                        s \in {x \in (UNION {b.schema : b \in sent}) \cap DOMAIN components :
                                   components[x].form \in {"object", "allOf"}}}
        (* what a schema says by itself: an allOf leaves it to its parts *)
        own == {s \in objects : s.form = "object"}
        (* the places of the numeric properties *)
        Numbers(s) == {i \in DOMAIN s.properties :
                          /\ s.properties[i].schema \in DOMAIN components
                          /\ components[s.properties[i].schema].form = "number"}
        kinds == <<IF Missing # {} THEN <<"missing parameter">> ELSE <<>>,
                   IF \E s \in own : s.required # {} THEN <<"missing body field">> ELSE <<>>,
                   IF \E s \in own : \E i \in Numbers(s) :
                         (\A j \in Numbers(s) : i <= j) /\ s.properties[i].field \in s.required
                   THEN <<"invalid field type">> ELSE <<>>,
                   IF objects # {} /\ \E b \in sent : b.json
                   THEN <<"unsupported content type">> ELSE <<>>>>
        all == FlattenSeq(kinds)
    IN  IF endpoint.errors = {} THEN <<>>
        ELSE SubSeq(all, 1, IF Len(all) < MAX_NEGATIVE_TESTS_PER_ENDPOINT THEN Len(all)
                            ELSE MAX_NEGATIVE_TESTS_PER_ENDPOINT)

EndpointCases(endpoint, api, credentials) ==
    LET positive == PositiveTestCase(endpoint, api, credentials)
        kinds == NegativeKinds(endpoint, api.components)
    IN  <<positive>> \o
        IF positive.execute
        THEN [k \in DOMAIN kinds |-> Case(endpoint.name, kinds[k], endpoint.errors, FALSE)]
        ELSE <<>>

(* generate_test_cases.  The id of a test, API-001 and so on, is its place in
   the sequence. *)
TestCases(api, credentials) ==
    FlattenSeq([i \in DOMAIN api.endpoints |-> EndpointCases(api.endpoints[i], api, credentials)])

-----------------------------------------------------------------------------
(* make_executor, TestEngine.run and the control overrides: the status of a
   test, from the answer of the target: none at all, or a code and whether the
   body fits the schema of the first documented success, which is the one every
   answer is held against. *)
NoAnswer == {}
Answer(code, fits) == {[code |-> code, fits |-> fits]}

TestStatus(case, answer) ==
    IF ~case.execute THEN case.result
    ELSE IF answer = NoAnswer THEN "error"
    ELSE IF \A a \in answer :
              a.code \in case.expect /\ (case.checked => a.fits)
         THEN "passed"
    ELSE "failed"

(* RestAdapter.run with a target.  answers: what the target answers to each
   kind of request to each endpoint. *)
Results(api, credentials, answers) ==
    LET cases == TestCases(api, credentials)
    IN  [i \in DOMAIN cases |-> TestStatus(cases[i], answers[cases[i].endpoint][cases[i].kind])]

(* RunResult.summary, as far as the verdicts look at it. *)
Summary(results) ==
    LET Number(statuses) == Cardinality({i \in DOMAIN results : results[i] \in statuses})
    IN  [attempted |-> Number({"passed", "failed", "error"}), transport |-> Number({"error"}),
         failed |-> Number({"failed"}), breach |-> FALSE]

-----------------------------------------------------------------------------
(* performance.py: the one endpoint a load test is about.  path and method are
   --endpoint and --method, {} when they are not given. *)
Meant(api, path, method) ==
    {i \in DOMAIN api.endpoints : LET name == api.endpoints[i].name IN
        (path = {} \/ name[1] \in path) /\ (method = {} \/ name[2] \in method)}
SelectFirst(api, path, method) ==
    {api.endpoints[i] : i \in {x \in Meant(api, path, method) :
                                  \A y \in Meant(api, path, method) : x <= y}}
(* select_endpoint: never one of several. *)
SelectEndpoint(api, path, method) ==
    IF Cardinality(Meant(api, path, method)) # 1 THEN {}
    ELSE {api.endpoints[i] : i \in Meant(api, path, method)}

(* resolve_performance_target: the operation whose request is sent again and
   again, {} for an OpenApiError.  Without a document, or with one that has no
   operation, --endpoint is taken at its word. *)
PerformanceTarget(files, openapi, path, method) ==
    LET document == Specification(files, openapi)
        Named == {<<p, m>> : p \in path, m \in IF method = {} THEN {"get"} ELSE method}
    IN  IF openapi = {} /\ DOMAIN files = {} THEN Named
        ELSE UNION {IF api.endpoints = <<>> THEN Named
                    ELSE {e.name : e \in {x \in SelectEndpoint(api, path, method) :
                                            HasRequest(x, api.components)}} : api \in document}

-----------------------------------------------------------------------------
(* The reference for Generable: the components there is a finite value of, as
   the least set that is closed under "all its required parts are in it". *)
ConstructibleFrom(schema, components, known) ==
    \/ schema.form \in {"text", "number"}
    \/ schema.form = "array" /\ (schema.minItems = 0 \/ schema.items \in known)
    \/ /\ schema.form = "object"
       /\ \A field \in schema.required : Given(field, schema.properties, known)
    \/ /\ schema.form = "allOf"
       /\ LET parts == {components[p] : p \in ToSet(schema.parts)} IN
          \A field \in UNION {p.required : p \in parts} :
              \E p \in parts : Given(field, p.properties, known)
Closed(known, components) ==
    \A c \in DOMAIN components :
        ConstructibleFrom(components[c], components, known) => c \in known
Constructible(components) ==
    {c \in DOMAIN components :
        \A known \in SUBSET DOMAIN components : Closed(known, components) => c \in known}

(* What an allOf is made of has to be declared in place for the two to agree:
   generate_value looks one level deep into its parts. *)
PlainComposition(components) ==
    \A c \in DOMAIN components : components[c].form = "allOf" =>
        \A p \in ToSet(components[c].parts) :
            /\ p \in DOMAIN components /\ components[p].form = "object"
            /\ \A i \in DOMAIN components[p].properties :
                  LET s == components[p].properties[i].schema IN
                  s \in DOMAIN components => components[s].form \in {"text", "number", "opaque"}
(* The operations of the document that have a name. *)
Operations(document, name) ==
    UNION {{[own |-> path.operations[m], shared |-> path.parameters] :
               m \in {x \in DOMAIN path.operations : name = <<path.name, x>>}} :
              path \in ToSet(document.paths)}
(* What a request leaves out although the operation may require it: a parameter
   behind a reference that leads nowhere (_build_endpoint) and one that is not
   of the path, the query or the headers, a cookie (build_positive_request).
   The request is sent without it and nothing is said of that. *)
Dropped(p) == ~p.resolved \/ p.location \notin {"path", "query", "header"}
(* An operation whose path parameters, required parameters and required bodies
   have a value by its document, as far as a request carries them at all. *)
Described(document, name) ==
    \E o \in Operations(document, name) :
        /\ \A p \in ToSet(o.shared \o o.own.parameters) :
              (p.location = "path" \/ p.required) /\ ~Dropped(p)
                  => p.schema \in Constructible(document.components)
        /\ \A body \in o.own.body : body.required =>
              \E c \in ToSet(body.content) : c.schema \in Constructible(document.components)
(* One for which a credential is there, if it or else its document asks for one. *)
Secured(document, name, credentials) ==
    \E o \in Operations(document, name) :
        LET asked == UNION {ToSet(SecurityNames(s)) : s \in IF o.own.security = {}
                                                            THEN {document.security}
                                                            ELSE o.own.security}
        IN  asked # {} => \E scheme \in asked \cap DOMAIN document.schemes :
                              Opens(document.schemes, scheme) \cap credentials # {}
=============================================================================
