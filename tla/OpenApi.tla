------------------------------- MODULE OpenApi -------------------------------
(***************************************************************************)
(* adapters/rest/discovery_bridge.py and normalizer.py: which file of a    *)
(* project is its OpenAPI document, and what the document says.  Pure      *)
(* operators, no state.                                                    *)
(*                                                                         *)
(* A file with a name that hints at OpenAPI is a record: marked, whether   *)
(* its text does too, version, "3" for OpenAPI 3.x, and what there is to   *)
(* normalise.  components maps schema names to schemas, schemes names to   *)
(* types of security schemes, and paths is a sequence in document order.   *)
(* Every nested schema is a component that is referred to by name; a name  *)
(* without a component is a reference that cannot be resolved.             *)
(*                                                                         *)
(* A definition without a comment right before another with the same       *)
(* parameters is a faulty variant of it, used to test the properties.      *)
(***************************************************************************)
EXTENDS Integers, Sequences, SequencesExt, FiniteSets

(* find_openapi_candidates: names count only where no text does. *)
Candidates(files) ==
    LET confirmed == {f \in DOMAIN files : files[f].marked} IN
    IF confirmed # {} THEN confirmed ELSE DOMAIN files

(* select_specification: the file --openapi names, or the only candidate; never
   one of several.  {} is an OpenApiError. *)
SelectSpecification(files, openapi) ==
    IF openapi # {} THEN openapi \cap DOMAIN files
    ELSE IF Cardinality(Candidates(files)) = 1 THEN Candidates(files)
    ELSE {}

-----------------------------------------------------------------------------
(* A security field is a sequence of requirements, each a sequence of names of
   schemes; all of them are put together. *)
SecurityNames(requirements) == FlattenSeq(requirements)

(* _pick_content: JSON if there is any, else what comes first.  content is a
   sequence of records of whether it is JSON, and of its schema. *)
PickContent(content) ==
    LET json == {i \in DOMAIN content : content[i].json}
        preferred == IF json = {} THEN DOMAIN content ELSE json
    IN  {content[i] : i \in {x \in preferred : \A y \in preferred : x <= y}}

(* _build_parameter.  A reference to a parameter that cannot be resolved has no
   name and is passed over.  The order of parameters does not matter. *)
BuildParameters(parameters) ==
    {[location |-> p.location, schema |-> p.schema,
      required |-> p.required \/ p.location = "path"] : p \in {x \in ToSet(parameters) : x.resolved}}

BuildRequestBody(body) ==
    [required |-> body.required,
     json     |-> \E c \in PickContent(body.content) : c.json,
     schema   |-> {c.schema : c \in PickContent(body.content)}]

(* A response code is a number, 0 for "default", 4 and 5 for "4XX" and "5XX".
   success_responses and error_responses, those with a number. *)
Success(responses) == {c \in DOMAIN responses : c \in 200..299}
Errors(responses) == {c \in DOMAIN responses : c \in 400..599}
(* Whether the first success documents a schema in JSON.  A schema that cannot
   be resolved is a marker every body fits. *)
FirstIsChecked(responses, components) ==
    \E first \in Success(responses) :
        /\ \A c \in Success(responses) : first <= c
        /\ \E c \in PickContent(responses[first]) : c.json /\ c.schema \in DOMAIN components

BuildLocallySecured(path, method, document) ==
    LET operation == path.operations[method] IN
    [name       |-> <<path.name, method>>,
     parameters |-> BuildParameters(path.parameters \o operation.parameters),
     body       |-> {BuildRequestBody(b) : b \in operation.body},
     success    |-> Success(operation.responses),
     errors     |-> Errors(operation.responses),
     checked    |-> FirstIsChecked(operation.responses, document.components),
     security   |-> FlattenSeq(SetToSeq({SecurityNames(s) : s \in operation.security}))]
(* _build_endpoint.  The operation's own security replaces the document's. *)
BuildEndpoint(path, method, document) ==
    LET operation == path.operations[method]
        security == IF operation.security # {} THEN operation.security ELSE {document.security}
    IN  [name       |-> <<path.name, method>>,
         parameters |-> BuildParameters(path.parameters \o operation.parameters),
         body       |-> {BuildRequestBody(b) : b \in operation.body},
         success    |-> Success(operation.responses),
         errors     |-> Errors(operation.responses),
         checked    |-> FirstIsChecked(operation.responses, document.components),
         security   |-> SecurityNames(CHOOSE s \in security : TRUE)]

HttpMethod == <<"get", "post", "put", "patch", "delete", "head", "options">>

(* The operations of a path, in the order of HttpMethod.  One that cannot be
   normalised is left out, with a warning. *)
Endpoints(path, document) ==
    FlattenSeq([i \in DOMAIN HttpMethod |->
        LET method == HttpMethod[i] IN
        IF method \in DOMAIN path.operations /\ ~path.operations[method].malformed
        THEN <<BuildEndpoint(path, method, document)>> ELSE <<>>])

(* parse_specification: {} is an OpenApiError. *)
ParseSpecification(document) ==
    IF document.version # "3" THEN {}
    ELSE {[components |-> document.components, schemes |-> document.schemes,
           endpoints |-> FlattenSeq([i \in DOMAIN document.paths |->
                                         Endpoints(document.paths[i], document)])]}

Specification(files, openapi) ==
    UNION {ParseSpecification(files[f]) : f \in SelectSpecification(files, openapi)}
=============================================================================
