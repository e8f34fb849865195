------------------------------ MODULE Discovery ------------------------------
(***************************************************************************)
(* discovery/: what a scan says of a project.  Pure operators, no state.   *)
(*                                                                         *)
(* A ProjectModel is a record of sets of detections, each with a name and  *)
(* whether it is sure (detected) or weak (inferred), of the type of the    *)
(* frontend, {} without one, and of whether there are directories of tests *)
(* and matches of secret patterns.  What the detectors match is not looked *)
(* into; which of them there are, in which order they run and what becomes *)
(* of one that raises is.                                                  *)
(***************************************************************************)
EXTENDS Integers, FiniteSets

Detected(name) == [name |-> name, sure |-> TRUE]
Inferred(name) == [name |-> name, sure |-> FALSE]
EmptyModel ==
    [languages |-> {}, project_types |-> {}, build_systems |-> {}, frameworks |-> {},
     databases |-> {}, apis |-> {}, test_frameworks |-> {}, infrastructure |-> {},
     frontend |-> {}, test_directories |-> FALSE, secrets |-> FALSE]

Names(detections) == {d.name : d \in detections}
Sure(detections) == {d \in detections : d.sure}

(* detect_apis, of the files with a name that hints at OpenAPI. *)
DetectApis(files) ==
    {[name |-> "openapi", sure |-> \E g \in DOMAIN files : files[g].marked] : f \in DOMAIN files}

(* detect_static_web: the type of a website made of plain pages, and how sure it
   is.  directories maps each directory with pages to how many there are,
   whether one is an index, whether there are style sheets or scripts in it or
   below, and whether its name suggests generated pages or templates. *)
DetectStaticWeb(directories) ==
    LET entries == {d \in DOMAIN directories : directories[d].index}
        Supported(d) == directories[d].assets /\ ~directories[d].suspicious
        several == Cardinality(DOMAIN directories) > 1
                     \/ \E d \in DOMAIN directories : directories[d].pages > 1
    IN  IF "root" \in entries \/ Cardinality(entries) > 1 THEN {Detected("static_web")}
        ELSE IF entries # {} THEN
            {IF directories[d].assets \/ directories[d].pages > 1
             THEN Detected("static_web") ELSE Inferred("unknown_web") :
                d \in {x \in entries : ~directories[x].suspicious}}
        ELSE {Inferred("static_web") : d \in {x \in DOMAIN directories : several /\ Supported(x)}}

(* detect_project_types: what manifests say, and a frontend, by its manifest or
   else by its pages. *)
DetectProjectTypes(manifests, frontend, directories) ==
    LET web == IF frontend THEN {Detected("frontend")}
               ELSE {[name |-> "frontend", sure |-> w.sure] : w \in DetectStaticWeb(directories)}
    IN  IF manifests \cup web # {} THEN manifests \cup web ELSE {Inferred("generic")}

FRONTEND_FRAMEWORK_NAMES ==
    {"React", "Next.js", "Vue", "Nuxt", "Angular", "Svelte", "SvelteKit", "Solid", "Astro"}
BACKEND_WEB_FRAMEWORK_NAMES ==
    {"FastAPI", "Django", "Flask", "Express", "ASP.NET Core", "Spring Boot", "Laravel", "Node.js"}

(* detect_frontend: a framework, which an earlier detector has seen, says more
   than pages, and pages more than a manifest. *)
DetectFrontend(frontend, directories, frameworks) ==
    LET backend == frameworks \cap BACKEND_WEB_FRAMEWORK_NAMES # {}
        pages == Names(DetectStaticWeb(directories))
    IN  IF frameworks \cap FRONTEND_FRAMEWORK_NAMES # {}
        THEN {IF backend THEN "full_stack_web" ELSE "framework_web"}
        ELSE IF pages # {} THEN {IF backend THEN "full_stack_web" ELSE type : type \in pages}
        ELSE {type \in {"unknown_web"} : frontend}

(* discover.  found is what the detectors would find, and under manifests,
   frontend and directories what some of them look at; raising are those that
   raise.  Their part stays as it was, and the scan goes on. *)
Discover(found, raising) ==
    LET Step(part, result) == IF part \in raising THEN EmptyModel[part] ELSE result
        frameworks == Step("frameworks", found.frameworks)
    IN  [part \in DOMAIN EmptyModel |->
            CASE part = "test_directories" -> found.test_directories
              [] part = "project_types" ->
                    Step(part, DetectProjectTypes(found.manifests, found.frontend, found.directories))
              [] part = "frontend" ->
                    Step(part, DetectFrontend(found.frontend, found.directories, Names(frameworks)))
              [] OTHER -> Step(part, found[part])]
=============================================================================
