---------------------------- MODULE Configuration ----------------------------
(***************************************************************************)
(* core/configuration/config.py: universal-test.yaml becomes a             *)
(* configuration, or an error.  Pure operators, no state.                  *)
(*                                                                         *)
(* YAML values of different types are records of different shapes.  Text   *)
(* stands for any text that reads as no number.  Only the sections whose   *)
(* values the command line acts on are modelled: ci, quality_gate, browser *)
(* and regression; the others go through the same merge.                   *)
(*                                                                         *)
(* A definition without a comment right before another with the same       *)
(* parameters is a faulty variant of it, used to test the properties.      *)
(***************************************************************************)
EXTENDS Verdicts, FiniteSetsExt

Null == [null |-> TRUE]
Text == [text |-> TRUE]
NotFinite == [nan |-> TRUE]
Number(n) == [number |-> n]
List(words) == [list |-> words]
Mapping(fields) == [mapping |-> fields]
Is(form, value) == form \in DOMAIN value

(* What there may be instead of a document: no file in the project, or a
   --config that names none; one that is no YAML has the same effect. *)
NoFile == [absent |-> TRUE]
MissingFile == [missing |-> TRUE]

MAX_CI_RETRY_COUNT == 2
MAX_BROWSER_TIMEOUT_SECONDS == 120
MAX_BROWSER_TEST_TIMEOUT_SECONDS == MAX_BROWSER_TIMEOUT_SECONDS * 5
MIN_BROWSER_TIMEOUT_SECONDS == 1

Clamp(low, n, high) == Max({low, Min({n, high})})

SanitizeTimeout(value, default, cap) ==
    IF Is("number", value) THEN Clamp(MIN_BROWSER_TIMEOUT_SECONDS, value.number, cap)
    ELSE default

(* A category is a rule of its own: the mapping of signal pairs in Verdicts
   is the union of what each category lists. *)
AsMapping(signals) ==
    Mapping([c \in {s[1] : s \in signals} |-> List({s[2] : s \in {x \in signals : x[1] = c}})])
AsSignals(policy) ==
    UNION {{<<c, word>> : word \in policy.mapping[c].list} : c \in DOMAIN policy.mapping}

Defaults ==
    [ci           |-> [retry |-> Mapping([count |-> Number(0)])],
     quality_gate |-> [fail_on |-> AsMapping(DefaultPolicy.fail_on),
                       warn_on |-> AsMapping(DefaultPolicy.warn_on)],
     browser      |-> [navigation_timeout_seconds |-> Number(15),
                       action_timeout_seconds     |-> Number(10),
                       test_timeout_seconds       |-> Number(60)],
     regression   |-> [performance |-> Mapping(
                         [m \in {"p50_percent", "p90_percent", "p95_percent", "p99_percent",
                                 "rps_percent", "error_rate_absolute"} |->
                             Number(IF m = "error_rate_absolute" THEN 1 ELSE 10)])]]

(* The fields of data before those of default. *)
Merge(data, default) ==
    [key \in DOMAIN data \cup DOMAIN default |->
        IF key \in DOMAIN data THEN data[key] ELSE default[key]]

ReplaceField(section, data) ==
    [key \in DOMAIN Defaults[section] |->
        IF key \in DOMAIN data THEN data[key] ELSE Defaults[section][key]]
(* A mapping is merged over its default, except retry, whose default is no
   mapping but an object; any other value replaces the default; keys nobody
   knows are ignored. *)
BuildSection(section, data) ==
    [key \in DOMAIN Defaults[section] |->
        LET default == Defaults[section][key] IN
        IF key \notin DOMAIN data THEN default
        ELSE IF Is("mapping", default) /\ Is("mapping", data[key]) /\ key # "retry"
             THEN Mapping(Merge(data[key].mapping, default.mapping))
        ELSE data[key]]

(* CiConfig: anything int() refuses, or a retry that is no mapping, raises
   something load_config does not catch. *)
RetryCount(ci) ==
    IF Is("mapping", ci.retry) /\ "count" \in DOMAIN ci.retry.mapping
    THEN ci.retry.mapping["count"]
    ELSE Number(0)
RetryUsable(ci) == Is("mapping", ci.retry) /\ Is("number", RetryCount(ci))

ValidPolicy(policy) ==
    Is("mapping", policy)
        /\ \A c \in DOMAIN policy.mapping : Is("list", policy.mapping[c])

(* An absent section, an empty one and an empty document are the defaults. *)
Sections(document) ==
    IF Is("mapping", document)
    THEN {s \in DOMAIN document.mapping \cap DOMAIN Defaults : ~Is("null", document.mapping[s])}
    ELSE {}
Build(document) ==
    [s \in DOMAIN Defaults |->
        IF s \in Sections(document) THEN BuildSection(s, document.mapping[s].mapping)
        ELSE Defaults[s]]

Unreadable(file) ==
    \/ Is("missing", file)
    \/ ~Is("absent", file) /\ ~Is("null", file) /\ ~Is("mapping", file)
    \/ \E s \in Sections(file) : ~Is("mapping", file.mapping[s])
(* Only an error of the kind the callers expect. *)
IsConfigurationError(file) ==
    \/ Unreadable(file)
    \/ LET built == Build(file) IN
       /\ RetryUsable(built.ci)
       /\ ~(ValidPolicy(built.quality_gate.fail_on) /\ ValidPolicy(built.quality_gate.warn_on))
(* Something else is raised. *)
Crashes(file) == ~Unreadable(file) /\ ~RetryUsable(Build(file).ci)

(* load_config, when it returns. *)
LoadConfig(file) ==
    LET built == Build(file)
        browser == built.browser
    IN  [retries |-> Clamp(0, RetryCount(built.ci).number, MAX_CI_RETRY_COUNT),
         policy |-> [fail_on |-> AsSignals(built.quality_gate.fail_on),
                     warn_on |-> AsSignals(built.quality_gate.warn_on)],
         timeouts |->
            [navigation |-> SanitizeTimeout(browser.navigation_timeout_seconds, 15,
                                            MAX_BROWSER_TIMEOUT_SECONDS),
             action |-> SanitizeTimeout(browser.action_timeout_seconds, 10,
                                        MAX_BROWSER_TIMEOUT_SECONDS),
             test |-> SanitizeTimeout(browser.test_timeout_seconds, 60,
                                      MAX_BROWSER_TEST_TIMEOUT_SECONDS)],
         tolerances |-> built.regression.performance]

(* The document itself says what the gate makes of a category. *)
Mentions(file, category) ==
    /\ Is("mapping", file) /\ "quality_gate" \in Sections(file)
    /\ \E rule \in {"fail_on", "warn_on"} \cap DOMAIN file.mapping["quality_gate"].mapping :
          category \in DOMAIN file.mapping["quality_gate"].mapping[rule].mapping
=============================================================================
