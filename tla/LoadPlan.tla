------------------------------ MODULE LoadPlan -------------------------------
(***************************************************************************)
(* testing/performance/planner.py: from what a user asks for to a load     *)
(* profile that stays under hard ceilings, or to a ConfigurationError.     *)
(* An optional argument is a set: {} when it was not given, a singleton    *)
(* when it was.  A plan is {} for an error, the singleton profile else.    *)
(*                                                                         *)
(* A definition without a comment right before another with the same       *)
(* parameters is a faulty variant of it, used to test the properties.      *)
(***************************************************************************)
EXTENDS Integers, Sequences, SequencesExt

CONSTANTS
    MAX_CONCURRENCY, MAX_REQUESTS_PER_LEVEL, MAX_DURATION_SECONDS_PER_LEVEL, MAX_LEVELS,
    DEFAULT_REQUESTS_PER_LEVEL, DEFAULT_LOAD_CONCURRENCY,
    DEFAULT_STRESS_MAX_CONCURRENCY, DEFAULT_STRESS_STEPS,
    DEFAULT_STRESS_STOP_ERROR_RATE_PERCENT

ASSUME CeilingsAssumption ==
    /\ MAX_CONCURRENCY \in Nat \ {0}
    /\ MAX_REQUESTS_PER_LEVEL \in Nat \ {0}
    /\ MAX_DURATION_SECONDS_PER_LEVEL \in Nat \ {0}
    /\ MAX_LEVELS \in Nat \ {0}
    /\ DEFAULT_REQUESTS_PER_LEVEL \in 1..MAX_REQUESTS_PER_LEVEL
    /\ DEFAULT_LOAD_CONCURRENCY \in Seq(Nat)
    /\ DEFAULT_STRESS_STEPS \in Seq(Nat)
    /\ DEFAULT_STRESS_MAX_CONCURRENCY \in 1..MAX_CONCURRENCY

ProfileType == {"baseline", "load", "stress", "custom"}

(* requests given and a duration too: the requests win. *)
ValidAmounts(p) ==
    IF p.requests # {} THEN p.requests \subseteq 1..MAX_REQUESTS_PER_LEVEL
    ELSE p.duration \subseteq 1..MAX_DURATION_SECONDS_PER_LEVEL

RequestsPerLevel(p) ==
    IF p.requests = {} /\ p.duration = {} THEN {DEFAULT_REQUESTS_PER_LEVEL} ELSE p.requests
DurationPerLevel(p) == IF p.requests = {} THEN p.duration ELSE {}

(* None and an empty list are both falsy. *)
Given(concurrency) == concurrency \notin {{}, {<<>>}}
ListOf(concurrency) == CHOOSE l \in concurrency : TRUE

StressCap(p) ==
    IF p.max_concurrency \in {{}, {0}} THEN DEFAULT_STRESS_MAX_CONCURRENCY
    ELSE CHOOSE c \in p.max_concurrency : TRUE

StressLevels(p) ==
    LET cap == StressCap(p)
        steps == SelectSeq(DEFAULT_STRESS_STEPS, LAMBDA s : s <= cap)
    IN  IF Given(p.concurrency) THEN SetToSortSeq(ToSet(ListOf(p.concurrency)), <)
        ELSE IF steps # <<>> THEN steps
        ELSE <<cap>>

ConcurrencyLevels(p) ==
    CASE p.profile_type = "baseline" -> <<1>>
      [] p.profile_type = "load" ->
            IF Given(p.concurrency) THEN ListOf(p.concurrency) ELSE DEFAULT_LOAD_CONCURRENCY
      [] p.profile_type = "stress" -> StressLevels(p)
      [] p.profile_type = "custom" -> IF Given(p.concurrency) THEN ListOf(p.concurrency) ELSE <<>>

UncountedLevels(levels) ==
    /\ levels \in Seq(1..MAX_CONCURRENCY)
    /\ levels # <<>>
ValidLevels(levels) ==
    /\ levels \in Seq(1..MAX_CONCURRENCY)
    /\ Len(levels) \in 1..MAX_LEVELS

StopErrorRate(p) ==
    IF p.profile_type = "stress" /\ p.stop_on_error_rate_percent = {} /\ p.stop_on_p95_ms = {}
    THEN {DEFAULT_STRESS_STOP_ERROR_RATE_PERCENT}
    ELSE p.stop_on_error_rate_percent

(* build_load_profile; the first violated rule raises, whichever it is. *)
BuildLoadProfile(p) ==
    IF /\ ValidAmounts(p)
       /\ p.profile_type = "stress" => StressCap(p) <= MAX_CONCURRENCY
       /\ ValidLevels(ConcurrencyLevels(p))
    THEN {[profile_type |-> p.profile_type,
           levels |-> ConcurrencyLevels(p),
           requests |-> RequestsPerLevel(p),
           duration |-> DurationPerLevel(p),
           stop_on_error_rate_percent |-> StopErrorRate(p),
           stop_on_p95_ms |-> p.stop_on_p95_ms]}
    ELSE {}
=============================================================================
