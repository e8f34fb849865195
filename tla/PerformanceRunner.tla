-------------------------- MODULE PerformanceRunner --------------------------
(***************************************************************************)
(* testing/performance/runner.py: PerformanceRunner.run.  The levels of a  *)
(* load profile run one after the other; each is a thread pool of its      *)
(* concurrency, which works off a fixed number of tasks or loops until a   *)
(* deadline.  Another thread may set the cancellation event at any time;   *)
(* the run timeout may pass at any time but is looked at between levels.   *)
(*                                                                         *)
(* Pool threads are interchangeable, so they are counted: those at the     *)
(* head of their loop, those that have looked at the cancellation event    *)
(* and are about to send, those waiting for an answer.                     *)
(*                                                                         *)
(* A definition without a comment right before another with the same       *)
(* parameters is a faulty variant of it, used to test the properties.      *)
(***************************************************************************)
EXTENDS LoadPlan, FiniteSets

CONSTANTS
    Arguments,          \* what users ask for, records of optional arguments
    MaxAnswers          \* bound: requests of a level that runs by duration

ASSUME MaxAnswersAssumption == MaxAnswers \in Nat

VARIABLES
    profile,            \* the LoadProfile being run
    stage,              \* "between" levels, in a "level", or "ended"
    queued,             \* tasks no pool thread has taken, in a fixed count
    looping,            \* threads at the head of their loop, in a duration
    checked,            \* threads past the cancellation check
    inFlight,           \* threads inside the executor
    sample,             \* answers of this level: how many, failed, slow
    levels,             \* result.levels: size and stop verdict of each
    sent,               \* requests sent in the whole run
    expired,            \* the level's deadline has passed
    timedOut,           \* the run timeout has passed
    cancelled,          \* cancellation_event is set
    late,               \* requests sent since then
    stopReason          \* result.stop_reason; stopped_early is its presence

runnerVars == <<profile, stage, queued, looping, checked, inFlight, sample, levels, sent,
                expired, timedOut, cancelled, late, stopReason>>

NoSample == [total |-> 0, failed |-> 0, slow |-> 0]
Fixed == profile.requests # {}
Count == CHOOSE n \in profile.requests : TRUE
Index == Len(levels) + 1
(* The level that is running, or would run next. *)
Concurrency == profile.levels[Index]

Init ==
    /\ \E p \in Arguments : profile \in BuildLoadProfile(p)
    /\ stage = "between"
    /\ queued = 0 /\ looping = 0 /\ checked = 0 /\ inFlight = 0
    /\ sample = NoSample
    /\ levels = <<>>
    /\ sent = 0 /\ late = 0
    /\ expired = FALSE /\ timedOut = FALSE /\ cancelled = FALSE
    /\ stopReason = "none"

-----------------------------------------------------------------------------
(* The thread that runs run(). *)

StopBefore(why) ==
    /\ stage' = "ended"
    /\ stopReason' = why
    /\ UNCHANGED <<profile, queued, looping, checked, inFlight, sample, levels, sent,
                   expired, timedOut, cancelled, late>>

StopCancelled ==
    /\ stage = "between" /\ Index <= Len(profile.levels)
    /\ cancelled
    /\ StopBefore("cancelled")

StopTimedOut ==
    /\ stage = "between" /\ Index <= Len(profile.levels)
    /\ ~cancelled /\ timedOut
    /\ StopBefore("run timeout")

(* _run_level submits everything to a pool of max(1, concurrency) threads. *)
StartLevel ==
    /\ stage = "between" /\ Index <= Len(profile.levels)
    /\ ~cancelled /\ ~timedOut
    /\ stage' = "level"
    /\ queued' = IF Fixed THEN Count ELSE 0
    /\ looping' = IF Fixed THEN 0 ELSE Concurrency
    /\ expired' = FALSE
    /\ UNCHANGED <<profile, checked, inFlight, sample, levels, sent, timedOut, cancelled,
                   late, stopReason>>

(* Nearest rank: is the 95th percentile of the level's answers a slow one? *)
P95IsSlow(s) ==
    LET rank == (95 * s.total + 99) \div 100 IN s.total > 0 /\ rank > s.total - s.slow

(* _stress_stop_reason, on answers s. *)
MustStop(s) ==
    \/ \E limit \in profile.stop_on_error_rate_percent : 100 * s.failed > limit * s.total
    \/ profile.stop_on_p95_ms # {} /\ P95IsSlow(s)

Idle == queued = 0 /\ looping = 0 /\ checked = 0 /\ inFlight = 0

EndLevelWithoutBreak ==
    /\ stage = "level" /\ Idle
    /\ levels' = Append(levels, [total |-> sample.total, stop |-> MustStop(sample)])
    /\ stage' = "between"
    /\ stopReason' = IF profile.profile_type = "stress" /\ MustStop(sample) THEN "stress"
                     ELSE stopReason
    /\ sample' = NoSample
    /\ UNCHANGED <<profile, queued, looping, checked, inFlight, sent, expired, timedOut,
                   cancelled, late>>
(* Every future has its result: aggregate, append the level, look at the
   stress conditions; the loop of run() goes on or ends. *)
EndLevel ==
    /\ stage = "level" /\ Idle
    /\ levels' = Append(levels, [total |-> sample.total, stop |-> MustStop(sample)])
    /\ IF profile.profile_type = "stress" /\ MustStop(sample)
       THEN stage' = "ended" /\ stopReason' = "stress"
       ELSE stage' = "between" /\ UNCHANGED stopReason
    /\ sample' = NoSample
    /\ UNCHANGED <<profile, queued, looping, checked, inFlight, sent, expired, timedOut,
                   cancelled, late>>

Finish ==
    /\ stage = "between" /\ Index > Len(profile.levels)
    /\ stage' = "ended"
    /\ UNCHANGED <<profile, queued, looping, checked, inFlight, sample, levels, sent,
                   expired, timedOut, cancelled, late, stopReason>>

-----------------------------------------------------------------------------
(* The pool threads. *)

TakeUnbounded ==
    /\ stage = "level" /\ queued > 0
    /\ queued' = queued - 1
    /\ checked' = IF cancelled THEN checked ELSE checked + 1
    /\ UNCHANGED <<profile, stage, looping, inFlight, sample, levels, sent, expired,
                   timedOut, cancelled, late, stopReason>>
TakeUnchecked ==
    /\ stage = "level" /\ queued > 0 /\ checked + inFlight < Concurrency
    /\ queued' = queued - 1
    /\ checked' = checked + 1
    /\ UNCHANGED <<profile, stage, looping, inFlight, sample, levels, sent, expired,
                   timedOut, cancelled, late, stopReason>>
(* _task: a task taken after cancellation returns None. *)
Take ==
    /\ stage = "level" /\ queued > 0 /\ checked + inFlight < Concurrency
    /\ queued' = queued - 1
    /\ checked' = IF cancelled THEN checked ELSE checked + 1
    /\ UNCHANGED <<profile, stage, looping, inFlight, sample, levels, sent, expired,
                   timedOut, cancelled, late, stopReason>>

(* _worker_loop: go round again, unless the deadline or the event says no. *)
GoRound ==
    /\ stage = "level" /\ looping > 0
    /\ ~expired /\ ~cancelled
    /\ sample.total + checked + inFlight < MaxAnswers
    /\ looping' = looping - 1
    /\ checked' = checked + 1
    /\ UNCHANGED <<profile, stage, queued, inFlight, sample, levels, sent, expired,
                   timedOut, cancelled, late, stopReason>>

LeaveLoopOnCancel ==
    /\ stage = "level" /\ looping > 0
    /\ cancelled
    /\ looping' = looping - 1
    /\ UNCHANGED <<profile, stage, queued, checked, inFlight, sample, levels, sent,
                   expired, timedOut, cancelled, late, stopReason>>
LeaveLoop ==
    /\ stage = "level" /\ looping > 0
    /\ expired \/ cancelled
    /\ looping' = looping - 1
    /\ UNCHANGED <<profile, stage, queued, checked, inFlight, sample, levels, sent,
                   expired, timedOut, cancelled, late, stopReason>>

Send ==
    /\ checked > 0
    /\ checked' = checked - 1
    /\ inFlight' = inFlight + 1
    /\ sent' = sent + 1
    /\ late' = IF cancelled THEN late + 1 ELSE late
    /\ UNCHANGED <<profile, stage, queued, looping, sample, levels, expired, timedOut,
                   cancelled, stopReason>>

LoseTimedOutSample ==
    /\ inFlight > 0
    /\ inFlight' = inFlight - 1
    /\ looping' = IF Fixed THEN looping ELSE looping + 1
    /\ \E failed, slow \in 0..1 :
          sample' = IF failed + slow = 2 THEN sample
                    ELSE [total |-> sample.total + 1, failed |-> sample.failed + failed,
                          slow |-> sample.slow + slow]
    /\ UNCHANGED <<profile, stage, queued, checked, levels, sent, expired, timedOut,
                   cancelled, late, stopReason>>
(* The executor never raises: an answer, an error status and a transport
   failure are all samples. *)
Answer ==
    /\ inFlight > 0
    /\ inFlight' = inFlight - 1
    /\ looping' = IF Fixed THEN looping ELSE looping + 1
    /\ \E failed, slow \in 0..1 :
          sample' = [total |-> sample.total + 1, failed |-> sample.failed + failed,
                     slow |-> sample.slow + slow]
    /\ UNCHANGED <<profile, stage, queued, checked, levels, sent, expired, timedOut,
                   cancelled, late, stopReason>>

-----------------------------------------------------------------------------
(* Time and the thread that cancels. *)

Expire ==
    /\ stage = "level" /\ ~Fixed /\ ~expired
    /\ expired' = TRUE
    /\ UNCHANGED <<profile, stage, queued, looping, checked, inFlight, sample, levels, sent,
                   timedOut, cancelled, late, stopReason>>

TimeOut ==
    /\ stage # "ended" /\ ~timedOut
    /\ timedOut' = TRUE
    /\ UNCHANGED <<profile, stage, queued, looping, checked, inFlight, sample, levels, sent,
                   expired, cancelled, late, stopReason>>

Cancel ==
    /\ stage # "ended" /\ ~cancelled
    /\ cancelled' = TRUE
    /\ UNCHANGED <<profile, stage, queued, looping, checked, inFlight, sample, levels, sent,
                   expired, timedOut, late, stopReason>>

RunThread == StopCancelled \/ StopTimedOut \/ StartLevel \/ EndLevel \/ Finish
PoolThread == Take \/ GoRound \/ LeaveLoop \/ Send \/ Answer

Next == RunThread \/ PoolThread \/ Expire \/ TimeOut \/ Cancel

(* Threads are scheduled, requests have a timeout, and deadlines pass. *)
Spec ==
    /\ Init /\ [][Next]_runnerVars
    /\ WF_runnerVars(RunThread) /\ WF_runnerVars(PoolThread) /\ WF_runnerVars(Expire)

-----------------------------------------------------------------------------
(* Whatever was asked for, a run that was accepted never has more requests in
   flight than its level allows, nor than the ceiling (planner.py, "Every
   numeric knob has a hard ceiling"). *)
BoundedConcurrency ==
    checked + inFlight > 0 =>
        checked + inFlight <= Concurrency /\ Concurrency <= MAX_CONCURRENCY

(* The user confirmed an estimate, requests times levels; no interleaving of
   the pool sends more, and no accepted argument makes the estimate exceed
   what the ceilings allow. *)
WithinEstimate ==
    Fixed => /\ sent <= Count * Len(profile.levels)
             /\ Count * Len(profile.levels) <= MAX_REQUESTS_PER_LEVEL * MAX_LEVELS

(* Every request sent is counted in exactly one level, also when it failed,
   was slow, or came back after the cancellation or the deadline: the running
   totals of the levels, and what the current one has so far, add up to sent. *)
EveryRequestCounted ==
    \E upTo \in [0..Len(levels) -> 0..sent] :
        /\ upTo[0] = 0
        /\ \A i \in DOMAIN levels : upTo[i] = upTo[i - 1] + levels[i].total
        /\ sent = upTo[Len(levels)] + sample.total + inFlight

(* Cancellation is prompt: a thread that had already looked at the event may
   still send one request, so no more requests follow the cancellation than the
   level it hit has threads. *)
CancellationIsPrompt ==
    late > 0 =>
        late + checked <= profile.levels[IF stage = "level" THEN Index ELSE Len(levels)]

(* A stress run never goes on past a level that met a stop condition, and
   every run that left levels out says why. *)
StressStops ==
    /\ profile.profile_type = "stress" =>
          \A i \in DOMAIN levels : levels[i].stop => i = Len(levels) /\ stage = "ended"
    /\ stage = "ended" /\ Len(levels) < Len(profile.levels) => stopReason # "none"

(* Every run ends, a stress run and a run by duration included. *)
RunEnds == <>(stage = "ended")
=============================================================================
