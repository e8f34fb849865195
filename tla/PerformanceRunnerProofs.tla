------------------------ MODULE PerformanceRunnerProofs ------------------------
(***************************************************************************)
(* Theorems about PerformanceRunner, for all arguments of users, all       *)
(* ceilings and defaults, and every interleaving of the pool threads.      *)
(***************************************************************************)
EXTENDS PerformanceRunner, TLAPS

LevelResult == [total : Nat, stop : BOOLEAN]

(* An accepted profile is below the ceilings. *)
ProfileOK ==
    /\ profile.levels \in Seq(1..MAX_CONCURRENCY)
    /\ Len(profile.levels) \in 1..MAX_LEVELS
    /\ profile.requests \subseteq 1..MAX_REQUESTS_PER_LEVEL

(* Which level the run is at, and that the pool is empty between levels. *)
PoolOK ==
    /\ stage \in {"between", "level", "ended"}
    /\ levels \in Seq(LevelResult)
    /\ Len(levels) <= Len(profile.levels)
    /\ stage = "level" => Index <= Len(profile.levels)
    /\ queued \in Nat /\ looping \in Nat /\ checked \in Nat /\ inFlight \in Nat
    /\ stage # "level" => queued = 0 /\ looping = 0 /\ checked = 0 /\ inFlight = 0
    /\ sample.total \in Nat

(* A thread is in one place at a time. *)
ThreadsBounded ==
    stage = "level" => /\ looping + checked + inFlight <= Concurrency
                       /\ Fixed => looping = 0
                       /\ ~Fixed => queued = 0

(* Tasks that are not sent yet count as well. *)
TasksBounded ==
    /\ sent \in Nat
    /\ Fixed => IF stage = "level" THEN sent + queued + checked <= Count * Index
                ELSE sent <= Count * Len(levels)

(* Who has looked at the event before it was set may still send. *)
LateBounded ==
    /\ late \in Nat
    /\ cancelled \in BOOLEAN
    /\ ~cancelled => late = 0
    /\ cancelled /\ stage = "level" => late + checked <= Concurrency
    /\ late > 0 /\ stage # "level" => Len(levels) > 0 /\ late <= profile.levels[Len(levels)]

(* A level that met a stop condition is the last one. *)
StopsOK ==
    /\ profile.profile_type = "stress" /\ stage # "ended" =>
          \A i \in DOMAIN levels : ~levels[i].stop
    /\ StressStops

IInv == ProfileOK /\ PoolOK /\ ThreadsBounded /\ TasksBounded /\ LateBounded /\ StopsOK

-----------------------------------------------------------------------------
(* build_load_profile lets nothing through that exceeds a ceiling. *)
LEMMA PlanBelowCeilings ==
    ASSUME NEW p, NEW plan \in BuildLoadProfile(p), CeilingsAssumption
    PROVE /\ plan.levels \in Seq(1..MAX_CONCURRENCY)
          /\ Len(plan.levels) \in 1..MAX_LEVELS
          /\ plan.requests \subseteq 1..MAX_REQUESTS_PER_LEVEL
<1>1. ValidAmounts(p) /\ ValidLevels(ConcurrencyLevels(p))
  BY DEF BuildLoadProfile
<1>2. plan.levels = ConcurrencyLevels(p) /\ plan.requests = RequestsPerLevel(p)
  BY DEF BuildLoadProfile
<1>3. RequestsPerLevel(p) \subseteq 1..MAX_REQUESTS_PER_LEVEL
  BY <1>1 DEF RequestsPerLevel, ValidAmounts, CeilingsAssumption
<1> QED
  BY <1>1, <1>2, <1>3 DEF ValidLevels

(* The amounts of a profile are numbers below the ceilings. *)
LEMMA Amounts ==
    ASSUME ProfileOK
    PROVE /\ Fixed => Count \in 1..MAX_REQUESTS_PER_LEVEL
          /\ \A i \in 1..Len(profile.levels) : profile.levels[i] \in 1..MAX_CONCURRENCY
          /\ 1..MAX_REQUESTS_PER_LEVEL \subseteq Nat /\ 1..MAX_CONCURRENCY \subseteq Nat
<1>1. ASSUME Fixed PROVE Count \in profile.requests
  BY <1>1 DEF Fixed, Count
<1>2. \A S : \A s \in Seq(S) : \A i \in 1..Len(s) : s[i] \in S
  OBVIOUS
<1>3. \A i \in 1..Len(profile.levels) : profile.levels[i] \in 1..MAX_CONCURRENCY
  BY <1>2, Zenon DEF ProfileOK
<1> QED
  BY <1>1, <1>3, CeilingsAssumption DEF ProfileOK, CeilingsAssumption

LEMMA RunnerInit == Init => IInv
<1> SUFFICES ASSUME Init PROVE IInv
  OBVIOUS
<1>1. ProfileOK
  BY PlanBelowCeilings, CeilingsAssumption DEF Init, ProfileOK
<1>2. levels = <<>> /\ stage = "between" /\ sent = 0 /\ late = 0 /\ ~cancelled
  BY DEF Init
<1>3. PoolOK
  <2>1. levels \in Seq(LevelResult) /\ Len(levels) = 0 /\ sample.total = 0
    BY <1>2 DEF Init, NoSample
  <2>2. Len(levels) <= Len(profile.levels)
    BY <1>1, <2>1 DEF ProfileOK
  <2> QED
    BY <2>1, <2>2 DEF Init, PoolOK
<1>4. TasksBounded
  <2>1. Fixed => Count \in Nat
    BY <1>1, Amounts
  <2>2. Fixed => Count * 0 = 0
    BY <2>1
  <2>3. queued = 0 /\ Len(levels) = 0
    BY <1>2 DEF Init
  <2> QED
    BY <1>2, <2>2, <2>3 DEF TasksBounded
<1>5. ThreadsBounded
  BY <1>2 DEF ThreadsBounded
<1>6. LateBounded
  <2>1. cancelled = FALSE
    BY DEF Init
  <2>2. late = 0
    BY DEF Init
  <2>3. late \in Nat /\ ~(late > 0)
    BY <2>2
  <2> QED
    BY <2>1, <2>2, <2>3, Zenon DEF LateBounded
<1>7. StopsOK
  BY <1>2 DEF StopsOK, StressStops
<1> QED
  BY <1>1, <1>3, <1>4, <1>5, <1>6, <1>7 DEF IInv

-----------------------------------------------------------------------------
Actions ==
    \/ StopCancelled \/ StopTimedOut \/ StartLevel \/ EndLevel \/ Finish
    \/ Take \/ GoRound \/ LeaveLoop \/ Send \/ Answer
    \/ Expire \/ TimeOut \/ Cancel

LEMMA NextIsActions == Next => Actions
  BY DEF Next, RunThread, PoolThread, Actions

LEMMA ProfileFixed == [Next]_runnerVars => profile' = profile
  BY DEF Next, RunThread, PoolThread, runnerVars, StopCancelled, StopTimedOut, StopBefore,
         StartLevel, EndLevel, Finish, Take, GoRound, LeaveLoop, Send, Answer, Expire, TimeOut, Cancel

(* What a level leaves behind when it is over. *)
LEMMA LevelAppended ==
    ASSUME ProfileOK, PoolOK, EndLevel
    PROVE /\ levels' \in Seq(LevelResult) /\ Len(levels') = Len(levels) + 1
          /\ \A i \in DOMAIN levels : levels'[i] = levels[i]
          /\ levels'[Len(levels')].stop = MustStop(sample)
          /\ Len(levels') <= Len(profile.levels)
<1> DEFINE result == [total |-> sample.total, stop |-> MustStop(sample)]
<1>1. MustStop(sample) \in BOOLEAN
  BY DEF MustStop
<1>2. result \in LevelResult /\ result.stop = MustStop(sample)
  BY <1>1 DEF LevelResult, PoolOK
<1>3. levels' = Append(levels, result) /\ levels \in Seq(LevelResult)
  BY DEF EndLevel, PoolOK
<1>4. Len(levels) + 1 <= Len(profile.levels)
  BY DEF EndLevel, PoolOK, Index
<1> HIDE DEF result
<1> QED
  BY <1>2, <1>3, <1>4

LEMMA PoolStep == ProfileOK /\ PoolOK /\ [Next]_runnerVars => PoolOK'
<1> SUFFICES ASSUME ProfileOK, PoolOK, [Next]_runnerVars PROVE PoolOK'
  OBVIOUS
<1>0. profile' = profile /\ (Fixed => Count \in Nat) /\ (Index <= Len(profile.levels) => Concurrency \in Nat)
  BY ProfileFixed, Amounts DEF PoolOK, Concurrency, Index
<1>1. CASE UNCHANGED runnerVars
  BY <1>1 DEF runnerVars, PoolOK, Index
<1>2. CASE StopCancelled \/ StopTimedOut
  BY <1>2 DEF StopCancelled, StopTimedOut, StopBefore, PoolOK, Index
<1>3. CASE StartLevel
  BY <1>0, <1>3 DEF StartLevel, PoolOK, Index
<1>4. CASE EndLevel
  <2>1. stage' # "level" /\ sample'.total \in Nat /\ stage' \in {"between", "ended"}
    BY <1>4 DEF EndLevel, NoSample
  <2> QED
    BY <1>0, <1>4, <2>1, LevelAppended DEF EndLevel, PoolOK, Idle
<1>5. CASE Finish
  BY <1>5 DEF Finish, PoolOK, Index
<1>6. CASE Take \/ GoRound \/ LeaveLoop
  BY <1>6 DEF Take, GoRound, LeaveLoop, PoolOK, Index
<1>7. CASE Send
  BY <1>7 DEF Send, PoolOK, Index
<1>8. CASE Answer
  <2>1. sample'.total = sample.total + 1
    BY <1>8 DEF Answer
  <2> QED
    BY <1>8, <2>1 DEF Answer, PoolOK, Index
<1>9. CASE Expire \/ TimeOut \/ Cancel
  BY <1>9 DEF Expire, TimeOut, Cancel, PoolOK, Index
<1> QED
  BY <1>1, <1>2, <1>3, <1>4, <1>5, <1>6, <1>7, <1>8, <1>9, NextIsActions DEF Actions

LEMMA ThreadStep == ProfileOK /\ PoolOK /\ ThreadsBounded /\ [Next]_runnerVars => ThreadsBounded'
<1> SUFFICES ASSUME ProfileOK, PoolOK, ThreadsBounded, [Next]_runnerVars PROVE ThreadsBounded'
  OBVIOUS
<1>0. profile' = profile /\ (Index <= Len(profile.levels) => Concurrency \in Nat)
  BY ProfileFixed, Amounts DEF PoolOK, Concurrency, Index
<1> USE <1>0 DEF ThreadsBounded, PoolOK, Fixed
<1>1. CASE UNCHANGED runnerVars
  BY <1>1 DEF runnerVars, Concurrency, Index
<1>2. CASE StopCancelled \/ StopTimedOut
  BY <1>2 DEF StopCancelled, StopTimedOut, StopBefore
<1>3. CASE StartLevel
  <2>1. Concurrency' = Concurrency
    BY <1>3 DEF StartLevel, Concurrency, Index
  <2> QED
    BY <1>3, <2>1 DEF StartLevel
<1>4. CASE EndLevel \/ Finish
  BY <1>4 DEF EndLevel, Finish
<1>5. CASE Take \/ GoRound \/ LeaveLoop \/ Send \/ Answer
  <2>1. Concurrency' = Concurrency
    BY <1>5 DEF Take, GoRound, LeaveLoop, Send, Answer, Concurrency, Index
  <2>2. CASE Take
    BY <2>1, <2>2 DEF Take
  <2>3. CASE GoRound \/ LeaveLoop
    BY <2>1, <2>3 DEF GoRound, LeaveLoop
  <2>4. CASE Send
    BY <2>1, <2>4 DEF Send
  <2>5. CASE Answer
    BY <2>1, <2>5 DEF Answer
  <2> QED
    BY <1>5, <2>2, <2>3, <2>4, <2>5
<1>6. CASE Expire \/ TimeOut \/ Cancel
  BY <1>6 DEF Expire, TimeOut, Cancel, Concurrency, Index
<1> QED
  BY <1>1, <1>2, <1>3, <1>4, <1>5, <1>6, NextIsActions DEF Actions

LEMMA TaskStep == ProfileOK /\ PoolOK /\ ThreadsBounded /\ TasksBounded /\ [Next]_runnerVars => TasksBounded'
<1> SUFFICES ASSUME ProfileOK, PoolOK, ThreadsBounded, TasksBounded, [Next]_runnerVars
             PROVE TasksBounded'
  OBVIOUS
<1>0. Fixed' = Fixed /\ Count' = Count /\ (Fixed => Count \in Nat)
  BY ProfileFixed, Amounts DEF Fixed, Count
<1>1. Len(levels) \in Nat /\ Index = Len(levels) + 1
  BY DEF PoolOK, Index
<1>2. Fixed => Count * Index = Count * Len(levels) + Count
  <2>1. \A c, n \in Nat : c * (n + 1) = c * n + c
    OBVIOUS
  <2> QED
    BY <1>0, <1>1, <2>1
<1>3. Fixed => Count * Index \in Nat /\ Count * Len(levels) \in Nat
  BY <1>0, <1>1
<1> DEFINE upTo == Count * Index
           before == Count * Len(levels)
<1>4. TasksBounded' <=> /\ sent' \in Nat
                        /\ Fixed => IF stage' = "level" THEN sent' + queued' + checked' <= Count * Index'
                                    ELSE sent' <= Count * Len(levels')
  BY <1>0 DEF TasksBounded
<1>5. /\ sent \in Nat
      /\ Fixed => IF stage = "level" THEN sent + queued + checked <= upTo ELSE sent <= before
      /\ Fixed => upTo = before + Count
      /\ queued \in Nat /\ checked \in Nat
      /\ stage # "level" => queued = 0 /\ checked = 0
  BY <1>2 DEF TasksBounded, PoolOK
<1>6. CASE EndLevel
  <2>1. Len(levels') = Index
    BY <1>1, <1>6, LevelAppended
  <2>2. stage = "level" /\ stage' # "level" /\ sent' = sent /\ queued = 0 /\ checked = 0
    BY <1>6 DEF EndLevel, Idle
  <2> QED
    BY <1>4, <1>5, <2>1, <2>2
<1>7. CASE ~EndLevel
  <2>1. levels' = levels /\ Index' = Index
    BY <1>7 DEF Next, RunThread, PoolThread, runnerVars, StopCancelled, StopTimedOut, StopBefore, StartLevel,
                Finish, Take, GoRound, LeaveLoop, Send, Answer, Expire, TimeOut, Cancel, Index
  <2> HIDE DEF upTo, before
  <2>2. /\ sent' \in Nat
        /\ Fixed => IF stage' = "level" THEN sent' + queued' + checked' <= upTo ELSE sent' <= before
    <3>0. Fixed => before \in Nat /\ upTo \in Nat
      BY <1>3 DEF upTo, before
    <3> USE <1>0, <1>5, <3>0
    <3>1. CASE UNCHANGED runnerVars
      BY <3>1 DEF runnerVars
    <3>2. CASE StopCancelled \/ StopTimedOut \/ Finish
      BY <3>2 DEF StopCancelled, StopTimedOut, StopBefore, Finish
    <3>3. CASE StartLevel
      <4>1. stage # "level" /\ stage' = "level" /\ sent' = sent /\ checked' = checked
            /\ (Fixed => queued' = Count)
        BY <3>3 DEF StartLevel
      <4>2. Fixed => sent <= before /\ upTo = before + Count
        BY <4>1
      <4>3. checked = 0
        BY <4>1
      <4>4. Fixed => sent' + queued' + checked' = sent + Count
        BY <4>1, <4>3
      <4>5. Fixed => sent + Count <= upTo
        BY <4>2
      <4> QED
        BY <4>1, <4>4, <4>5
    <3>4. CASE Take
      <4>1. /\ stage = "level" /\ stage' = "level" /\ sent' = sent
            /\ queued' + checked' <= queued + checked
            /\ queued' \in Int /\ checked' \in Int
        BY <3>4 DEF Take
      <4>2. \A s, q, c, qn, cn, u \in Int : qn + cn <= q + c /\ s + q + c <= u => s + qn + cn <= u
        OBVIOUS
      <4>3. Fixed => sent + queued + checked <= upTo /\ upTo \in Int
        BY <4>1
      <4>4. sent \in Int /\ queued \in Int /\ checked \in Int
        OBVIOUS
      <4>5. Fixed => sent + queued' + checked' <= upTo
        BY <4>1, <4>2, <4>3, <4>4
      <4> QED
        BY <4>1, <4>5
    <3>5. CASE GoRound
      <4>1. ~Fixed /\ sent' = sent
        BY <3>5 DEF GoRound, ThreadsBounded
      <4> QED
        BY <4>1
    <3>6. CASE LeaveLoop \/ Answer
      BY <3>6 DEF LeaveLoop, Answer
    <3>7. CASE Send
      BY <3>7 DEF Send
    <3>8. CASE Expire \/ TimeOut \/ Cancel
      BY <3>8 DEF Expire, TimeOut, Cancel
    <3> QED
      BY <1>7, <3>1, <3>2, <3>3, <3>4, <3>5, <3>6, <3>7, <3>8, NextIsActions DEF Actions
  <2> QED
    BY <1>4, <2>1, <2>2 DEF upTo, before
<1> QED
  BY <1>6, <1>7

LEMMA LateStep == ProfileOK /\ PoolOK /\ ThreadsBounded /\ LateBounded /\ [Next]_runnerVars => LateBounded'
<1> SUFFICES ASSUME ProfileOK, PoolOK, ThreadsBounded, LateBounded, [Next]_runnerVars
             PROVE LateBounded'
  OBVIOUS
<1>0. profile' = profile /\ (Index <= Len(profile.levels) => Concurrency \in Nat)
  BY ProfileFixed, Amounts DEF PoolOK, Concurrency, Index
<1> USE <1>0 DEF LateBounded, PoolOK
<1>1. CASE EndLevel
  <2>1. Len(levels') = Index /\ Index > 0 /\ profile.levels[Len(levels')] = Concurrency
    BY <1>1, LevelAppended DEF Index, Concurrency
  <2>2. stage = "level" /\ stage' # "level" /\ late' = late /\ cancelled' = cancelled /\ checked = 0
    BY <1>1 DEF EndLevel, Idle
  <2> QED
    BY <2>1, <2>2
<1>2. CASE ~EndLevel
  <2>1. levels' = levels /\ Concurrency' = Concurrency
    BY <1>2 DEF Next, RunThread, PoolThread, runnerVars, StopCancelled, StopTimedOut, StopBefore, StartLevel,
                Finish, Take, GoRound, LeaveLoop, Send, Answer, Expire, TimeOut, Cancel, Index, Concurrency
  <2> USE <2>1
  <2>2. CASE UNCHANGED runnerVars
    BY <2>2 DEF runnerVars
  <2>3. CASE StopCancelled \/ StopTimedOut \/ Finish
    BY <2>3 DEF StopCancelled, StopTimedOut, StopBefore, Finish
  <2>4. CASE StartLevel
    BY <2>4 DEF StartLevel
  <2>5. CASE Take \/ GoRound \/ LeaveLoop
    BY <2>5 DEF Take, GoRound, LeaveLoop
  <2>6. CASE Send
    BY <2>6 DEF Send
  <2>7. CASE Answer \/ Expire \/ TimeOut
    BY <2>7 DEF Answer, Expire, TimeOut
  <2>8. CASE Cancel
    BY <2>8 DEF Cancel, ThreadsBounded
  <2> QED
    BY <1>2, <2>2, <2>3, <2>4, <2>5, <2>6, <2>7, <2>8, NextIsActions DEF Actions
<1> QED
  BY <1>1, <1>2

LEMMA StopsStep == ProfileOK /\ PoolOK /\ StopsOK /\ [Next]_runnerVars => StopsOK'
<1> SUFFICES ASSUME ProfileOK, PoolOK, StopsOK, [Next]_runnerVars PROVE StopsOK'
  OBVIOUS
<1>0. profile' = profile
  BY ProfileFixed
<1> USE <1>0 DEF StopsOK, StressStops
<1>1. CASE EndLevel
  <2>1. /\ DOMAIN levels' = DOMAIN levels \cup {Len(levels')}
        /\ \A i \in DOMAIN levels : levels'[i] = levels[i]
        /\ levels'[Len(levels')].stop = MustStop(sample)
    <3>1. DOMAIN levels' = 1..Len(levels') /\ DOMAIN levels = 1..Len(levels) /\ Len(levels) \in Nat
      BY <1>1, LevelAppended DEF PoolOK
    <3> QED
      BY <1>1, <3>1, LevelAppended
  <2>2. stage = "level"
    BY <1>1 DEF EndLevel
  <2>3. CASE profile.profile_type = "stress" /\ MustStop(sample)
    <3>1. stage' = "ended" /\ stopReason' = "stress"
      BY <1>1, <2>3 DEF EndLevel
    <3> QED
      BY <2>1, <2>2, <2>3, <3>1
  <2>4. CASE ~(profile.profile_type = "stress" /\ MustStop(sample))
    <3>1. stage' = "between" /\ stopReason' = stopReason
      BY <1>1, <2>4 DEF EndLevel
    <3> QED
      BY <2>1, <2>2, <2>4, <3>1
  <2> QED
    BY <2>3, <2>4
<1>2. CASE StopCancelled \/ StopTimedOut
  BY <1>2 DEF StopCancelled, StopTimedOut, StopBefore
<1>3. CASE Finish
  <2>1. Len(levels) \in Nat /\ Len(levels) >= Len(profile.levels) /\ Len(profile.levels) \in Nat
    BY <1>3 DEF Finish, Index, PoolOK, ProfileOK
  <2> QED
    BY <1>3, <2>1 DEF Finish
<1>4. CASE UNCHANGED <<levels, stage, stopReason>>
  BY <1>4
<1>5. CASE StartLevel
  BY <1>5 DEF StartLevel
<1> QED
  BY <1>1, <1>2, <1>3, <1>4, <1>5, NextIsActions
  DEF Actions, runnerVars, Take, GoRound, LeaveLoop, Send, Answer, Expire, TimeOut, Cancel

(* The running totals of the levels go on adding up: a request that is sent is
   in flight, one that comes back is in the sample, whatever its outcome, and a
   level ends when nothing is in flight, with the whole sample. *)
LEMMA CountStep == PoolOK /\ TasksBounded /\ EveryRequestCounted /\ [Next]_runnerVars => EveryRequestCounted'
<1> SUFFICES ASSUME PoolOK, TasksBounded, EveryRequestCounted, [Next]_runnerVars
             PROVE EveryRequestCounted'
  OBVIOUS
<1>1. PICK upTo \in [0..Len(levels) -> 0..sent] :
            /\ upTo[0] = 0
            /\ \A i \in DOMAIN levels : upTo[i] = upTo[i - 1] + levels[i].total
            /\ sent = upTo[Len(levels)] + sample.total + inFlight
  BY DEF EveryRequestCounted
<1>2. /\ sent \in Nat /\ inFlight \in Nat /\ sample.total \in Nat /\ Len(levels) \in Nat
      /\ DOMAIN levels = 1..Len(levels)
  BY DEF PoolOK, TasksBounded
<1>3. CASE EndLevel
  <2> DEFINE result == [total |-> sample.total, stop |-> MustStop(sample)]
             more == [i \in 0..(Len(levels) + 1) |-> IF i = Len(levels) + 1 THEN sent ELSE upTo[i]]
  <2>1. levels' = Append(levels, result) /\ inFlight = 0 /\ inFlight' = 0 /\ sent' = sent
        /\ sample'.total = 0
    BY <1>3 DEF EndLevel, Idle, NoSample
  <2>2. result.total = sample.total /\ levels \in Seq(LevelResult)
    BY DEF PoolOK
  <2> HIDE DEF result
  <2>3. /\ Len(levels') = Len(levels) + 1 /\ DOMAIN levels' = 1..(Len(levels) + 1)
        /\ levels'[Len(levels) + 1] = result
        /\ \A i \in 1..Len(levels) : levels'[i] = levels[i]
    BY <2>1, <2>2
  <2>4. \A i \in 0..Len(levels) : more[i] = upTo[i] /\ upTo[i] \in 0..sent
    BY <1>1, <1>2
  <2>5. more[Len(levels) + 1] = sent /\ more \in [0..(Len(levels) + 1) -> 0..sent]
    BY <1>1, <1>2
  <2> HIDE DEF more
  <2>6. more[0] = 0
    BY <1>1, <1>2, <2>4
  <2>7. ASSUME NEW i \in DOMAIN levels' PROVE more[i] = more[i - 1] + levels'[i].total
    <3>1. CASE i = Len(levels) + 1
      <4>1. more[i] = sent /\ more[i - 1] = upTo[Len(levels)] /\ levels'[i].total = sample.total
        BY <1>2, <2>2, <2>3, <2>4, <2>5, <3>1
      <4>2. upTo[Len(levels)] \in Nat
        BY <1>2, <2>4
      <4> QED
        BY <1>1, <1>2, <2>1, <4>1, <4>2
    <3>2. CASE i # Len(levels) + 1
      <4>1. i \in 1..Len(levels) /\ i \in 0..Len(levels) /\ i - 1 \in 0..Len(levels)
        BY <1>2, <2>3, <3>2
      <4>2. more[i] = upTo[i] /\ more[i - 1] = upTo[i - 1] /\ levels'[i] = levels[i]
        BY <2>3, <2>4, <4>1
      <4> QED
        BY <1>1, <1>2, <4>1, <4>2
    <3> QED
      BY <3>1, <3>2
  <2>8. sent' = more[Len(levels')] + sample'.total + inFlight'
    BY <1>2, <2>1, <2>3, <2>5
  <2>9. more \in [0..Len(levels') -> 0..sent']
    BY <2>1, <2>3, <2>5
  <2> QED
    BY <2>6, <2>7, <2>8, <2>9 DEF EveryRequestCounted
<1>4. CASE ~EndLevel
  <2>1. levels' = levels
    BY <1>4 DEF Next, RunThread, PoolThread, runnerVars, StopCancelled, StopTimedOut, StopBefore,
                StartLevel, Finish, Take, GoRound, LeaveLoop, Send, Answer, Expire, TimeOut, Cancel
  <2>2. /\ sent' \in Nat /\ sent <= sent'
        /\ sent' - sample'.total - inFlight' = sent - sample.total - inFlight
        /\ sample'.total \in Nat /\ inFlight' \in Nat
    <3>1. CASE Send
      BY <1>2, <3>1 DEF Send
    <3>2. CASE Answer
      <4>1. sample'.total = sample.total + 1
        BY <3>2 DEF Answer
      <4>2. inFlight > 0 /\ inFlight' = inFlight - 1 /\ sent' = sent
        BY <3>2 DEF Answer
      <4>3. sample'.total \in Nat /\ inFlight' \in Nat
        BY <1>2, <4>1, <4>2
      <4>4. sent' - sample'.total - inFlight' = sent - sample.total - inFlight
        BY <1>2, <4>1, <4>2
      <4> QED
        BY <1>2, <4>2, <4>3, <4>4
    <3>3. CASE UNCHANGED <<sent, sample, inFlight>>
      BY <1>2, <3>3
    <3> QED
      BY <1>4, <3>1, <3>2, <3>3, NextIsActions
      DEF Actions, runnerVars, StopCancelled, StopTimedOut, StopBefore, StartLevel, Finish, Take, GoRound,
          LeaveLoop, Expire, TimeOut, Cancel
  <2>3. upTo \in [0..Len(levels') -> 0..sent'] /\ upTo[Len(levels')] \in Nat
    BY <1>1, <1>2, <2>1, <2>2
  <2>4. sent' = upTo[Len(levels')] + sample'.total + inFlight'
    <3>1. upTo[Len(levels)] = sent - sample.total - inFlight
      BY <1>1, <1>2, <2>1, <2>3
    <3>2. \A a, b, c, d \in Int : d = a - b - c => a = d + b + c
      OBVIOUS
    <3> QED
      BY <2>1, <2>2, <2>3, <3>1, <3>2
  <2> QED
    BY <1>1, <2>1, <2>3, <2>4 DEF EveryRequestCounted
<1> QED
  BY <1>3, <1>4

-----------------------------------------------------------------------------
(* The strengthened invariant holds in every reachable state. *)
THEOREM RunnerInvariant == Spec => []IInv
<1>1. IInv /\ [Next]_runnerVars => IInv'
  <2>1. ProfileOK /\ [Next]_runnerVars => ProfileOK'
    BY ProfileFixed DEF ProfileOK
  <2> QED
    BY <2>1, PoolStep, ThreadStep, TaskStep, LateStep, StopsStep DEF IInv
<1> QED
  BY <1>1, RunnerInit, PTL DEF Spec

(* Whatever was asked for, never more requests are in flight than the level
   allows, nor than MAX_CONCURRENCY. *)
THEOREM ConcurrencyIsBounded == Spec => []BoundedConcurrency
<1>1. IInv => BoundedConcurrency
  <2> SUFFICES ASSUME IInv, checked + inFlight > 0 PROVE BoundedConcurrency
    BY DEF BoundedConcurrency
  <2>1. stage = "level" /\ Index \in 1..Len(profile.levels)
    BY DEF IInv, PoolOK, Index
  <2>2. Concurrency \in 1..MAX_CONCURRENCY /\ MAX_CONCURRENCY \in Nat
    BY <2>1, Amounts, CeilingsAssumption DEF IInv, Concurrency, CeilingsAssumption
  <2>3. checked + inFlight <= Concurrency
    BY <2>1, <2>2 DEF IInv, ThreadsBounded, PoolOK
  <2> QED
    BY <2>2, <2>3 DEF BoundedConcurrency
<1> QED
  BY <1>1, RunnerInvariant, PTL

(* No interleaving of the pool sends more than the estimate that was confirmed,
   and no accepted argument makes the estimate exceed the ceilings. *)
THEOREM EstimateHolds == Spec => []WithinEstimate
<1>1. IInv => WithinEstimate
  <2> SUFFICES ASSUME IInv, Fixed
               PROVE /\ sent <= Count * Len(profile.levels)
                     /\ Count * Len(profile.levels) <= MAX_REQUESTS_PER_LEVEL * MAX_LEVELS
    BY DEF WithinEstimate
  <2>1. Count \in 1..MAX_REQUESTS_PER_LEVEL /\ Len(profile.levels) \in 1..MAX_LEVELS
        /\ MAX_REQUESTS_PER_LEVEL \in Nat /\ MAX_LEVELS \in Nat
    BY Amounts, CeilingsAssumption DEF IInv, ProfileOK, CeilingsAssumption
  <2>2. \A a, b, c, d \in Nat : a <= b /\ c <= d => a * c <= b * d
    <3>1. \A a, b, c \in Nat : a <= b => a * c <= b * c
      OBVIOUS
    <3>2. \A b, c, d \in Nat : c <= d => b * c <= b * d
      OBVIOUS
    <3>3. \A a, b \in Nat : a * b \in Nat
      OBVIOUS
    <3> SUFFICES ASSUME NEW a \in Nat, NEW b \in Nat, NEW c \in Nat, NEW d \in Nat, a <= b, c <= d
                 PROVE a * c <= b * d
      OBVIOUS
    <3>4. a * c <= b * c /\ b * c <= b * d
      BY <3>1, <3>2
    <3>5. a * c \in Nat /\ b * c \in Nat /\ b * d \in Nat
      BY <3>3
    <3> QED
      BY <3>4, <3>5
  <2>3. Count * Len(profile.levels) <= MAX_REQUESTS_PER_LEVEL * MAX_LEVELS
    BY <2>1, <2>2
  <2>4. \E n \in 0..Len(profile.levels) : sent <= Count * n
    <3>1. Len(levels) \in Nat /\ Len(levels) <= Len(profile.levels)
      BY DEF IInv, PoolOK
    <3>2. CASE stage = "level"
      <4>1. Index \in 0..Len(profile.levels)
        BY <2>1, <3>1, <3>2 DEF IInv, PoolOK, Index
      <4>2. sent + queued + checked <= Count * Index /\ Count * Index \in Nat
        BY <2>1, <3>2, <4>1 DEF IInv, TasksBounded
      <4>3. sent <= Count * Index
        BY <4>2 DEF IInv, PoolOK, TasksBounded
      <4> QED
        BY <4>1, <4>3
    <3>3. CASE stage # "level"
      BY <2>1, <3>1, <3>3 DEF IInv, TasksBounded
    <3> QED
      BY <3>2, <3>3
  <2>5. PICK n \in 0..Len(profile.levels) : sent <= Count * n
    BY <2>4
  <2>6. Count * n <= Count * Len(profile.levels)
    BY <2>1, <2>2
  <2>7. Count * n \in Nat /\ Count * Len(profile.levels) \in Nat /\ sent \in Nat
    BY <2>1 DEF IInv, TasksBounded
  <2> QED
    BY <2>3, <2>5, <2>6, <2>7
<1> QED
  BY <1>1, RunnerInvariant, PTL

(* No more requests follow a cancellation than the level it hit has threads. *)
THEOREM CancellationIsBounded == Spec => []CancellationIsPrompt
<1>1. IInv => CancellationIsPrompt
  <2> SUFFICES ASSUME IInv, late > 0 PROVE CancellationIsPrompt
    BY DEF CancellationIsPrompt
  <2>1. late \in Nat /\ cancelled
    BY DEF IInv, LateBounded
  <2>2. CASE stage = "level"
    BY <2>1, <2>2 DEF IInv, LateBounded, CancellationIsPrompt, Concurrency
  <2>3. CASE stage # "level"
    <3>1. checked = 0
      BY <2>3 DEF IInv, PoolOK
    <3>2. late <= profile.levels[Len(levels)]
      BY <2>3 DEF IInv, LateBounded
    <3> QED
      BY <2>1, <2>3, <3>1, <3>2 DEF CancellationIsPrompt
  <2> QED
    BY <2>2, <2>3
<1> QED
  BY <1>1, RunnerInvariant, PTL

(* A stress run never goes on past a level that met a stop condition, and a run
   that left levels out says why. *)
THEOREM StressRunStops == Spec => []StressStops
<1>1. IInv => StressStops
  BY DEF IInv, StopsOK
<1> QED
  BY <1>1, RunnerInvariant, PTL

(* Every request sent is counted in exactly one level, also when it failed, was
   slow, or came back after the cancellation or the deadline. *)
THEOREM RequestsAreCounted == Spec => []EveryRequestCounted
<1>1. Init => EveryRequestCounted
  <2> SUFFICES ASSUME Init PROVE EveryRequestCounted
    OBVIOUS
  <2> DEFINE none == [i \in 0..0 |-> 0]
  <2>1. levels = <<>> /\ Len(levels) = 0 /\ DOMAIN levels = {} /\ sent = 0 /\ inFlight = 0 /\ sample.total = 0
    BY DEF Init, NoSample
  <2>2. none \in [0..0 -> 0..0] /\ none[0] = 0
    OBVIOUS
  <2>3. none \in [0..Len(levels) -> 0..sent] /\ none[Len(levels)] = 0
    BY <2>1, <2>2
  <2>4. sent = none[Len(levels)] + sample.total + inFlight
    BY <2>1, <2>3
  <2> HIDE DEF none
  <2> QED
    BY <2>1, <2>2, <2>3, <2>4, Zenon DEF EveryRequestCounted
<1>2. IInv /\ EveryRequestCounted /\ [Next]_runnerVars => EveryRequestCounted'
  BY CountStep DEF IInv
<1> QED
  BY <1>1, <1>2, RunnerInvariant, PTL DEF Spec
=============================================================================
