----------------------- MODULE AssessmentPipelineProofs -----------------------
(***************************************************************************)
(* Theorems about AssessmentPipeline, for all requests, policies, formats, *)
(* numbers of requests per stage and results of the adapters.              *)
(***************************************************************************)
EXTENDS AssessmentPipeline, TLAPS

(* The stages that are over, and the one the run is at. *)
Past == {StageSequence[i] : i \in 1..(current - 1)}
Here == StageSequence[current]
Over == current > Len(StageSequence)

(* Where the run is. *)
PositionOK ==
    /\ current \in 1..(Len(StageSequence) + 1)
    /\ at \in {"entry", "started", "driving"}
    /\ Over => at = "entry"
    /\ at # "entry" => Here # "quality_gate" /\ Requested(Here)
    /\ at = "driving" => Here \in Driven /\ MayDrive(Here)
    /\ ended \in {"no", "outcome", "raised"}
    /\ Delivered => Past = Stage

(* What the checklist shows follows from the position. *)
PhasesOK ==
    /\ phase \in [Stage -> {"pending", "started"} \cup Terminal]
    /\ \A s \in Past : phase[s] # "started"
    /\ \A s \in Past \ Unannounced : phase[s] \in Terminal
    /\ \A s \in Stage \ Past : phase[s] = IF at # "entry" /\ s = Here THEN "started" ELSE "pending"

(* Only a stage that is under way or over has sent something. *)
TrafficOK ==
    /\ NothingUnasked
    /\ \A s \in traffic : s \in Past \/ (at = "driving" /\ s = Here)

(* Evidence is the result of a stage that completed, and of what it sent. *)
Supports(s, e) ==
    IF s = "database_assessment" THEN e = "unreachable" \/ s \in traffic
    ELSE /\ e \in Counts(MaxAttempts)
         /\ e.attempted > 0 => s \in traffic
         /\ e.breach => s = "performance_test"
EvidenceOK ==
    /\ evidence \in [Driven -> SUBSET UNION {Result(s) : s \in Driven}]
    /\ \A s \in Driven : evidence[s] # {} =>
          /\ s \in Past /\ phase[s] = "completed"
          /\ \E e : evidence[s] = {e} /\ Supports(s, e)

(* A stage that is over has its result or its reason, the database's aside. *)
ReasonsOK ==
    \A s \in Driven \ {"database_assessment"} :
        /\ s \in Past => (evidence[s] = {} <=> s \in reason)
        /\ s \notin Past => s \notin reason

VerdictsOK ==
    \A c \in Category : category[c] \in {"pass", "warning", "fail"} =>
        StageOf[c] \in traffic /\ StageOf[c] \in Past /\ phase[StageOf[c]] = "completed"

(* Reports come after the gate, and what is written is a prefix of what was
   asked for. *)
ReportsOK ==
    /\ "quality_gate" \in Past => gate # "none"
    /\ written \in 0..Len(Formats)
    /\ written > 0 => Stage \ {"report_generation"} \subseteq Past
    /\ reports = {Formats[i] : i \in 1..written} \cap Renderers
    /\ Delivered => written = Len(Formats)

(* The gate is that of the final evidence, categories and comparison. *)
CategoriesOf(results) ==
    [functional  |-> ExecutionCategory(results["functional_test"]),
     performance |-> PerformanceCategory(results["performance_test"]),
     database    |-> DatabaseCategory(results["database_assessment"]),
     browser     |-> ExecutionCategory(results["browser_test"])]
GateOK ==
    /\ "assessment" \in Past => category = CategoriesOf(evidence)
    /\ gate # "none" =>
          /\ "quality_gate" \in Past
          /\ gate = GateStatus(InfraSignals(category),
                               QualitySignals(category, Overall, regression), Policy)

IInv ==
    /\ PositionOK /\ PhasesOK /\ TrafficOK /\ EvidenceOK /\ ReasonsOK /\ VerdictsOK /\ ReportsOK
    /\ GateOK

-----------------------------------------------------------------------------
(* The order of the stages. *)

LEMMA Stages ==
    /\ Len(StageSequence) = 9
    /\ DOMAIN StageSequence = 1..9
    /\ \A i, j \in 1..9 : StageSequence[i] = StageSequence[j] => i = j
    /\ Stage = {StageSequence[i] : i \in 1..9}
    /\ StageSequence[8] = "quality_gate" /\ StageSequence[9] = "report_generation"
<1>1. Len(StageSequence) = 9 /\ DOMAIN StageSequence = 1..9
  BY DEF StageSequence
<1>2. \A i \in 1..9 : i = 1 \/ i = 2 \/ i = 3 \/ i = 4 \/ i = 5 \/ i = 6 \/ i = 7 \/ i = 8 \/ i = 9
  OBVIOUS
<1>3. /\ StageSequence[1] = "project_scan" /\ StageSequence[2] = "functional_test"
      /\ StageSequence[3] = "performance_test" /\ StageSequence[4] = "database_assessment"
      /\ StageSequence[5] = "browser_test" /\ StageSequence[6] = "assessment"
      /\ StageSequence[7] = "regression" /\ StageSequence[8] = "quality_gate"
      /\ StageSequence[9] = "report_generation"
  BY DEF StageSequence
<1>4. \A i, j \in 1..9 : StageSequence[i] = StageSequence[j] => i = j
  BY <1>2, <1>3
<1>5. Stage = {StageSequence[i] : i \in 1..9}
  BY <1>1 DEF Stage, ToSet
<1> QED
  BY <1>1, <1>3, <1>4, <1>5

LEMMA StageNames ==
    /\ Stage = {"project_scan", "assessment", "regression", "quality_gate", "report_generation"}
                  \cup Driven
    /\ Driven \subseteq Stage
<1>1. Stage = {StageSequence[i] : i \in 1..9}
  BY Stages
<1>2. \A i \in 1..9 : i = 1 \/ i = 2 \/ i = 3 \/ i = 4 \/ i = 5 \/ i = 6 \/ i = 7 \/ i = 8 \/ i = 9
  OBVIOUS
<1>3. /\ StageSequence[1] = "project_scan" /\ StageSequence[2] = "functional_test"
      /\ StageSequence[3] = "performance_test" /\ StageSequence[4] = "database_assessment"
      /\ StageSequence[5] = "browser_test" /\ StageSequence[6] = "assessment"
      /\ StageSequence[7] = "regression" /\ StageSequence[8] = "quality_gate"
      /\ StageSequence[9] = "report_generation"
  BY DEF StageSequence
<1>4. \A s : s \in Stage <=> \E i \in 1..9 : s = StageSequence[i]
  BY <1>1
<1>5. \A s : s \in Stage <=> \/ s = StageSequence[1] \/ s = StageSequence[2] \/ s = StageSequence[3]
                             \/ s = StageSequence[4] \/ s = StageSequence[5] \/ s = StageSequence[6]
                             \/ s = StageSequence[7] \/ s = StageSequence[8] \/ s = StageSequence[9]
  BY <1>2, <1>4
<1> QED
  BY <1>3, <1>5 DEF Driven

(* A stage that is running is not over, and then it is. *)
LEMMA Position ==
    ASSUME PositionOK, NEW s, NEW where, Running(s, where)
    PROVE /\ s = Here /\ s \in Stage \ Past /\ current \in 1..9 /\ ~Over /\ at = where
          /\ current' = current + 1 => Past' = Past \cup {s} /\ current' \in 1..10
          /\ current' = current => Past' = Past /\ Here' = Here /\ (Over' <=> Over)
<1>1. current \in 1..9 /\ StageSequence[current] = s /\ at = where
  BY Stages DEF Running, PositionOK
<1>2. s \in Stage
  BY <1>1, Stages
<1>3. s \notin Past
  <2> SUFFICES ASSUME NEW i \in 1..(current - 1), StageSequence[i] = s PROVE FALSE
    BY DEF Past
  <2>1. i \in 1..9 /\ i # current
    BY <1>1
  <2> QED
    BY <1>1, <2>1, Stages
<1>4. ASSUME current' = current + 1 PROVE Past' = Past \cup {s} /\ current' \in 1..10
  <2>1. current' - 1 = current
    BY <1>1, <1>4
  <2>2. Past' = {StageSequence[i] : i \in 1..current}
    BY <2>1 DEF Past
  <2>3. 1..current = 1..(current - 1) \cup {current}
    BY <1>1
  <2>4. current' \in 1..10
    BY <1>1, <1>4
  <2> QED
    BY <1>1, <2>2, <2>3, <2>4 DEF Past
<1> QED
  BY <1>1, <1>2, <1>3, <1>4, Stages DEF Here, Past, Over

(* What comes before the assessment and before the gate. *)
LEMMA Order ==
    ASSUME PositionOK
    PROVE /\ "assessment" \in Past => Driven \subseteq Past
          /\ "quality_gate" \in Past => "assessment" \in Past /\ "regression" \in Past
          /\ Here = "quality_gate" /\ ~Over => "assessment" \in Past /\ "regression" \in Past
          /\ Here = "assessment" /\ ~Over => Driven \subseteq Past
<1>1. /\ StageSequence[2] = "functional_test"
      /\ StageSequence[3] = "performance_test" /\ StageSequence[4] = "database_assessment"
      /\ StageSequence[5] = "browser_test" /\ StageSequence[6] = "assessment"
      /\ StageSequence[7] = "regression" /\ StageSequence[8] = "quality_gate"
  BY DEF StageSequence
<1>2. current \in 1..10 /\ (Over <=> current > 9)
  BY Stages DEF PositionOK, Over
<1>3. \A i \in 1..9 : i < current => StageSequence[i] \in Past
  BY <1>2 DEF Past
<1>4. \A i \in 1..9 : StageSequence[i] \in Past => i < current
  <2> SUFFICES ASSUME NEW i \in 1..9, NEW k \in 1..(current - 1), StageSequence[i] = StageSequence[k]
               PROVE i < current
    BY DEF Past
  <2>1. k \in 1..9 /\ k < current
    BY <1>2
  <2> QED
    BY <2>1, Stages
<1>5. /\ Here = "quality_gate" /\ ~Over => current = 8
      /\ Here = "assessment" /\ ~Over => current = 6
  BY <1>1, <1>2, Stages DEF Here
<1>6. current > 6 \/ (Here = "assessment" /\ ~Over) => Driven \subseteq Past
  <2> SUFFICES ASSUME current > 5 PROVE Driven \subseteq Past
    BY <1>2, <1>5
  <2>1. StageSequence[2] \in Past /\ StageSequence[3] \in Past /\ StageSequence[4] \in Past
        /\ StageSequence[5] \in Past
    BY <1>2, <1>3
  <2> QED
    BY <1>1, <2>1 DEF Driven
<1>7. current > 7 => "assessment" \in Past /\ "regression" \in Past
  <2> SUFFICES ASSUME current > 7 PROVE StageSequence[6] \in Past /\ StageSequence[7] \in Past
    BY <1>1
  <2> QED
    BY <1>2, <1>3
<1>8. "assessment" \in Past => current > 6
  BY <1>1, <1>2, <1>4
<1>9. "quality_gate" \in Past => current > 8
  BY <1>1, <1>2, <1>4
<1> QED
  BY <1>2, <1>5, <1>6, <1>7, <1>8, <1>9

(* Two stages have a place of their own at the end. *)
LEMMA LastStages ==
    ASSUME PositionOK
    PROVE /\ Here = "report_generation" /\ ~Over => Past = Stage \ {"report_generation"}
          /\ Over => Past = Stage
<1>1. current \in 1..10 /\ (Over <=> current = 10)
  BY Stages DEF PositionOK, Over
<1>2. ASSUME Over PROVE Past = Stage
  BY <1>1, <1>2, Stages DEF Past
<1>3. ASSUME Here = "report_generation", ~Over PROVE Past = Stage \ {"report_generation"}
  <2>1. current = 9
    BY <1>1, <1>3, Stages DEF Here
  <2>2. 1..9 = 1..8 \cup {9} /\ \A i \in 1..8 : i # 9 /\ i \in 1..9
    OBVIOUS
  <2>3. \A i \in 1..8 : StageSequence[i] # StageSequence[9]
    BY <2>2, Stages
  <2> QED
    BY <2>1, <2>2, <2>3, Stages DEF Past
<1> QED
  BY <1>2, <1>3

-----------------------------------------------------------------------------
LEMMA PipelineInit == Init => IInv
<1> SUFFICES ASSUME Init PROVE IInv
  OBVIOUS
<1>1. current = 1 /\ at = "entry" /\ ended = "no" /\ traffic = {} /\ written = 0 /\ reports = {}
  BY DEF Init
<1>2. Past = {} /\ ~Over
  <2>1. 1..(current - 1) = {}
    BY <1>1
  <2> QED
    BY <1>1, <2>1, Stages DEF Past, Over
<1>3. PositionOK
  BY <1>1, <1>2, Stages DEF PositionOK, Delivered
<1>4. PhasesOK
  BY <1>1, <1>2 DEF Init, PhasesOK
<1>5. TrafficOK
  BY <1>1 DEF TrafficOK, NothingUnasked
<1>6. EvidenceOK
  BY DEF Init, EvidenceOK
<1>7. ReasonsOK
  BY <1>2 DEF Init, ReasonsOK
<1>8. VerdictsOK
  BY DEF Init, VerdictsOK
<1>9. ReportsOK
  <2>1. Len(Formats) \in Nat
    BY PipelineAssumption DEF PipelineAssumption
  <2>2. 1..written = {}
    BY <1>1
  <2> QED
    BY <1>1, <1>2, <2>1, <2>2 DEF ReportsOK, Delivered
<1>10. GateOK
  BY <1>2 DEF Init, GateOK
<1> QED
  BY <1>3, <1>4, <1>5, <1>6, <1>7, <1>8, <1>9, <1>10 DEF IInv

-----------------------------------------------------------------------------
(* Every step either ends the stage the run is at, or stays in it. *)

Ends(s) ==
    \/ PassOver(s) \/ Decline(s) \/ Complete(s)
    \/ s = "project_scan" /\ ScanProject
    \/ s = "assessment" /\ BuildAssessment
    \/ s = "regression" /\ CompareWithBaseline
    \/ s = "quality_gate" /\ EvaluateGate
    \/ s = "report_generation" /\ ReturnOutcome
Stays(s) == Begin(s) \/ Drive(s) \/ (s = "report_generation" /\ WriteReport)

LEMMA NextIsSteps == Next => Raise \/ \E s \in Stage : Ends(s) \/ Stays(s)
  BY StageNames DEF Next, Proceed, Ends, Stays

LEMMA EndsStage ==
    ASSUME PositionOK, NEW s, Ends(s)
    PROVE /\ s = Here /\ s \in Stage \ Past /\ ~Over /\ ended = "no" /\ Past' = Past \cup {s}
          /\ current' \in 1..10 /\ at' = "entry" /\ request' = request
          /\ ended' = IF s = "report_generation" THEN "outcome" ELSE "no"
<1>1. \E where : Running(s, where)
  BY DEF Ends, PassOver, Decline, Complete, ScanProject, BuildAssessment, CompareWithBaseline,
         EvaluateGate, ReturnOutcome
<1>2. NextStage /\ request' = request
  BY DEF Ends, PassOver, Decline, Complete, ScanProject, BuildAssessment, CompareWithBaseline,
         EvaluateGate, ReturnOutcome
<1>3. ended = "no" /\ current' = current + 1 /\ at' = "entry"
  BY <1>1, <1>2 DEF Running, NextStage
<1>4. at = "entry" => ~Complete(s) /\ ~Decline(s)
  BY DEF Complete, Decline, Running
<1>5. s = Here /\ s \in Stage \ Past /\ ~Over /\ Past' = Past \cup {s} /\ current' \in 1..10
  BY <1>1, <1>3, Position
<1>6. s = "report_generation" => ReturnOutcome
  <2> SUFFICES ASSUME s = "report_generation" PROVE ~PassOver(s) /\ ~Decline(s) /\ ~Complete(s)
    BY DEF Ends
  <2>1. s \notin Driven /\ Requested(s)
    BY DEF Driven, Requested
  <2>2. DeclinedAs(s) = {}
    BY <2>1 DEF DeclinedAs
  <2> QED
    BY <1>5, <2>1, <2>2 DEF PassOver, Decline, Complete, Running, PositionOK
<1>7. ended' = IF s = "report_generation" THEN "outcome" ELSE "no"
  <2>1. ReturnOutcome => s = "report_generation"
    BY <1>5 DEF ReturnOutcome, Running, Here
  <2> QED
    BY <1>3, <1>6, <2>1 DEF Ends, PassOver, Decline, Complete, ScanProject, BuildAssessment,
         CompareWithBaseline, EvaluateGate, ReturnOutcome
<1> QED
  BY <1>3, <1>5, <1>2, <1>7

LEMMA StaysInStage ==
    ASSUME PositionOK, NEW s, Stays(s)
    PROVE /\ s = Here /\ s \in Stage \ Past /\ ~Over /\ current' = current
          /\ Past' = Past /\ Here' = Here /\ ~Over'
          /\ UNCHANGED <<request, evidence, reason, category, gate, ended>>
<1>1. \E where : Running(s, where)
  BY DEF Stays, Begin, Drive, WriteReport
<1>2. UNCHANGED <<current, request, evidence, reason, category, gate, ended>>
  BY DEF Stays, Begin, Drive, WriteReport
<1> QED
  BY <1>1, <1>2, Position

LEMMA StopsInStage ==
    ASSUME PositionOK, Raise
    PROVE /\ Past' = Past /\ Here' = Here /\ (Over' <=> Over) /\ ended = "no" /\ ended' = "raised"
          /\ UNCHANGED <<request, current, at, phase, traffic, evidence, reason, category, gate,
                         written, reports>>
  BY DEF Raise, Past, Here, Over

LEMMA PositionStep == PositionOK /\ [Next]_pipelineVars => PositionOK'
<1> SUFFICES ASSUME PositionOK, [Next]_pipelineVars PROVE PositionOK'
  OBVIOUS
<1>1. CASE UNCHANGED pipelineVars
  BY <1>1 DEF pipelineVars, PositionOK, Past, Here, Over, Delivered, Requested, MayDrive,
              BrowserTargetPermitted
<1>2. CASE Raise
  BY <1>2, StopsInStage DEF PositionOK, Delivered, Requested, MayDrive, BrowserTargetPermitted
<1>3. ASSUME NEW s \in Stage, Ends(s) PROVE PositionOK'
  <2>1. Delivered' => Past' = Stage
    <3> SUFFICES ASSUME s = "report_generation" PROVE Past' = Stage
      BY <1>3, EndsStage DEF Delivered
    <3> QED
      BY <1>3, EndsStage, LastStages
  <2> QED
    BY <1>3, <2>1, EndsStage, Stages DEF PositionOK
<1>4. ASSUME NEW s \in Stage, Stays(s) PROVE PositionOK'
  <2>1. ended' = "no" /\ ended = "no"
    BY <1>4 DEF Stays, Begin, Drive, WriteReport, Running
  <2>2. Requested(Here)' = Requested(Here) /\ MayDrive(Here)' = MayDrive(Here)
    BY <1>4, StaysInStage DEF Requested, MayDrive, BrowserTargetPermitted
  <2>3. CASE Begin(s)
    <3>1. at' = "started" /\ s # "quality_gate" /\ Requested(s)
      BY <2>3 DEF Begin
    <3> QED
      BY <1>4, <2>1, <2>2, <3>1, StaysInStage DEF PositionOK, Delivered
  <2>4. CASE Drive(s)
    <3>1. at' = "driving" /\ at = "started" /\ MayDrive(s)
      BY <2>4 DEF Drive, Running
    <3>2. s \in Driven
      BY <3>1 DEF MayDrive, Driven
    <3> QED
      BY <1>4, <2>1, <2>2, <3>1, <3>2, StaysInStage DEF PositionOK, Delivered
  <2>5. CASE WriteReport
    <3>1. at' = at
      BY <2>5 DEF WriteReport
    <3> QED
      BY <1>4, <2>1, <2>2, <3>1, StaysInStage DEF PositionOK, Delivered
  <2> QED
    BY <1>4, <2>3, <2>4, <2>5 DEF Stays
<1> QED
  BY <1>1, <1>2, <1>3, <1>4, NextIsSteps

-----------------------------------------------------------------------------
(* What a step does to the checklist. *)

LEMMA EndsPhase ==
    ASSUME PositionOK, PhasesOK, NEW s \in Stage, Ends(s)
    PROVE /\ phase' \in [Stage -> {"pending", "started"} \cup Terminal]
          /\ \A t \in Stage \ {s} : phase'[t] = phase[t]
          /\ \/ phase'[s] \in Terminal /\ (phase[s] = "pending" => phase'[s] = "skipped")
             \/ phase' = phase /\ phase[s] = "pending" /\ s \in Unannounced
<1>1. /\ phase \in [Stage -> {"pending", "started"} \cup Terminal]
      /\ s = Here /\ s \notin Past /\ (at = "entry" => phase[s] = "pending")
      /\ (at # "entry" => phase[s] = "started")
  BY EndsStage DEF PhasesOK
<1>2. CASE PassOver(s)
  <2>1. at = "entry"
    BY <1>2 DEF PassOver, Running
  <2>2. \/ phase' = phase /\ s \in {"functional_test", "regression"} /\ ~Requested(s)
        \/ phase' = [phase EXCEPT ![s] = "skipped"]
    BY <1>2 DEF PassOver
  <2>3. s \in {"functional_test", "regression"} /\ ~Requested(s) => s \in Unannounced
    BY DEF Requested, Unannounced
  <2> QED
    BY <1>1, <2>1, <2>2, <2>3 DEF Terminal
<1>3. CASE Decline(s)
  <2>1. PICK p \in DeclinedAs(s) : phase' = [phase EXCEPT ![s] = p]
    BY <1>3 DEF Decline
  <2>2. p \in {"skipped", "failed"}
    BY <2>1 DEF DeclinedAs
  <2>3. at # "entry"
    BY <1>3 DEF Decline, Running
  <2> QED
    BY <1>1, <2>1, <2>2, <2>3 DEF Terminal
<1>4. CASE \/ Complete(s)
           \/ s = "project_scan" /\ ScanProject
           \/ s = "assessment" /\ BuildAssessment
           \/ s = "regression" /\ CompareWithBaseline
           \/ s = "report_generation" /\ ReturnOutcome
  <2>1. phase' = [phase EXCEPT ![s] = "completed"] /\ at # "entry"
    BY <1>4 DEF Complete, ScanProject, BuildAssessment, CompareWithBaseline, ReturnOutcome, Running
  <2> QED
    BY <1>1, <2>1 DEF Terminal
<1>5. CASE s = "quality_gate" /\ EvaluateGate
  <2>1. phase' = phase /\ at = "entry" /\ s \in Unannounced
    BY <1>5 DEF EvaluateGate, Running, Unannounced
  <2> QED
    BY <1>1, <2>1
<1> QED
  BY <1>2, <1>3, <1>4, <1>5 DEF Ends

LEMMA StaysPhase ==
    ASSUME PositionOK, PhasesOK, NEW s \in Stage, Stays(s)
    PROVE \/ /\ at = "entry" /\ phase[s] = "pending" /\ at' # "entry"
             /\ phase' = [phase EXCEPT ![s] = "started"]
          \/ at # "entry" /\ at' # "entry" /\ phase' = phase
<1>1. at = "entry" => phase[s] = "pending"
  BY StaysInStage DEF PhasesOK
<1> QED
  BY <1>1 DEF Stays, Begin, Drive, WriteReport, Running

LEMMA StaysKeepsPast ==
    ASSUME PositionOK, PhasesOK, NEW s \in Stage, Stays(s)
    PROVE \A t \in Past : phase'[t] = phase[t]
<1>1. s \notin Past /\ \A t \in Past : t \in Stage
  BY StaysInStage, Stages DEF Past, PositionOK
<1>2. phase' = phase \/ phase' = [phase EXCEPT ![s] = "started"]
  BY StaysPhase
<1> QED
  BY <1>1, <1>2 DEF PhasesOK

LEMMA PhaseStep == PositionOK /\ PhasesOK /\ [Next]_pipelineVars => PhasesOK'
<1> SUFFICES ASSUME PositionOK, PhasesOK, [Next]_pipelineVars PROVE PhasesOK'
  OBVIOUS
<1>0. Terminal' = Terminal /\ Stage' = Stage /\ Past \subseteq Stage
  BY Stages DEF Past, PositionOK
<1>1. CASE UNCHANGED pipelineVars
  BY <1>1 DEF pipelineVars, PhasesOK, Past, Here, Unannounced
<1>2. CASE Raise
  BY <1>2, StopsInStage DEF PhasesOK, Unannounced
<1>3. ASSUME NEW s \in Stage, Ends(s) PROVE PhasesOK'
  <2>1. phase'[s] # "started" /\ (phase'[s] \in Terminal \/ s \in Unannounced)
    BY <1>3, EndsPhase DEF Terminal
  <2>2. Unannounced' = Unannounced
    BY <1>3, EndsStage DEF Unannounced
  <2> QED
    BY <1>0, <1>3, <2>1, <2>2, EndsStage, EndsPhase DEF PhasesOK
<1>4. ASSUME NEW s \in Stage, Stays(s) PROVE PhasesOK'
  <2>1. Unannounced' = Unannounced
    BY <1>4, StaysInStage DEF Unannounced
  <2>2. \A t \in Past : phase'[t] = phase[t]
    BY <1>4, StaysKeepsPast
  <2> QED
    BY <1>0, <1>4, <2>1, <2>2, StaysInStage, StaysPhase DEF PhasesOK
<1> QED
  BY <1>1, <1>2, <1>3, <1>4, NextIsSteps

LEMMA TrafficStep == PositionOK /\ TrafficOK /\ [Next]_pipelineVars => TrafficOK'
<1> SUFFICES ASSUME PositionOK, TrafficOK, [Next]_pipelineVars PROVE TrafficOK'
  OBVIOUS
<1>1. CASE UNCHANGED pipelineVars
  BY <1>1 DEF pipelineVars, TrafficOK, NothingUnasked, Past, Here
<1>2. CASE Raise
  BY <1>2, StopsInStage DEF TrafficOK, NothingUnasked
<1>3. ASSUME NEW s \in Stage, Ends(s) PROVE TrafficOK'
  <2>1. traffic' = traffic
    BY <1>3 DEF Ends, PassOver, Decline, Complete, ScanProject, BuildAssessment,
                CompareWithBaseline, EvaluateGate, ReturnOutcome
  <2> QED
    BY <1>3, <2>1, EndsStage DEF TrafficOK, NothingUnasked
<1>4. ASSUME NEW s \in Stage, Stays(s) PROVE TrafficOK'
  <2>1. CASE Drive(s)
    <3>1. /\ traffic' \subseteq traffic \cup {s} /\ at' = "driving" /\ Requested(s) /\ MayDrive(s)
          /\ request' = request /\ s = Here' /\ Past' = Past
      BY <1>4, <2>1, StaysInStage DEF Drive, Running, PositionOK
    <3>2. /\ s = "functional_test" => request.run_functional /\ request.target
          /\ s = "performance_test" =>
                request.run_performance /\ request.target /\ request.performance_confirmed
          /\ s = "database_assessment" => request.run_database /\ request.database_profile
          /\ s = "browser_test" => /\ request.run_browser /\ request.browser_confirmed
                                   /\ BrowserTargetPermitted
      BY <3>1 DEF Requested, MayDrive
    <3>3. BrowserTargetPermitted =>
             /\ request.browser_target \in {"local", "external"}
             /\ request.browser_target = "external" => request.browser_allow_external
      BY DEF BrowserTargetPermitted
    <3>4. NothingUnasked'
      BY <3>1, <3>2, <3>3 DEF TrafficOK, NothingUnasked
    <3>5. \A t \in traffic' : t \in Past' \/ (at' = "driving" /\ t = Here')
      BY <1>4, <3>1, StaysInStage DEF TrafficOK
    <3> QED
      BY <3>4, <3>5 DEF TrafficOK
  <2>2. CASE Begin(s) \/ (s = "report_generation" /\ WriteReport)
    <3>1. (traffic' = traffic /\ at # "driving") \/ (traffic' = traffic /\ at' = at)
      BY <2>2 DEF Begin, WriteReport, Running
    <3> QED
      BY <1>4, <3>1, StaysInStage DEF TrafficOK, NothingUnasked
  <2> QED
    BY <1>4, <2>1, <2>2 DEF Stays
<1> QED
  BY <1>1, <1>2, <1>3, <1>4, NextIsSteps

-----------------------------------------------------------------------------
(* Evidence, reasons and verdicts. *)

LEMMA TrafficGrows == [Next]_pipelineVars => traffic \subseteq traffic'
  BY DEF Next, Proceed, pipelineVars, PassOver, Begin, Decline, Drive, Complete, ScanProject,
         BuildAssessment, CompareWithBaseline, EvaluateGate, WriteReport, ReturnOutcome, Raise

(* A result is of requests that were sent. *)
LEMMA ResultsAreSupported ==
    ASSUME NEW s \in Driven, NEW e \in ResultOf(s)
    PROVE e \in Result(s) /\ Supports(s, e)
<1>1. CASE s = "database_assessment"
  BY <1>1 DEF ResultOf, Supports, Result, DatabaseResult
<1>2. CASE s # "database_assessment"
  <2>1. e \in Counts(MaxAttempts) /\ (e.attempted > 0 <=> s \in traffic) /\ Result(s) = Counts(MaxAttempts)
    BY <1>2 DEF ResultOf, Result
  <2>2. e.breach => s = "performance_test"
    BY <1>2 DEF ResultOf
  <2> QED
    BY <1>2, <2>1, <2>2 DEF Supports
<1> QED
  BY <1>1, <1>2

LEMMA EvidenceStep ==
    PositionOK /\ PhasesOK /\ EvidenceOK /\ [Next]_pipelineVars => EvidenceOK'
<1> SUFFICES ASSUME PositionOK, PhasesOK, EvidenceOK, [Next]_pipelineVars PROVE EvidenceOK'
  OBVIOUS
<1> DEFINE Results == UNION {Result(s) : s \in Driven}
<1>0. Driven' = Driven /\ Results' = Results
  BY DEF Result
<1>a. \A s, e : Supports(s, e) => Supports(s, e)'
  BY TrafficGrows DEF Supports
<1>b. evidence \in [Driven -> SUBSET Results]
  BY DEF EvidenceOK
<1> HIDE DEF Results
<1>1. CASE UNCHANGED pipelineVars
  BY <1>0, <1>1, <1>a DEF pipelineVars, EvidenceOK, Past, Results
<1>2. CASE Raise
  BY <1>0, <1>2, <1>a, StopsInStage DEF EvidenceOK, Results
<1>3. ASSUME NEW s \in Stage, Ends(s) PROVE EvidenceOK'
  <2>1. Past' = Past \cup {s} /\ s \notin Past /\ \A t \in Stage \ {s} : phase'[t] = phase[t]
    BY <1>3, EndsStage, EndsPhase
  <2>2. CASE Complete(s)
    <3>1. s \in Driven
      BY <1>3, <2>2, EndsStage DEF PositionOK, Complete, Running
    <3>2. PICK e \in ResultOf(s) : evidence' = [evidence EXCEPT ![s] = {e}]
      BY <2>2 DEF Complete
    <3>3. phase' = [phase EXCEPT ![s] = "completed"]
      BY <2>2 DEF Complete
    <3>4. e \in Results /\ Supports(s, e)
      BY <3>1, ResultsAreSupported DEF Results
    <3>5. phase'[s] = "completed" /\ evidence'[s] = {e}
      BY <1>b, <3>1, <3>2, <3>3 DEF PhasesOK
    <3>6. \A t \in Driven \ {s} : evidence'[t] = evidence[t] /\ phase'[t] = phase[t]
      BY <1>b, <2>1, <3>2, StageNames
    <3>7. evidence' \in [Driven -> SUBSET Results]
      BY <1>b, <3>1, <3>2, <3>4
    <3>8. ASSUME NEW t \in Driven, evidence'[t] # {}
          PROVE /\ t \in Past' /\ phase'[t] = "completed"
                /\ \E x : evidence'[t] = {x} /\ Supports(t, x)'
      <4>1. CASE t = s
        BY <1>a, <2>1, <3>4, <3>5, <4>1
      <4>2. CASE t # s
        BY <1>a, <2>1, <3>6, <3>8, <4>2 DEF EvidenceOK
      <4> QED
        BY <4>1, <4>2
    <3> QED
      BY <1>0, <3>7, <3>8 DEF EvidenceOK, Results
  <2>3. CASE ~Complete(s)
    <3>1. evidence' = evidence
      BY <1>3, <2>3 DEF Ends, PassOver, Decline, ScanProject, BuildAssessment,
                        CompareWithBaseline, EvaluateGate, ReturnOutcome
    <3>2. ASSUME NEW t \in Driven, evidence'[t] # {}
          PROVE /\ t \in Past' /\ phase'[t] = "completed"
                /\ \E x : evidence'[t] = {x} /\ Supports(t, x)'
      BY <1>a, <2>1, <3>1, <3>2, StageNames DEF EvidenceOK
    <3> QED
      BY <1>0, <1>b, <3>1, <3>2 DEF EvidenceOK, Results
  <2> QED
    BY <2>2, <2>3
<1>4. ASSUME NEW s \in Stage, Stays(s) PROVE EvidenceOK'
  <2>1. Past' = Past /\ evidence' = evidence /\ s \notin Past
    BY <1>4, StaysInStage
  <2>2. \A t \in Past : phase'[t] = phase[t]
    BY <1>4, StaysKeepsPast
  <2> QED
    BY <1>0, <1>a, <1>b, <2>1, <2>2 DEF EvidenceOK, Results
<1> QED
  BY <1>1, <1>2, <1>3, <1>4, NextIsSteps

LEMMA ReasonStep ==
    PositionOK /\ PhasesOK /\ EvidenceOK /\ ReasonsOK /\ [Next]_pipelineVars => ReasonsOK'
<1> SUFFICES ASSUME PositionOK, PhasesOK, EvidenceOK, ReasonsOK, [Next]_pipelineVars
             PROVE ReasonsOK'
  OBVIOUS
<1>1. CASE UNCHANGED pipelineVars
  BY <1>1 DEF pipelineVars, ReasonsOK, Past
<1>2. CASE Raise
  BY <1>2, StopsInStage DEF ReasonsOK
<1>3. ASSUME NEW s \in Stage, Ends(s) PROVE ReasonsOK'
  <2>1. Past' = Past \cup {s} /\ s \notin Past
    BY <1>3, EndsStage
  <2>2. s \in Driven => evidence[s] = {}
    BY <2>1 DEF EvidenceOK
  <2>3. CASE Complete(s)
    <3>1. s \in Driven /\ reason' = reason
      BY <1>3, <2>3, EndsStage DEF PositionOK, Complete, Running
    <3>2. PICK e : evidence' = [evidence EXCEPT ![s] = {e}]
      BY <2>3 DEF Complete
    <3> QED
      BY <2>1, <3>1, <3>2 DEF ReasonsOK, EvidenceOK
  <2>4. CASE ~Complete(s)
    <3>1. evidence' = evidence
      BY <1>3, <2>4 DEF Ends, PassOver, Decline, ScanProject, BuildAssessment,
                        CompareWithBaseline, EvaluateGate, ReturnOutcome
    <3>2. CASE s \in Driven \ {"database_assessment"}
      <4>1. PassOver(s) \/ Decline(s)
        BY <1>3, <2>4, <3>2 DEF Ends, Driven
      <4>2. reason' = reason \cup {s}
        BY <3>2, <4>1 DEF PassOver, Decline
      <4> QED
        BY <2>1, <2>2, <3>1, <4>2 DEF ReasonsOK
    <3>3. CASE s \notin Driven \ {"database_assessment"}
      <4>1. \A t \in Driven \ {"database_assessment"} : t \in reason' <=> t \in reason
        BY <1>3, <2>4, <3>3 DEF Ends, PassOver, Decline, ScanProject, BuildAssessment,
                                CompareWithBaseline, EvaluateGate, ReturnOutcome
      <4> QED
        BY <2>1, <3>1, <3>3, <4>1 DEF ReasonsOK
    <3> QED
      BY <3>2, <3>3
  <2> QED
    BY <2>3, <2>4
<1>4. ASSUME NEW s \in Stage, Stays(s) PROVE ReasonsOK'
  BY <1>4, StaysInStage DEF ReasonsOK
<1> QED
  BY <1>1, <1>2, <1>3, <1>4, NextIsSteps

(* A verdict that says something stands on a request that was sent. *)
LEMMA VerdictsAreSupported ==
    ASSUME NEW s \in Driven, NEW results,
           results = {} \/ \E e : results = {e} /\ Supports(s, e)
    PROVE /\ s # "database_assessment" =>
                /\ ExecutionCategory(results) \in {"pass", "warning", "fail"} =>
                      results # {} /\ s \in traffic
                /\ PerformanceCategory(results) \in {"pass", "warning", "fail"} =>
                      results # {} /\ s \in traffic
          /\ s = "database_assessment" =>
                (DatabaseCategory(results) \in {"pass", "warning", "fail"} =>
                      results # {} /\ s \in traffic)
<1>1. CASE results = {}
  BY <1>1 DEF ExecutionCategory, PerformanceCategory, DatabaseCategory
<1>2. CASE results # {}
  <2>1. PICK e : results = {e} /\ Supports(s, e)
    BY <1>2
  <2>2. ASSUME s # "database_assessment", s \notin traffic
        PROVE ExecutionCategory(results) = "unknown" /\ PerformanceCategory(results) = "unknown"
    <3>1. e.attempted = 0
      <4>1. e.attempted \in 0..MaxAttempts /\ ~(e.attempted > 0) /\ MaxAttempts \in Nat
        BY <2>1, <2>2, PipelineAssumption DEF Supports, Counts, PipelineAssumption
      <4> QED
        BY <4>1
    <3>2. (CHOOSE c \in results : TRUE) = e
      BY <2>1
    <3>3. ExecutionCategory(results) = "unknown"
      BY <1>2, <3>1, <3>2 DEF ExecutionCategory, ExecutionHealth
    <3> QED
      BY <3>3 DEF PerformanceCategory
  <2>3. ASSUME s = "database_assessment", s \notin traffic PROVE DatabaseCategory(results) = "not_assessed"
    BY <2>1, <2>3 DEF Supports, DatabaseCategory
  <2> QED
    BY <1>2, <2>2, <2>3
<1> QED
  BY <1>1, <1>2

LEMMA VerdictStep ==
    PositionOK /\ PhasesOK /\ EvidenceOK /\ VerdictsOK /\ [Next]_pipelineVars => VerdictsOK'
<1> SUFFICES ASSUME PositionOK, PhasesOK, EvidenceOK, VerdictsOK, [Next]_pipelineVars
             PROVE VerdictsOK'
  OBVIOUS
<1>0. \A c \in Category : StageOf[c] \in Driven /\ StageOf[c] \in Stage
  BY StageNames DEF Category, StageOf, Driven
<1>1. CASE UNCHANGED pipelineVars
  BY <1>1 DEF pipelineVars, VerdictsOK, Past
<1>2. CASE Raise
  BY <1>2, StopsInStage DEF VerdictsOK
<1>3. ASSUME NEW s \in Stage, Ends(s), ~BuildAssessment PROVE VerdictsOK'
  <2>1. category' = category
    BY <1>3 DEF Ends, PassOver, Decline, Complete, ScanProject, CompareWithBaseline, EvaluateGate,
                ReturnOutcome
  <2>2. Past' = Past \cup {s} /\ s \notin Past /\ \A t \in Stage \ {s} : phase'[t] = phase[t]
    BY <1>3, EndsStage, EndsPhase
  <2> QED
    BY <1>0, <2>1, <2>2, TrafficGrows DEF VerdictsOK
<1>4. ASSUME NEW s \in Stage, Stays(s) PROVE VerdictsOK'
  <2>1. \A t \in Past : phase'[t] = phase[t]
    BY <1>4, StaysKeepsPast
  <2> QED
    BY <1>4, <2>1, StaysInStage, TrafficGrows DEF VerdictsOK
<1>5. CASE BuildAssessment
  <2>1. Ends("assessment") /\ "assessment" \in Stage
    BY <1>5, StageNames DEF Ends
  <2>2. /\ Past \subseteq Past' /\ "assessment" \notin Past
        /\ \A t \in Stage \ {"assessment"} : phase'[t] = phase[t]
    BY <2>1, EndsStage, EndsPhase
  <2>3. \A t \in Driven : evidence[t] # {} => t \in Past' /\ phase'[t] = "completed"
    BY <2>2, StageNames DEF EvidenceOK, Driven
  <2>4. \A t \in Driven : evidence[t] = {} \/ \E e : evidence[t] = {e} /\ Supports(t, e)
    BY DEF EvidenceOK
  <2>5. traffic' = traffic
    BY <1>5 DEF BuildAssessment
  <2>6. /\ category'["functional"] = ExecutionCategory(evidence["functional_test"])
        /\ category'["performance"] = PerformanceCategory(evidence["performance_test"])
        /\ category'["database"] = DatabaseCategory(evidence["database_assessment"])
        /\ category'["browser"] = ExecutionCategory(evidence["browser_test"])
    BY <1>5 DEF BuildAssessment
  <2>7. /\ StageOf["functional"] = "functional_test" /\ StageOf["performance"] = "performance_test"
        /\ StageOf["database"] = "database_assessment" /\ StageOf["browser"] = "browser_test"
    BY DEF StageOf
  <2>8. {"functional_test", "performance_test", "database_assessment", "browser_test"} = Driven
    BY DEF Driven
  <2>9. ASSUME NEW c \in Category, category'[c] \in {"pass", "warning", "fail"}
        PROVE evidence[StageOf[c]] # {} /\ StageOf[c] \in traffic
    <3>1. CASE c = "functional"
      BY <2>4, <2>6, <2>7, <2>8, <2>9, <3>1, VerdictsAreSupported
    <3>2. CASE c = "performance"
      BY <2>4, <2>6, <2>7, <2>8, <2>9, <3>2, VerdictsAreSupported
    <3>3. CASE c = "database"
      BY <2>4, <2>6, <2>7, <2>8, <2>9, <3>3, VerdictsAreSupported
    <3>4. CASE c = "browser"
      BY <2>4, <2>6, <2>7, <2>8, <2>9, <3>4, VerdictsAreSupported
    <3> QED
      BY <3>1, <3>2, <3>3, <3>4 DEF Category
  <2> QED
    BY <1>0, <2>3, <2>5, <2>9 DEF VerdictsOK
<1> QED
  BY <1>1, <1>2, <1>3, <1>4, <1>5, NextIsSteps

-----------------------------------------------------------------------------
(* Reports, and what is open. *)

LEMMA ReportStep == PositionOK /\ ReportsOK /\ [Next]_pipelineVars => ReportsOK'
<1> SUFFICES ASSUME PositionOK, ReportsOK, [Next]_pipelineVars PROVE ReportsOK'
  OBVIOUS
<1>0. Len(Formats) \in Nat /\ written \in Nat
  BY PipelineAssumption DEF PipelineAssumption, ReportsOK
<1>1. CASE UNCHANGED pipelineVars
  BY <1>1 DEF pipelineVars, ReportsOK, Past, Delivered
<1>2. CASE Raise
  BY <1>2, StopsInStage DEF ReportsOK, Delivered
<1>3. ASSUME NEW s \in Stage, Ends(s) PROVE ReportsOK'
  <2>1. Past' = Past \cup {s} /\ s \notin Past /\ ended' = IF s = "report_generation" THEN "outcome" ELSE "no"
    BY <1>3, EndsStage
  <2>2. UNCHANGED <<written, reports>>
    BY <1>3 DEF Ends, PassOver, Decline, Complete, ScanProject, BuildAssessment,
                CompareWithBaseline, EvaluateGate, ReturnOutcome
  <2>3. s = "quality_gate" => gate' # "none"
    <3> SUFFICES ASSUME s = "quality_gate" PROVE EvaluateGate
      BY DEF EvaluateGate, GateStatus
    <3>1. s = Here /\ s \notin Driven /\ Requested(s)
      BY <1>3, EndsStage DEF Driven, Requested
    <3>2. at = "entry"
      BY <3>1 DEF PositionOK
    <3> QED
      BY <1>3, <3>1, <3>2 DEF Ends, PassOver, Decline, Complete, Running
  <2>4. s # "quality_gate" => gate' = gate
    <3>1. EvaluateGate => s = "quality_gate"
      BY <1>3, EndsStage DEF EvaluateGate, Running, Here
    <3> QED
      BY <1>3, <3>1 DEF Ends, PassOver, Decline, Complete, ScanProject, BuildAssessment,
                        CompareWithBaseline, ReturnOutcome
  <2>5. s = "report_generation" => written = Len(Formats)
    <3> SUFFICES ASSUME s = "report_generation" PROVE ReturnOutcome
      BY DEF ReturnOutcome
    <3>1. s \notin Driven /\ Requested(s) /\ DeclinedAs(s) = {} /\ s = Here
      BY <1>3, EndsStage DEF Driven, Requested, DeclinedAs
    <3> QED
      BY <1>3, <3>1 DEF Ends, PassOver, Decline, Complete, Running, PositionOK
  <2> QED
    BY <2>1, <2>2, <2>3, <2>4, <2>5 DEF ReportsOK, Delivered
<1>4. ASSUME NEW s \in Stage, Stays(s) PROVE ReportsOK'
  <2>1. Past' = Past /\ gate' = gate /\ ended' = ended /\ ~Over /\ s = Here
    BY <1>4, StaysInStage
  <2>2. CASE s = "report_generation" /\ WriteReport
    <3>1. /\ written < Len(Formats) /\ written' = written + 1
          /\ reports' = reports \cup ({Formats[written + 1]} \cap Renderers)
          /\ ended = "no"
      BY <2>2 DEF WriteReport, Running
    <3>2. Past = Stage \ {"report_generation"}
      BY <2>1, <2>2, LastStages
    <3>3. 1..(written + 1) = 1..written \cup {written + 1}
      BY <1>0
    <3>4. reports' = {Formats[i] : i \in 1..written'} \cap Renderers
      BY <3>1, <3>3 DEF ReportsOK
    <3>5. written' \in 0..Len(Formats)
      BY <1>0, <3>1
    <3> QED
      BY <2>1, <3>1, <3>2, <3>4, <3>5 DEF ReportsOK, Delivered
  <2>3. CASE Begin(s) \/ Drive(s)
    <3>1. UNCHANGED <<written, reports>>
      BY <2>3 DEF Begin, Drive
    <3> QED
      BY <2>1, <3>1 DEF ReportsOK, Delivered
  <2> QED
    BY <1>4, <2>2, <2>3 DEF Stays
<1> QED
  BY <1>1, <1>2, <1>3, <1>4, NextIsSteps

LEMMA GateStep == PositionOK /\ GateOK /\ [Next]_pipelineVars => GateOK'
<1> SUFFICES ASSUME PositionOK, GateOK, [Next]_pipelineVars PROVE GateOK'
  OBVIOUS
<1>1. CASE UNCHANGED pipelineVars
  BY <1>1 DEF pipelineVars, GateOK, Past, Overall
<1>2. CASE Raise
  <2>1. regression' = regression
    BY <1>2 DEF Raise
  <2> QED
    BY <1>2, <2>1, StopsInStage DEF GateOK, Overall
<1>3. ASSUME NEW s \in Stage, Stays(s) PROVE GateOK'
  <2>1. regression' = regression
    BY <1>3 DEF Stays, Begin, Drive, WriteReport
  <2> QED
    BY <1>3, <2>1, StaysInStage DEF GateOK, Overall
<1>4. ASSUME NEW s \in Stage, Ends(s) PROVE GateOK'
  <2>1. s = Here /\ ~Over /\ s \notin Past /\ Past' = Past \cup {s}
    BY <1>4, EndsStage
  <2>2. "quality_gate" \in Past => s \notin Driven \cup {"assessment", "regression", "quality_gate"}
    BY <2>1, Order
  <2>3. "assessment" \in Past => s \notin Driven \cup {"assessment"}
    BY <2>1, Order
  <2>4. CASE BuildAssessment
    <3>1. s = "assessment"
      BY <2>1, <2>4 DEF BuildAssessment, Running, Here
    <3>2. UNCHANGED <<evidence, regression, gate>> /\ category' = CategoriesOf(evidence)
      BY <2>4 DEF BuildAssessment, CategoriesOf
    <3>3. gate = "none"
      BY <2>2, <3>1 DEF GateOK
    <3> QED
      BY <3>2, <3>3 DEF GateOK
  <2>5. CASE EvaluateGate
    <3>1. s = "quality_gate"
      BY <2>1, <2>5 DEF EvaluateGate, Running, Here
    <3>2. UNCHANGED <<evidence, regression, category>>
          /\ gate' = GateStatus(InfraSignals(category),
                                QualitySignals(category, Overall, regression), Policy)
      BY <2>5 DEF EvaluateGate
    <3>3. Overall' = Overall
      BY <3>2 DEF Overall
    <3>4. "assessment" \in Past
      BY <2>1, <3>1, Order
    <3> QED
      BY <2>1, <3>1, <3>2, <3>3, <3>4 DEF GateOK
  <2>6. CASE ~BuildAssessment /\ ~EvaluateGate
    <3>1. UNCHANGED <<category, gate>>
      BY <1>4, <2>6 DEF Ends, PassOver, Decline, Complete, ScanProject, CompareWithBaseline,
                        ReturnOutcome
    <3>2. s \notin Driven => evidence' = evidence
      <4>1. s \notin Driven => ~Complete(s)
        BY <2>1 DEF Complete, Running, PositionOK
      <4> QED
        BY <1>4, <2>6, <4>1 DEF Ends, PassOver, Decline, ScanProject, CompareWithBaseline,
                                ReturnOutcome
    <3>3. s # "regression" => regression' = regression
      <4>1. CompareWithBaseline => s = "regression"
        BY <2>1 DEF CompareWithBaseline, Running, Here
      <4> QED
        BY <1>4, <2>6, <4>1 DEF Ends, PassOver, Decline, Complete, ScanProject, ReturnOutcome
    <3>4. s # "assessment"
      <4> SUFFICES ASSUME s = "assessment" PROVE FALSE
        OBVIOUS
      <4>1. s \notin Driven /\ Requested(s) /\ DeclinedAs(s) = {}
        BY DEF Driven, Requested, DeclinedAs
      <4> QED
        BY <1>4, <2>1, <2>6, <4>1 DEF Ends, PassOver, Decline, Complete, Running, PositionOK
    <3>5. Overall' = Overall
      BY <3>1 DEF Overall
    <3>6. ASSUME "assessment" \in Past' PROVE category' = CategoriesOf(evidence')
      BY <2>1, <2>3, <3>1, <3>2, <3>4, <3>6 DEF GateOK
    <3>7. ASSUME gate' # "none"
          PROVE /\ "quality_gate" \in Past'
                /\ gate' = GateStatus(InfraSignals(category'),
                                      QualitySignals(category', Overall', regression'), Policy)
      BY <2>1, <2>2, <3>1, <3>3, <3>5, <3>7 DEF GateOK
    <3> QED
      BY <3>6, <3>7 DEF GateOK
  <2> QED
    BY <2>4, <2>5, <2>6
<1> QED
  BY <1>1, <1>2, <1>3, <1>4, NextIsSteps

-----------------------------------------------------------------------------
(* The strengthened invariant holds in every reachable state. *)
THEOREM PipelineInvariant == Spec => []IInv
<1>1. IInv /\ [Next]_pipelineVars => IInv'
  BY PositionStep, PhaseStep, TrafficStep, EvidenceStep, ReasonStep, VerdictStep, ReportStep,
     GateStep DEF IInv
<1> QED
  BY <1>1, PipelineInit, PTL DEF Spec

(* Whatever is asked and whatever the adapters do, nothing is sent that was not
   asked for and confirmed (_run_functional to _run_browser). *)
THEOREM ConsentIsKept == Spec => []NothingUnasked
<1>1. IInv => NothingUnasked
  BY DEF IInv, TrafficOK
<1> QED
  BY <1>1, PipelineInvariant, PTL

(* A delivered result claims nothing that was not done, and gives a reason for
   what was left out (docs/GUI_SAFETY.md, "Never overclaiming"). *)
THEOREM ClaimsAreTrue == Spec => []NeverOverclaimed
<1>1. IInv => NeverOverclaimed
  <2> SUFFICES ASSUME IInv, Delivered PROVE NeverOverclaimed
    BY DEF NeverOverclaimed
  <2>1. Past = Stage /\ Driven \subseteq Past
    BY StageNames DEF IInv, PositionOK
  <2> QED
    BY <2>1 DEF IInv, VerdictsOK, ReasonsOK, NeverOverclaimed
<1> QED
  BY <1>1, PipelineInvariant, PTL

(* Report files hold final verdicts, and none that was asked for and can be
   rendered is missing (_write_reports). *)
THEOREM ReportsAreComplete == Spec => []ReportsAreFinal
<1>1. IInv => ReportsAreFinal
  <2> SUFFICES ASSUME IInv PROVE ReportsAreFinal
    OBVIOUS
  <2>1. ASSUME reports # {}
        PROVE gate # "none" /\ \A s \in Stage \ {"report_generation"} : phase[s] # "started"
    <3>1. written > 0
      <4>1. ASSUME written = 0 PROVE FALSE
        <5>1. 1..written = {}
          BY <4>1
        <5> QED
          BY <2>1, <5>1 DEF IInv, ReportsOK
      <4>2. written \in Nat
        BY PipelineAssumption DEF PipelineAssumption, IInv, ReportsOK
      <4> QED
        BY <4>1, <4>2
    <3>2. "quality_gate" \in Stage
      BY StageNames
    <3> QED
      BY <3>1, <3>2 DEF IInv, ReportsOK, PhasesOK
  <2>2. ASSUME Delivered PROVE reports = ToSet(Formats) \cap Renderers
    <3>1. DOMAIN Formats = 1..Len(Formats)
      BY PipelineAssumption DEF PipelineAssumption
    <3>2. reports = {Formats[i] : i \in 1..Len(Formats)} \cap Renderers
      BY <2>2 DEF IInv, ReportsOK
    <3> QED
      BY <3>1, <3>2 DEF ToSet
  <2> QED
    BY <2>1, <2>2 DEF ReportsAreFinal
<1> QED
  BY <1>1, PipelineInvariant, PTL

(* The checklist of the page: one stage at a time and in order, what has settled
   stays settled, and nothing is left pending or active behind a result but the
   three entries of which the code says nothing. *)
THEOREM ChecklistIsOrderly == Spec => ChecklistProtocol
<1>1. IInv /\ [Next]_pipelineVars => [ChecklistStep]_pipelineVars
  <2> DEFINE Orderly ==
        \A s \in Stage : phase'[s] # phase[s] =>
            /\ phase[s] = "pending" => phase'[s] \in {"started", "skipped"}
            /\ phase[s] = "started" => phase'[s] \in Terminal
            /\ phase[s] \notin Terminal
            /\ \A t \in Stage \ {s} : phase[t] # "started" /\ phase'[t] = phase[t]
            /\ \A i, j \in DOMAIN StageSequence :
                   i < j /\ StageSequence[i] = s => phase[StageSequence[j]] = "pending"
  <2>a. ASSUME IInv, Next, Delivered'
        PROVE \A s \in Stage \ Unannounced : phase'[s] \in Terminal
    <3>1. PositionOK' /\ PhasesOK' /\ Stage' = Stage /\ Terminal' = Terminal
      BY <2>a, PositionStep, PhaseStep DEF IInv
    <3>2. request' = request
      BY <2>a, NextIsSteps, EndsStage, StaysInStage, StopsInStage DEF IInv
    <3>3. Past' = Stage /\ Unannounced' = Unannounced
      BY <2>a, <3>1, <3>2 DEF PositionOK, Unannounced
    <3> QED
      BY <3>1, <3>3 DEF PhasesOK
  <2>b. (IInv /\ Next => Orderly) => (IInv /\ [Next]_pipelineVars => [ChecklistStep]_pipelineVars)
    BY <2>a DEF ChecklistStep
  <2> SUFFICES ASSUME PositionOK, PhasesOK, Next PROVE Orderly
    BY <2>b DEF IInv
  <2>1. Past \subseteq Stage
    BY Stages DEF Past, PositionOK
  <2>2. CASE Raise
    BY <2>2, StopsInStage
  <2>3. ASSUME NEW s \in Stage, Ends(s) \/ Stays(s) PROVE Orderly
    <3>1. s = Here /\ s \notin Past /\ ~Over
      BY <2>3, EndsStage, StaysInStage
    <3>2. \A t \in Stage \ {s} : phase'[t] = phase[t] /\ phase[t] # "started"
      <4>1. \A t \in Stage \ {s} : phase'[t] = phase[t]
        BY <2>3, EndsPhase, StaysPhase DEF PhasesOK
      <4> QED
        BY <3>1, <4>1 DEF PhasesOK
    <3>3. phase[s] \in {"pending", "started"}
      BY <3>1 DEF PhasesOK
    <3>4. phase'[s] # phase[s] =>
             /\ phase[s] = "pending" => phase'[s] \in {"started", "skipped"}
             /\ phase[s] = "started" => phase'[s] \in Terminal
      <4>1. CASE Ends(s)
        BY <3>3, <4>1, EndsPhase
      <4>2. CASE Stays(s)
        BY <4>2, StaysPhase DEF PhasesOK
      <4> QED
        BY <2>3, <4>1, <4>2
    <3>5. ASSUME NEW i \in DOMAIN StageSequence, NEW j \in DOMAIN StageSequence,
                 i < j, StageSequence[i] = s
          PROVE phase[StageSequence[j]] = "pending"
      <4>1. i = current /\ i \in 1..9 /\ j \in 1..9
        BY <3>1, <3>5, Stages DEF Here, PositionOK, Over
      <4>2. StageSequence[j] \in Stage /\ StageSequence[j] # s
        BY <3>5, <4>1, Stages
      <4>3. \A k \in 1..(current - 1) : StageSequence[k] # StageSequence[j]
        BY <3>5, <4>1, Stages
      <4>4. StageSequence[j] \notin Past
        BY <4>3 DEF Past
      <4> QED
        BY <3>1, <4>2, <4>4 DEF PhasesOK
    <3>6. phase[s] \notin Terminal
      BY <3>3 DEF Terminal
    <3> QED
      BY <3>2, <3>4, <3>5, <3>6
  <2> QED
    BY <2>2, <2>3, NextIsSteps
<1> QED
  BY <1>1, PipelineInvariant, PTL DEF Spec, ChecklistProtocol

-----------------------------------------------------------------------------
(* A policy that fails on failed checks and missed thresholds, and does not
   make a mere warning of a target that is down; the default is one. *)
Strict ==
    /\ {<<"functional", "failure">>, <<"performance", "threshold">>} \subseteq Policy.fail_on
    /\ {<<"functional", "unreachable">>, <<"performance", "unreachable">>} \cap Policy.warn_on = {}

(* What opens the gate of a strict policy. *)
LEMMA GateOpens ==
    ASSUME Strict, NEW infra, NEW quality, GateStatus(infra, quality, Policy) \in {"pass", "warning"}
    PROVE /\ \A s \in quality \cup infra : s \notin Policy.fail_on
          /\ \A s \in infra : s \in Policy.warn_on
<1> DEFINE levels == {Classify(Policy, s) : s \in quality \cup infra}
<1>1. "fail" \notin levels /\ \A s \in infra : Classify(Policy, s) # "none"
  BY DEF GateStatus
<1>2. \A s \in quality \cup infra : Classify(Policy, s) # "fail"
  BY <1>1
<1> QED
  BY <1>1, <1>2 DEF Classify

LEMMA HealthyMeansClean ==
    ASSUME NEW e \in Counts(MaxAttempts), ExecutionHealth(e) \in {"unknown", "pass"}
    PROVE e.transport = 0 /\ e.failed = 0
<1>1. e.attempted \in Nat /\ e.transport \in Nat /\ e.failed \in Nat
      /\ e.transport + e.failed <= e.attempted
  BY PipelineAssumption DEF Counts, PipelineAssumption
<1> QED
  BY <1>1 DEF ExecutionHealth

(* With a strict policy, for any static findings and any comparison: no path
   leads from a failed or lost request, a missed threshold or a severe
   regression to exit code 0. *)
THEOREM GreenIsClean ==
    ASSUME Strict PROVE Spec => []GreenMeansClean
<1>1. IInv => GreenMeansClean
  <2> SUFFICES ASSUME IInv, gate # "none", ExitCode[gate] = 0
               PROVE /\ \A s \in {"functional_test", "performance_test"} : \A c \in evidence[s] :
                           c.transport = 0 /\ c.failed = 0 /\ (c.attempted > 0 => ~c.breach)
                     /\ \A f \in regression : f \cap Policy.fail_on = {}
    BY DEF GreenMeansClean
  <2> DEFINE infra == InfraSignals(category)
             quality == QualitySignals(category, Overall, regression)
  <2>1. gate = GateStatus(infra, quality, Policy) /\ "quality_gate" \in Past
    BY DEF IInv, GateOK
  <2>2. GateStatus(infra, quality, Policy) \in {"pass", "warning"}
    <3>1. GateStatus(infra, quality, Policy) \in {"pass", "warning", "fail", "error"}
      BY DEF GateStatus
    <3> QED
      BY <2>1, <3>1 DEF ExitCode
  <2>3. \A s \in quality \cup infra : s \notin Policy.fail_on
    BY <2>2, GateOpens
  <2>4. infra = {}
    <3>1. infra \subseteq {<<"functional", "unreachable">>, <<"performance", "unreachable">>}
      BY DEF InfraSignals
    <3>2. \A s \in infra : s \in Policy.warn_on
      BY <2>2, GateOpens
    <3> QED
      BY <3>1, <3>2 DEF Strict
  <2>5. category["functional"] # "fail" /\ category["performance"] # "fail"
    BY <2>4 DEF InfraSignals
  <2>6. category["functional"] # "warning" /\ category["performance"] # "warning"
    <3>1. /\ category["functional"] = "warning" => <<"functional", "failure">> \in quality
          /\ category["performance"] = "warning" => <<"performance", "threshold">> \in quality
      BY DEF QualitySignals, WarningSignal
    <3> QED
      BY <2>3, <3>1 DEF Strict
  <2>7. category = CategoriesOf(evidence)
    BY <2>1, Order DEF IInv, GateOK
  <2>8. /\ ExecutionCategory(evidence["functional_test"]) \notin {"fail", "warning"}
        /\ PerformanceCategory(evidence["performance_test"]) \notin {"fail", "warning"}
    BY <2>5, <2>6, <2>7 DEF CategoriesOf
  <2>9. ASSUME NEW s \in {"functional_test", "performance_test"}, NEW c \in evidence[s]
        PROVE c.transport = 0 /\ c.failed = 0 /\ (c.attempted > 0 => ~c.breach)
    <3>1. PICK e : evidence[s] = {e} /\ Supports(s, e)
      BY DEF IInv, EvidenceOK, Driven
    <3>2. c = e /\ c \in Counts(MaxAttempts) /\ (c.breach => s = "performance_test")
      BY <2>9, <3>1 DEF Supports
    <3>3. (CHOOSE x \in evidence[s] : TRUE) = c
      BY <3>1, <3>2
    <3>4. ExecutionCategory(evidence[s]) = ExecutionHealth(c)
      BY <3>1, <3>3 DEF ExecutionCategory
    <3>5. ExecutionHealth(c) \in {"unknown", "pass", "fail", "warning"}
      BY DEF ExecutionHealth
    <3>6. ExecutionHealth(c) \notin {"fail", "warning"}
      BY <2>8, <3>4 DEF PerformanceCategory
    <3>7. c.transport = 0 /\ c.failed = 0
      BY <3>2, <3>5, <3>6, HealthyMeansClean
    <3>8. ASSUME c.attempted > 0, c.breach PROVE FALSE
      <4>1. ExecutionHealth(c) = "pass"
        <5>1. c.attempted \in Nat
          BY <3>2, PipelineAssumption DEF Counts, PipelineAssumption
        <5> QED
          BY <3>7, <3>8, <5>1 DEF ExecutionHealth
      <4>2. s = "performance_test"
        BY <3>2, <3>8
      <4>3. PerformanceCategory(evidence[s]) = "warning"
        BY <3>4, <3>8, <4>1, Zenon DEF PerformanceCategory
      <4> QED
        BY <2>8, <4>2, <4>3
    <3> QED
      BY <3>7, <3>8
  <2>10. ASSUME NEW f \in regression PROVE f \cap Policy.fail_on = {}
    <3>1. f \subseteq quality
      BY DEF QualitySignals
    <3> QED
      BY <2>3, <3>1
  <2> QED
    BY <2>9, <2>10
<1> QED
  BY <1>1, PipelineInvariant, PTL
=============================================================================
