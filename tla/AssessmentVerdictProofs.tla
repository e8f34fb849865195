----------------------- MODULE AssessmentVerdictProofs -----------------------
(***************************************************************************)
(* Theorems about AssessmentVerdict, for any number of requests, any       *)
(* findings of discovery and comparison, and any policy.                   *)
(***************************************************************************)
EXTENDS AssessmentVerdict, TLAPS

(* What was executed is counted consistently. *)
EvidenceOK ==
    /\ evidence \in [Executed -> SUBSET UNION {Counts(Attempts[c]) : c \in Executed}]
    /\ \A c \in Executed :
          evidence[c] = {} \/ \E e \in Counts(Attempts[c]) : evidence[c] = {e}

(* One category's status after one more thing went wrong. *)
Worse(old, new) ==
    \/ new = old
    \/ old = "pass" /\ new \in {"warning", "fail"}
    \/ old = "warning" /\ new = "fail"

-----------------------------------------------------------------------------
LEMMA CountsAreNumbers ==
    ASSUME NEW c \in Executed, NEW e \in Counts(Attempts[c])
    PROVE /\ e.attempted \in 0..Attempts[c] /\ e.transport \in 0..Attempts[c]
          /\ e.failed \in 0..Attempts[c] /\ e.breach \in BOOLEAN
          /\ e.transport + e.failed <= e.attempted /\ Attempts[c] \in Nat
          /\ e = [attempted |-> e.attempted, transport |-> e.transport, failed |-> e.failed,
                  breach |-> e.breach]
          /\ e.breach => e.attempted > 0
  BY VerdictAssumption DEF Counts, VerdictAssumption

(* What EXCEPT does to one count, field by field. *)
CountRecord == [attempted : Int, transport : Int, failed : Int, breach : BOOLEAN]

LEMMA CountsReplaced ==
    ASSUME NEW e, e \in CountRecord, NEW x \in Int, NEW y \in Int
    PROVE [e EXCEPT !.transport = x, !.failed = y] =
              [attempted |-> e.attempted, transport |-> x, failed |-> y, breach |-> e.breach]
<1> DEFINE f == [e EXCEPT !.transport = x, !.failed = y]
<1>1. /\ [e EXCEPT !.transport = x, !.failed = y] \in
             [attempted : Int, transport : Int, failed : Int, breach : BOOLEAN]
      /\ [e EXCEPT !.transport = x, !.failed = y].attempted = e.attempted
      /\ [e EXCEPT !.transport = x, !.failed = y].transport = x
      /\ [e EXCEPT !.transport = x, !.failed = y].failed = y
      /\ [e EXCEPT !.transport = x, !.failed = y].breach = e.breach
  BY DEF CountRecord
<1>2. /\ f \in [attempted : Int, transport : Int, failed : Int, breach : BOOLEAN]
      /\ f.attempted = e.attempted /\ f.transport = x /\ f.failed = y /\ f.breach = e.breach
  BY <1>1
<1> HIDE DEF f
<1>3. f = [attempted |-> e.attempted, transport |-> x, failed |-> y, breach |-> e.breach]
  BY <1>2
<1> QED
  BY <1>3 DEF f

LEMMA BreachSet ==
    ASSUME NEW e, e \in CountRecord
    PROVE [e EXCEPT !.breach = TRUE] =
              [attempted |-> e.attempted, transport |-> e.transport, failed |-> e.failed,
               breach |-> TRUE]
<1> DEFINE f == [e EXCEPT !.breach = TRUE]
<1>1. [e EXCEPT !.breach = TRUE] \in
          [attempted : Int, transport : Int, failed : Int, breach : BOOLEAN]
  BY DEF CountRecord
<1>2. [e EXCEPT !.breach = TRUE].attempted = e.attempted
  BY DEF CountRecord
<1>3. /\ [e EXCEPT !.breach = TRUE].transport = e.transport
      /\ [e EXCEPT !.breach = TRUE].failed = e.failed
  BY DEF CountRecord
<1>4. [e EXCEPT !.breach = TRUE].breach = TRUE
  BY DEF CountRecord
<1>5. /\ f \in [attempted : Int, transport : Int, failed : Int, breach : BOOLEAN]
      /\ f.attempted = e.attempted /\ f.transport = e.transport /\ f.failed = e.failed
      /\ f.breach = TRUE
  BY <1>1, <1>2, <1>3, <1>4
<1> HIDE DEF f
<1>6. f = [attempted |-> e.attempted, transport |-> e.transport, failed |-> e.failed,
           breach |-> TRUE]
  BY <1>5
<1> QED
  BY <1>6 DEF f

LEMMA EvidenceInit == Init => EvidenceOK
<1> SUFFICES ASSUME Init PROVE EvidenceOK
  OBVIOUS
<1>1. /\ evidence \in [Executed -> UNION {EvidenceOf(c) : c \in Executed}]
      /\ \A c \in Executed : evidence[c] \in EvidenceOf(c)
  BY DEF Init
<1>2. \A c \in Executed :
          evidence[c] = {} \/ \E e \in Counts(Attempts[c]) : evidence[c] = {e}
  BY <1>1 DEF EvidenceOf
<1>3. Executed # {}
  BY DEF Executed
<1> QED
  BY <1>1, <1>2, <1>3 DEF EvidenceOK

(* The one element of the evidence changes, and to what. *)
Replaced(c, e, f) ==
    /\ evidence[c] = {e} /\ evidence' = [evidence EXCEPT ![c] = {f}]
    /\ e \in Counts(Attempts[c]) /\ f \in Counts(Attempts[c])
    /\ f.attempted = e.attempted /\ e.attempted > 0
    /\ e.transport <= f.transport /\ e.transport + e.failed <= f.transport + f.failed
    /\ e.breach => f.breach
    /\ f.breach => e.breach \/ c = "performance"

LEMMA StepReplaces ==
    ASSUME EvidenceOK, Next
    PROVE /\ UNCHANGED <<database, tables, model, target, policy>>
          /\ findings \subseteq findings'
          /\ \/ evidence' = evidence
             \/ \E c \in Executed : \E e, f \in Counts(Attempts[c]) : Replaced(c, e, f)
<1>1. ASSUME NEW c \in Executed, CheckFails(c)
      PROVE \E e, f \in Counts(Attempts[c]) : Replaced(c, e, f)
  <2>1. PICK e \in evidence[c] :
            /\ e.transport + e.failed < e.attempted
            /\ evidence' = [evidence EXCEPT ![c] = {[e EXCEPT !.failed = @ + 1]}]
    BY <1>1 DEF CheckFails
  <2>2. e \in Counts(Attempts[c]) /\ evidence[c] = {e}
    BY DEF EvidenceOK
  <2> DEFINE f == [e EXCEPT !.failed = @ + 1]
  <2>3. f = [attempted |-> e.attempted, transport |-> e.transport, failed |-> e.failed + 1,
             breach |-> e.breach]
    BY <2>2, CountsAreNumbers
  <2>4. /\ e.failed + 1 \in 0..Attempts[c] /\ e.transport + (e.failed + 1) <= e.attempted
        /\ e.attempted > 0
    BY <2>1, <2>2, CountsAreNumbers
  <2>5. f \in Counts(Attempts[c])
    BY <2>2, <2>3, <2>4, CountsAreNumbers DEF Counts
  <2>6. evidence' = [evidence EXCEPT ![c] = {f}]
    BY <2>1
  <2> HIDE DEF f
  <2>7. Replaced(c, e, f)
    BY <2>2, <2>3, <2>4, <2>5, <2>6, CountsAreNumbers DEF Replaced
  <2> QED
    BY <2>2, <2>5, <2>7
<1>2. ASSUME NEW c \in Executed, TransportFails(c)
      PROVE \E e, f \in Counts(Attempts[c]) : Replaced(c, e, f)
  <2>1. PICK e \in evidence[c], checked \in {0, 1} :
            /\ e.transport < e.attempted
            /\ checked <= e.failed
            /\ checked = 0 => e.transport + e.failed < e.attempted
            /\ evidence' = [evidence EXCEPT ![c] =
                   {[e EXCEPT !.transport = @ + 1, !.failed = @ - checked]}]
    BY <1>2 DEF TransportFails
  <2>2. e \in Counts(Attempts[c]) /\ evidence[c] = {e}
    BY DEF EvidenceOK
  <2> DEFINE f == [e EXCEPT !.transport = @ + 1, !.failed = @ - checked]
  <2>3. f = [attempted |-> e.attempted, transport |-> e.transport + 1, failed |-> e.failed - checked,
             breach |-> e.breach]
    <3>1. e \in CountRecord /\ e.transport + 1 \in Int /\ e.failed - checked \in Int
      BY <2>2, CountsAreNumbers DEF CountRecord
    <3> QED
      BY <3>1, CountsReplaced, Zenon
  <2>4. /\ e.failed - checked \in 0..Attempts[c] /\ e.transport + 1 \in 0..Attempts[c]
        /\ (e.transport + 1) + (e.failed - checked) <= e.attempted
        /\ e.transport + e.failed <= (e.transport + 1) + (e.failed - checked)
        /\ e.attempted > 0
    BY <2>1, <2>2, CountsAreNumbers
  <2>5. f \in Counts(Attempts[c])
    BY <2>2, <2>3, <2>4, CountsAreNumbers DEF Counts
  <2>6. evidence' = [evidence EXCEPT ![c] = {f}]
    BY <2>1
  <2> HIDE DEF f
  <2>7. Replaced(c, e, f)
    BY <2>2, <2>3, <2>4, <2>5, <2>6, CountsAreNumbers DEF Replaced
  <2> QED
    BY <2>2, <2>5, <2>7
<1>3. ASSUME ThresholdMissed
      PROVE \E e, f \in Counts(Attempts["performance"]) : Replaced("performance", e, f)
  <2>1. PICK e \in evidence["performance"] :
            /\ e.attempted > 0
            /\ evidence' = [evidence EXCEPT !["performance"] = {[e EXCEPT !.breach = TRUE]}]
    BY <1>3 DEF ThresholdMissed
  <2>2. "performance" \in Executed
    BY DEF Executed
  <2>3. e \in Counts(Attempts["performance"]) /\ evidence["performance"] = {e}
    BY <2>2 DEF EvidenceOK
  <2> DEFINE f == [e EXCEPT !.breach = TRUE]
  <2>4. f = [attempted |-> e.attempted, transport |-> e.transport, failed |-> e.failed, breach |-> TRUE]
    <3>1. e \in CountRecord
      BY <2>2, <2>3, CountsAreNumbers DEF CountRecord
    <3> QED
      BY <3>1, BreachSet
  <2>5. f \in Counts(Attempts["performance"])
    BY <2>1, <2>2, <2>3, <2>4, CountsAreNumbers DEF Counts
  <2>6. Replaced("performance", e, f)
    BY <2>1, <2>2, <2>3, <2>4, <2>5, CountsAreNumbers DEF Replaced
  <2> QED
    BY <2>3, <2>5, <2>6
<1>4. "performance" \in Executed
  BY DEF Executed
<1> QED
  BY <1>1, <1>2, <1>3, <1>4 DEF Next, CheckFails, TransportFails, ThresholdMissed, RegressionFound

LEMMA EvidenceStep == EvidenceOK /\ [Next]_verdictVars => EvidenceOK'
<1> SUFFICES ASSUME EvidenceOK, Next PROVE EvidenceOK'
  BY DEF verdictVars, EvidenceOK
<1>1. CASE evidence' = evidence
  BY <1>1 DEF EvidenceOK
<1>2. ASSUME NEW c \in Executed, NEW e \in Counts(Attempts[c]), NEW f \in Counts(Attempts[c]),
             Replaced(c, e, f)
      PROVE EvidenceOK'
  BY <1>2 DEF Replaced, EvidenceOK
<1> QED
  BY <1>1, <1>2, StepReplaces

(* The evidence of a category is at most one result, its counts consistent. *)
THEOREM EvidenceInvariant == Spec => []EvidenceOK
  BY EvidenceInit, EvidenceStep, PTL DEF Spec

-----------------------------------------------------------------------------
(* The headlines. *)

(* Only what was executed can fail. *)
LEMMA StaticNeverFails ==
    /\ \A c \in DOMAIN static : static[c] # "fail"
    /\ category["database"] # "fail"
    /\ DOMAIN category = Executed \cup {"database"}
<1>1. category["database"] # "fail"
  BY DEF category, DatabaseCategory
<1>2. \A c \in DOMAIN static : static[c] # "fail"
  BY DEF static, StaticCategories, ProjectDiscovery, BuildHealth, Testability, ConfigurationHygiene,
     TestInfrastructure, FrontendHealth
<1>3. DOMAIN category = Executed \cup {"database"}
  BY DEF category, Executed
<1> QED
  BY <1>1, <1>2, <1>3

(* The two headlines never contradict each other (assessment/rules.py):
   nothing static can fail, so a failure in either is one of something executed. *)
THEOREM HeadlinesNeverDisagree == Spec => []HeadlinesAgree
<1>1. HeadlinesAgree
  <2> DEFINE executed == {category[c] : c \in Executed}
             all == {category[c] : c \in DOMAIN category} \cup {static[c] : c \in DOMAIN static}
  <2>1. executed \subseteq all /\ ("fail" \in all => "fail" \in executed)
    BY StaticNeverFails
  <2>2. overall_status = OverallStatus(all) /\ application_health = ApplicationHealth(executed)
    BY DEF overall_status, application_health
  <2> HIDE DEF executed, all
  <2> QED
    BY <2>1, <2>2 DEF HeadlinesAgree, OverallStatus, ApplicationHealth
<1> QED
  BY <1>1, PTL

-----------------------------------------------------------------------------
(* What one more failure does to the category statuses. *)

LEMMA OneResult == \A e : (CHOOSE c \in {e} : TRUE) = e
  OBVIOUS

LEMMA HealthWorsens ==
    ASSUME NEW n \in Nat, NEW e \in Counts(n), NEW f \in Counts(n),
           f.attempted = e.attempted, e.attempted > 0, e.transport <= f.transport,
           e.transport + e.failed <= f.transport + f.failed
    PROVE Worse(ExecutionHealth(e), ExecutionHealth(f))
<1>1. /\ e.attempted \in Int /\ e.transport \in Int /\ e.failed \in Int
      /\ f.attempted \in Int /\ f.transport \in Int /\ f.failed \in Int
      /\ f.transport <= f.attempted /\ f.failed >= 0
  BY DEF Counts
<1> QED
  BY <1>1 DEF Worse, ExecutionHealth

(* The status of an executed category, from its one result. *)
ResultGivesStatus ==
    \A c \in Executed :
        /\ evidence[c] = {} => /\ ExecutionCategory(evidence[c]) = "not_assessed"
                               /\ category[c] = "not_assessed"
        /\ \A e : evidence[c] = {e} =>
              /\ ExecutionCategory(evidence[c]) = ExecutionHealth(e)
              /\ category[c] = IF c = "performance" /\ ExecutionHealth(e) = "pass" /\ e.breach
                                THEN "warning" ELSE ExecutionHealth(e)

LEMMA ExecutedCategory == ResultGivesStatus
<1> SUFFICES ASSUME NEW c \in Executed
             PROVE /\ evidence[c] = {} => /\ ExecutionCategory(evidence[c]) = "not_assessed"
                                          /\ category[c] = "not_assessed"
                   /\ \A e : evidence[c] = {e} =>
                         /\ ExecutionCategory(evidence[c]) = ExecutionHealth(e)
                         /\ category[c] =
                               IF c = "performance" /\ ExecutionHealth(e) = "pass" /\ e.breach
                               THEN "warning" ELSE ExecutionHealth(e)
  BY DEF ResultGivesStatus
<1>1. c # "performance" => category[c] = ExecutionCategory(evidence[c])
  BY DEF category, Executed
<1>2. c = "performance" => category[c] = PerformanceCategory(evidence[c])
  BY DEF category
<1>3. evidence[c] = {} => ExecutionCategory(evidence[c]) = "not_assessed"
  BY DEF ExecutionCategory
<1>4. \A e : evidence[c] = {e} => ExecutionCategory(evidence[c]) = ExecutionHealth(e)
  BY OneResult DEF ExecutionCategory
<1>5. evidence[c] = {} => category[c] = "not_assessed"
  BY <1>1, <1>2, <1>3 DEF PerformanceCategory
<1>6. ASSUME NEW e, evidence[c] = {e}
      PROVE category[c] = IF c = "performance" /\ ExecutionHealth(e) = "pass" /\ e.breach
                          THEN "warning" ELSE ExecutionHealth(e)
  BY <1>1, <1>2, <1>4, <1>6 DEF PerformanceCategory
<1> QED
  BY <1>3, <1>4, <1>5, <1>6

LEMMA CategoriesWorsen ==
    ASSUME EvidenceOK, EvidenceOK', Next
    PROVE /\ static' = static
          /\ category["database"]' = category["database"]
          /\ \A c \in Executed : Worse(category[c], category[c]')
<1>1. UNCHANGED <<database, tables, model, target>>
  BY StepReplaces
<1>2. static' = static
  BY <1>1 DEF static
<1>3. category["database"]' = category["database"]
  BY <1>1 DEF category
<1>4. ASSUME NEW c \in Executed, evidence'[c] = evidence[c]
      PROVE category[c]' = category[c]
  BY <1>4 DEF category, Executed
<1>5. ResultGivesStatus'
  BY ExecutedCategory, PTL
<1>6. ASSUME NEW c \in Executed, NEW e \in Counts(Attempts[c]), NEW f \in Counts(Attempts[c]),
             Replaced(c, e, f)
      PROVE Worse(category[c], category[c]')
  <2>1. Attempts[c] \in Nat
    BY VerdictAssumption DEF VerdictAssumption
  <2>2. Worse(ExecutionHealth(e), ExecutionHealth(f))
    BY <1>6, <2>1, HealthWorsens DEF Replaced
  <2>3. evidence[c] = {e} /\ evidence'[c] = {f}
    BY <1>6 DEF Replaced, EvidenceOK
  <2>4. category[c] = IF c = "performance" /\ ExecutionHealth(e) = "pass" /\ e.breach
                      THEN "warning" ELSE ExecutionHealth(e)
    BY <2>3, ExecutedCategory DEF ResultGivesStatus
  <2>5. category[c]' = IF c = "performance" /\ ExecutionHealth(f) = "pass" /\ f.breach
                       THEN "warning" ELSE ExecutionHealth(f)
    BY <2>3, <1>5 DEF ResultGivesStatus
  <2>6. e.breach => f.breach
    BY <1>6 DEF Replaced
  <2> QED
    BY <2>2, <2>4, <2>5, <2>6 DEF Worse
<1>7. ASSUME NEW c \in Executed PROVE Worse(category[c], category[c]')
  <2>1. CASE evidence' = evidence
    BY <2>1, <1>4 DEF Worse
  <2>2. ASSUME NEW d \in Executed, NEW e \in Counts(Attempts[d]), NEW f \in Counts(Attempts[d]),
               Replaced(d, e, f)
        PROVE Worse(category[c], category[c]')
    <3>1. CASE c = d
      BY <1>6, <2>2, <3>1
    <3>2. CASE c # d
      <4>1. evidence'[c] = evidence[c]
        BY <2>2, <3>2 DEF Replaced, EvidenceOK
      <4> QED
        BY <1>4, <4>1 DEF Worse
    <3> QED
      BY <3>1, <3>2
  <2> QED
    BY <2>1, <2>2, StepReplaces
<1> QED
  BY <1>2, <1>3, <1>7

-----------------------------------------------------------------------------
(* Severity of the headlines. *)

(* A set of statuses after more went wrong. *)
Worsened(S, T) ==
    /\ "fail" \in S => "fail" \in T
    /\ "warning" \in S => "warning" \in T \/ "fail" \in T
    /\ "fail" \notin T /\ "warning" \notin T => T = S

LEMMA SeverityGrows ==
    ASSUME NEW S, NEW T, Worsened(S, T)
    PROVE /\ Severity[OverallStatus(S)] <= Severity[OverallStatus(T)]
          /\ Severity[ApplicationHealth(S)] <= Severity[ApplicationHealth(T)]
          /\ OverallStatus(S) \in DOMAIN Severity
  BY DEF Worsened, Severity, OverallStatus, ApplicationHealth

LEMMA HeadlinesWorsen ==
    ASSUME EvidenceOK, EvidenceOK', Next
    PROVE /\ Severity[overall_status] <= Severity[overall_status']
          /\ Severity[application_health] <= Severity[application_health']
          /\ overall_status \in DOMAIN Severity /\ overall_status' \in DOMAIN Severity
<1> DEFINE K == {category["database"]} \cup {static[c] : c \in DOMAIN static}
           S == {category[c] : c \in Executed} \cup K
           T == {category'[c] : c \in Executed} \cup K
           E == {category[c] : c \in Executed}
           F == {category'[c] : c \in Executed}
<1>1. \A c \in Executed : Worse(category[c], category'[c])
  BY CategoriesWorsen
<1>2. Worsened(S, T) /\ Worsened(E, F)
  <2> HIDE DEF K
  <2>1. "fail" \in S => "fail" \in T
    BY <1>1 DEF Worse
  <2>2. "warning" \in S => "warning" \in T \/ "fail" \in T
    BY <1>1 DEF Worse
  <2>3. ASSUME "fail" \notin T, "warning" \notin T PROVE T = S
    <3>1. \A c \in Executed : category'[c] = category[c]
      BY <1>1, <2>3 DEF Worse
    <3> QED
      BY <3>1
  <2>4. "fail" \in E => "fail" \in F
    BY <1>1 DEF Worse
  <2>5. "warning" \in E => "warning" \in F \/ "fail" \in F
    BY <1>1 DEF Worse
  <2>6. ASSUME "fail" \notin F, "warning" \notin F PROVE F = E
    <3>1. \A c \in Executed : category'[c] = category[c]
      BY <1>1, <2>6 DEF Worse
    <3> QED
      BY <3>1
  <2> QED
    BY <2>1, <2>2, <2>3, <2>4, <2>5, <2>6 DEF Worsened
<1>3. overall_status = OverallStatus(S)
  <2>1. {category[c] : c \in DOMAIN category} \cup {static[c] : c \in DOMAIN static} = S
    BY StaticNeverFails
  <2> QED
    BY <2>1 DEF overall_status
<1>4. overall_status' = OverallStatus(T)
  <2>1. (DOMAIN category = Executed \cup {"database"})'
    BY StaticNeverFails, PTL
  <2>2. {category'[c] : c \in DOMAIN category'} \cup {static'[c] : c \in DOMAIN static'} = T
    BY <2>1, CategoriesWorsen
  <2> QED
    BY <2>2 DEF overall_status
<1>5. application_health = ApplicationHealth(E) /\ application_health' = ApplicationHealth(F)
  BY DEF application_health
<1> HIDE DEF K, S, T, E, F
<1>6. OverallStatus(T) \in DOMAIN Severity
  BY DEF OverallStatus, Severity
<1> QED
  BY <1>2, <1>3, <1>4, <1>5, <1>6, SeverityGrows

(* More failures never improve the overall status or the application health:
   assessment/rules.py, overall_status and the function for the application's
   health. *)
THEOREM WorseLooksWorse == Spec => WorseNeverLooksBetter
<1>1. ASSUME EvidenceOK, EvidenceOK', [Next]_verdictVars
      PROVE [/\ Severity[overall_status] <= Severity[overall_status']
             /\ Severity[application_health] <= Severity[application_health']]_verdictVars
  BY <1>1, HeadlinesWorsen
<1> QED
  BY <1>1, EvidenceInvariant, PTL DEF Spec, WorseNeverLooksBetter

-----------------------------------------------------------------------------
(* The gate. *)

ErrorRule ==
    gate = "error" <=>
        \E c \in {"functional", "performance"} :
            category[c] = "fail" /\ <<c, "unreachable">> \notin policy.fail_on \cup policy.warn_on

LEMMA UnreachableTargets ==
    /\ EvidenceOK =>
          \A c \in {"functional", "performance"} :
              category[c] = "fail" <=>
                  \E e \in evidence[c] : e.attempted > 0 /\ e.transport = e.attempted
    /\ ErrorRule
<1>1. ASSUME EvidenceOK, NEW c \in {"functional", "performance"}
      PROVE category[c] = "fail" <=>
                \E e \in evidence[c] : e.attempted > 0 /\ e.transport = e.attempted
  <2>0. c \in Executed
    BY DEF Executed
  <2>1. CASE evidence[c] = {}
    BY <2>0, <2>1, ExecutedCategory DEF ResultGivesStatus
  <2>2. CASE \E e \in Counts(Attempts[c]) : evidence[c] = {e}
    <3>1. PICK e \in Counts(Attempts[c]) : evidence[c] = {e}
      BY <2>2
    <3>2. category[c] = "fail" <=> ExecutionHealth(e) = "fail"
      BY <2>0, <3>1, ExecutedCategory DEF ResultGivesStatus
    <3>3. e.attempted \in Int /\ e.transport \in Int /\ e.attempted >= 0
      BY <2>0, CountsAreNumbers
    <3>4. ExecutionHealth(e) = "fail" <=> e.attempted > 0 /\ e.transport = e.attempted
      BY <3>3 DEF ExecutionHealth
    <3> QED
      BY <3>1, <3>2, <3>4
  <2> QED
    BY <1>1, <2>0, <2>1, <2>2 DEF EvidenceOK
<1>2. gate = "error" <=>
          \E s \in InfraSignals(category) : s \notin policy.fail_on \cup policy.warn_on
  BY DEF gate, GateStatus, Classify
<1>3. \A s : s \in InfraSignals(category) <=>
          \E c \in {"functional", "performance"} : category[c] = "fail" /\ s = <<c, "unreachable">>
  BY DEF InfraSignals
<1> QED
  BY <1>1, <1>2, <1>3 DEF ErrorRule

(* Exit code 3 is for a target nobody could reach (quality_gate/engine.py,
   evaluate), whatever was executed and whatever the policy says. *)
THEOREM ErrorIsUnreachable == Spec => []ErrorMeansUnreachable
<1>1. EvidenceOK => ErrorMeansUnreachable
  BY UnreachableTargets DEF ErrorMeansUnreachable, ErrorRule
<1> QED
  BY <1>1, EvidenceInvariant, PTL

-----------------------------------------------------------------------------
(* A blocked build. *)

Blocking == {"fail", "error"}

(* The signals about quality, and what the policy makes of them. *)
quality ==
    QualitySignals(category, overall_status, {{<<"regression", r>> : r \in findings}})
BlockingRule == (\E s \in quality : s \in policy.fail_on) => gate \in Blocking
SignalRule ==
    \A s : s \in quality <=>
        \/ category["functional"] = "warning" /\ s = <<"functional", "failure">>
        \/ category["performance"] = "warning" /\ s = <<"performance", "threshold">>
        \/ category["database"] = "not_assessed" /\ s = <<"database", "not_assessed">>
        \/ \E r \in findings : s = <<"regression", r>>
        \/ s = <<"assessment", overall_status>>

LEMMA GateMeaning ==
    /\ gate \in {"pass", "warning", "fail", "error"}
    /\ ExitCode[gate] # 0 <=> gate \in Blocking
    /\ gate = "fail" => \E s \in quality \cup InfraSignals(category) : s \in policy.fail_on
    /\ BlockingRule
<1> DEFINE infra == InfraSignals(category)
<1>1. gate = GateStatus(infra, quality, policy)
  BY DEF gate, quality
<1> HIDE DEF infra
<1>2. gate \in {"pass", "warning", "fail", "error"}
  BY <1>1 DEF GateStatus
<1>3. ExitCode[gate] # 0 <=> gate \in Blocking
  BY <1>2 DEF ExitCode, Blocking
<1>4. gate = "fail" => \E s \in quality \cup infra : s \in policy.fail_on
  BY <1>1 DEF GateStatus, Classify
<1>5. (\E s \in quality : s \in policy.fail_on) => gate \in Blocking
  BY <1>1 DEF GateStatus, Classify, Blocking
<1> QED
  BY <1>2, <1>3, <1>4, <1>5 DEF BlockingRule, infra

LEMMA QualityMeaning == SignalRule
<1>1. DOMAIN WarningSignal = {"functional", "performance"}
  BY DEF WarningSignal
<1>2. /\ WarningSignal["functional"] = <<"functional", "failure">>
      /\ WarningSignal["performance"] = <<"performance", "threshold">>
  BY DEF WarningSignal
<1>3. UNION {{<<"regression", r>> : r \in findings}} = {<<"regression", r>> : r \in findings}
  OBVIOUS
<1> QED
  BY <1>1, <1>2, <1>3 DEF QualitySignals, SignalRule, quality

(* A build the gate blocks stays blocked when more goes wrong (quality_gate/
   engine.py, evaluate), for every policy that leaves unreachable targets to
   the gate and does not single out a milder overall status. *)
THEOREM BlockedIsFinal == Spec => BlockedStaysBlocked
<1>1. ASSUME EvidenceOK, EvidenceOK', Next, NoInfraRule, ClosedUpwards, gate \in Blocking
      PROVE gate' \in Blocking
  <2>1. /\ policy' = policy /\ findings \subseteq findings'
    BY <1>1, StepReplaces
  <2>2. "functional" \in Executed /\ "performance" \in Executed
    BY DEF Executed
  <2>3. /\ Worse(category["functional"], category'["functional"])
        /\ Worse(category["performance"], category'["performance"])
        /\ category'["database"] = category["database"]
    BY <1>1, <2>2, CategoriesWorsen
  <2>4. ASSUME NEW c \in {"functional", "performance"}, category'[c] = "fail"
        PROVE gate' = "error"
    <3>1. <<c, "unreachable">> \notin policy.fail_on \cup policy.warn_on
      BY <1>1 DEF NoInfraRule
    <3>2. ErrorRule'
      BY UnreachableTargets, PTL
    <3> QED
      BY <2>1, <2>4, <3>1, <3>2 DEF ErrorRule
  <2>5. CASE gate = "error"
    <3>1. PICK c \in {"functional", "performance"} : category[c] = "fail"
      BY <2>5, UnreachableTargets DEF ErrorRule
    <3>2. category'[c] = "fail"
      BY <2>3, <3>1 DEF Worse
    <3> QED
      BY <2>4, <3>2 DEF Blocking
  <2>6. CASE gate = "fail"
    <3>1. PICK s \in policy.fail_on : s \in quality \/ s \in InfraSignals(category)
      BY <2>6, GateMeaning
    <3>2. s \notin InfraSignals(category)
      BY <1>1, <3>1 DEF NoInfraRule, InfraSignals
    <3>3. \/ category["functional"] = "warning" /\ s = <<"functional", "failure">>
          \/ category["performance"] = "warning" /\ s = <<"performance", "threshold">>
          \/ category["database"] = "not_assessed" /\ s = <<"database", "not_assessed">>
          \/ \E r \in findings : s = <<"regression", r>>
          \/ s = <<"assessment", overall_status>>
      BY <3>1, <3>2, QualityMeaning DEF SignalRule
    <3>4. CASE \E c \in {"functional", "performance"} : category'[c] = "fail"
      BY <2>4, <3>4 DEF Blocking
    <3>5. CASE \A c \in {"functional", "performance"} : category'[c] # "fail"
      <4> DEFINE Signal(t) ==
              \/ category'["functional"] = "warning" /\ t = <<"functional", "failure">>
              \/ category'["performance"] = "warning" /\ t = <<"performance", "threshold">>
              \/ category'["database"] = "not_assessed" /\ t = <<"database", "not_assessed">>
              \/ \E r \in findings' : t = <<"regression", r>>
              \/ t = <<"assessment", overall_status'>>
      <4>1. s = <<"assessment", overall_status>> =>
                <<"assessment", overall_status'>> \in policy.fail_on
        BY <1>1, <3>1, HeadlinesWorsen DEF ClosedUpwards
      <4>2. \E t : Signal(t) /\ t \in policy.fail_on
        BY <2>1, <2>3, <3>1, <3>3, <3>5, <4>1 DEF Worse
      <4>3. SignalRule' /\ BlockingRule'
        BY QualityMeaning, GateMeaning, PTL
      <4> QED
        BY <2>1, <4>2, <4>3 DEF SignalRule, BlockingRule
    <3> QED
      BY <3>4, <3>5
  <2> QED
    BY <1>1, <2>5, <2>6 DEF Blocking
<1>2. ExitCode[gate] # 0 <=> gate \in Blocking
  BY GateMeaning
<1>3. (ExitCode[gate] # 0 <=> gate \in Blocking)'
  BY <1>2, PTL
<1>4. ASSUME EvidenceOK, EvidenceOK', [Next]_verdictVars
      PROVE [NoInfraRule /\ ClosedUpwards /\ ExitCode[gate] # 0 => ExitCode[gate'] # 0]_verdictVars
  BY <1>1, <1>2, <1>3, <1>4
<1> QED
  BY <1>4, EvidenceInvariant, PTL DEF Spec, BlockedStaysBlocked
=============================================================================
