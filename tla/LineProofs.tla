----------------------------- MODULE LineProofs -----------------------------
(***************************************************************************)
(* Proofs about single bill lines in Projection, for any bill, catalogue   *)
(* and answers of the agents: a credit stays out of the projection, and a  *)
(* mapped line keeps its price, whichever scripts fail on the way.         *)
(***************************************************************************)
EXTENDS ReportProofs

-----------------------------------------------------------------------------
(* The order of what is still to come.                                     *)

\* No y comes behind an x.
NoneBehind(s, x, y) == \A i \in 1 .. Len(s) : s[i] = x => \A j \in i + 1 .. Len(s) : s[j] # y

\* What a job does at most once.
Once == {"mapping_coverage", "review_agent", "triage_agent"}

\* What comes after apply_rates.py.
LateScripts ==
    {"apply_rates", "validate_fix", "no_null_projected_cost", "detect_outliers", "auto_triage",
     "incremental_rerate", "triage_agent", "directives_from_legacy", "apply_directives",
     "apply_outlier_fixes", "outlier_gate", "over_and_under_projection"}

\* What is left out with the review agent ends at apply_rates.py.
ReviewThenRates(s, n) ==
    \A i \in 1 .. Len(s) :
        s[i] = "review_agent" => i + n <= Len(s) /\ s[i + n] = "apply_rates"

PlanApart ==
    /\ \A x \in Once : NoneBehind(todo, x, x)
    /\ NoneBehind(todo, "triage_agent", "apply_rates")
    /\ ReviewThenRates(todo, Len(PostReview(layer)) + 2)
    /\ recalcs = 0 => Behind(todo, LateScripts, "apply_rates")

\* t is what is left of s without its first m scripts, behind p others.
Resumes(t, s, p, m) ==
    /\ t \in Seq(ScriptNames) /\ p \in 0 .. Len(t) /\ m \in Nat \ {0}
    /\ t = <<>> \/ Len(t) - p = Len(s) - m
    /\ \A i \in p + 1 .. Len(t) : i - p + m <= Len(s) /\ t[i] = s[i - p + m]

LEMMA TailResumes ==
    ASSUME NEW s \in Seq(ScriptNames), s # <<>>
    PROVE  Resumes(Tail(s), s, 0, 1)
BY TailOf DEF Resumes

LEMMA NothingResumes == ASSUME NEW s PROVE Resumes(<<>>, s, 0, 1)
BY Tuples DEF Resumes

LEMMA SuffixResumes ==
    ASSUME NEW s \in Seq(ScriptNames), NEW m \in Nat \ {0}
    PROVE  Resumes(SubSeq(s, m + 1, Len(s)), s, 0, m)
<1>1. CASE m < Len(s)
  BY <1>1 DEF Resumes
<1>2. CASE m >= Len(s)
  <2>1. SubSeq(s, m + 1, Len(s)) = <<>>
    BY <1>2
  <2>2. <<>> \in Seq(ScriptNames) /\ Len(<<>>) = 0
    BY Tuples
  <2>3. QED
    BY <2>1, <2>2 DEF Resumes
<1>3. QED
  BY <1>1, <1>2

LEMMA ConcatResumes ==
    ASSUME NEW s \in Seq(ScriptNames), s # <<>>, NEW first \in Seq(ScriptNames)
    PROVE  /\ Resumes(first \o Tail(s), s, Len(first), 1)
           /\ \A i \in 1 .. Len(first) : (first \o Tail(s))[i] = first[i]
<1>1. Tail(s) \in Seq(ScriptNames) /\ Len(Tail(s)) = Len(s) - 1 /\ Len(s) \in Nat \ {0}
      /\ \A i \in 1 .. Len(s) - 1 : Tail(s)[i] = s[i + 1]
  BY TailOf
<1> DEFINE t == Tail(s)
<1> HIDE DEF t
<1>2. /\ first \o t \in Seq(ScriptNames) /\ Len(first) \in Nat /\ Len(first \o t) = Len(first) + Len(t)
      /\ \A i \in 1 .. Len(first) : (first \o t)[i] = first[i]
      /\ \A i \in Len(first) + 1 .. Len(first) + Len(t) : (first \o t)[i] = t[i - Len(first)]
  BY <1>1, ConcatOf DEF t
<1> DEFINE u == first \o t
<1> HIDE DEF u
<1>3. /\ u \in Seq(ScriptNames) /\ Len(u) = Len(first) + Len(t) /\ Len(first) \in Nat
      /\ \A i \in Len(first) + 1 .. Len(u) : u[i] = t[i - Len(first)]
  BY <1>2 DEF u
<1>4. Len(t) = Len(s) - 1 /\ Len(s) \in Nat \ {0} /\ \A i \in 1 .. Len(s) - 1 : t[i] = s[i + 1]
  BY <1>1 DEF t
<1>5. ASSUME NEW i \in Len(first) + 1 .. Len(u)
      PROVE  i - Len(first) + 1 <= Len(s) /\ u[i] = s[i - Len(first) + 1]
  <2>1. i - Len(first) \in 1 .. Len(s) - 1
    BY <1>3, <1>4
  <2>2. QED
    BY <2>1, <1>3, <1>4
<1>6. Resumes(u, s, Len(first), 1)
  BY <1>3, <1>4, <1>5 DEF Resumes
<1>7. QED
  BY <1>2, <1>6 DEF u, t

\* What stays as it was: the order of two scripts, and what the review skips.
LEMMA ResumesApart ==
    ASSUME NEW s \in Seq(ScriptNames), NEW t, NEW p, NEW m, Resumes(t, s, p, m),
           NEW x, \A i \in 1 .. p : t[i] # x
    PROVE  /\ Has(t, x) => Has(s, x)
           /\ \A y : NoneBehind(s, x, y) => NoneBehind(t, x, y)
           /\ NoneBehind(s, x, x) /\ s[1] = x => ~Has(t, x)
           /\ x = "review_agent" =>
                  \A n \in Nat : ReviewThenRates(s, n) => ReviewThenRates(t, n)
<1>0. p \in Nat /\ m \in Nat \ {0} /\ Len(t) \in Nat /\ Len(s) \in Nat
  BY DEF Resumes
<1>1. ASSUME NEW i \in 1 .. Len(t), t[i] = x
      PROVE  i - p + m \in m + 1 .. Len(s) /\ s[i - p + m] = x /\ Len(t) - p = Len(s) - m
  <2>1. i > p
    BY <1>0, <1>1
  <2>2. i - p + m <= Len(s) /\ t[i] = s[i - p + m] /\ t # <<>>
    BY <2>1, <1>0, <1>1 DEF Resumes
  <2>3. Len(t) - p = Len(s) - m
    BY <2>2 DEF Resumes
  <2>4. QED
    BY <2>1, <2>2, <2>3, <1>0, <1>1
<1>2. ASSUME NEW i \in 1 .. Len(t), t[i] = x, NEW j \in i + 1 .. Len(t)
      PROVE  j - p + m \in i - p + m + 1 .. Len(s) /\ t[j] = s[j - p + m]
  BY <1>0, <1>1, <1>2 DEF Resumes
<1>3. ASSUME Has(t, x) PROVE Has(s, x)
  <2>1. PICK i \in 1 .. Len(t) : t[i] = x
    BY <1>3 DEF Has
  <2>2. i - p + m \in 1 .. Len(s) /\ s[i - p + m] = x
    BY <1>0, <1>1, <2>1
  <2>3. QED
    BY <2>2 DEF Has
<1>4. ASSUME NEW y, NoneBehind(s, x, y) PROVE NoneBehind(t, x, y)
  <2> SUFFICES ASSUME NEW i \in 1 .. Len(t), t[i] = x, NEW j \in i + 1 .. Len(t), t[j] = y
               PROVE  FALSE
    BY DEF NoneBehind
  <2>1. i - p + m \in 1 .. Len(s) /\ s[i - p + m] = x
    BY <1>0, <1>1
  <2>2. j - p + m \in i - p + m + 1 .. Len(s) /\ s[j - p + m] = y
    BY <1>2
  <2>3. QED
    BY <1>4, <2>1, <2>2 DEF NoneBehind
<1>5. ASSUME NoneBehind(s, x, x), s[1] = x, Has(t, x) PROVE FALSE
  <2>1. PICK i \in 1 .. Len(t) : t[i] = x
    BY <1>5 DEF Has
  <2>2. i - p + m \in 2 .. Len(s) /\ s[i - p + m] = x
    BY <1>0, <1>1, <2>1
  <2>3. 1 \in 1 .. Len(s)
    BY <1>0, <2>2
  <2>4. QED
    BY <1>5, <2>2, <2>3 DEF NoneBehind
<1>6. ASSUME x = "review_agent", NEW n \in Nat, ReviewThenRates(s, n) PROVE ReviewThenRates(t, n)
  <2> SUFFICES ASSUME NEW i \in 1 .. Len(t), t[i] = x
               PROVE  i + n <= Len(t) /\ t[i + n] = "apply_rates"
    BY <1>6 DEF ReviewThenRates
  <2>1. /\ i - p + m \in 1 .. Len(s) /\ s[i - p + m] = x /\ Len(t) - p = Len(s) - m
    BY <1>0, <1>1
  <2>2. i - p + m + n <= Len(s) /\ s[i - p + m + n] = "apply_rates"
    BY <1>6, <2>1 DEF ReviewThenRates
  <2>3. i > p
    BY <1>0
  <2>4. i + n \in p + 1 .. Len(t)
    BY <1>0, <2>1, <2>2, <2>3
  <2>5. t[i + n] = s[i + n - p + m]
    BY <2>4 DEF Resumes
  <2>6. i + n - p + m = i - p + m + n
    BY <1>0
  <2>7. QED
    BY <2>2, <2>4, <2>5, <2>6
<1>7. QED
  BY <1>3, <1>4, <1>5, <1>6

\* Unless everything is given up, the rest of s is still to come.
LEMMA ResumesHas ==
    ASSUME NEW s \in Seq(ScriptNames), NEW t, NEW p, NEW m, Resumes(t, s, p, m),
           Len(t) - p = Len(s) - m, NEW k \in m + 1 .. Len(s)
    PROVE  k - m + p \in p + 1 .. Len(t) /\ t[k - m + p] = s[k] /\ Has(t, s[k])
<1>0. p \in Nat /\ m \in Nat \ {0} /\ Len(t) \in Nat /\ Len(s) \in Nat
  BY DEF Resumes
<1>1. k - m + p \in p + 1 .. Len(t) /\ k - m + p - p + m = k
  BY <1>0
<1>2. t[k - m + p] = s[k - m + p - p + m]
  BY <1>1 DEF Resumes
<1>3. QED
  BY <1>0, <1>1, <1>2 DEF Has

\* New scripts come before the rest: of S, or where an x is to come anyway.
LEMMA ResumesBehind ==
    ASSUME NEW s \in Seq(ScriptNames), s # <<>>, NEW t, NEW p, NEW m, Resumes(t, s, p, m),
           NEW S, NEW x, Behind(s, S, x),
           p = 0 \/ (m = 1 /\ (s[1] \notin S \/ \A i \in 1 .. p : t[i] \in S))
    PROVE  Behind(t, S, x)
<1>0. p \in Nat /\ m \in Nat \ {0} /\ Len(t) \in Nat /\ Len(s) \in Nat \ {0} /\ p <= Len(t)
  BY TailOf DEF Resumes
<1> SUFFICES ASSUME NEW i \in 1 .. Len(t), t[i] \notin S
             PROVE  \E j \in i + 1 .. Len(t) : t[j] = x
  BY DEF Behind
<1>1. t # <<>> /\ Len(t) - p = Len(s) - m
  BY DEF Resumes
<1>2. CASE i > p
  <2>1. i - p + m \in 1 .. Len(s) /\ s[i - p + m] \notin S
    BY <1>0, <1>1, <1>2 DEF Resumes
  <2>2. PICK k \in i - p + m + 1 .. Len(s) : s[k] = x
    BY <2>1 DEF Behind
  <2>3. k \in m + 1 .. Len(s)
    BY <1>0, <1>2, <2>2
  <2>4. t[k - m + p] = x /\ k - m + p \in p + 1 .. Len(t)
    BY <1>1, <2>2, <2>3, ResumesHas
  <2>5. k - m + p \in i + 1 .. Len(t)
    BY <1>0, <2>2, <2>4
  <2>6. QED
    BY <2>4, <2>5
<1>3. CASE i <= p
  <2>1. m = 1 /\ s[1] \notin S /\ 1 \in 1 .. Len(s)
    BY <1>0, <1>3
  <2>2. PICK k \in 2 .. Len(s) : s[k] = x
    BY <2>1 DEF Behind
  <2>3. t[k - m + p] = x /\ k - m + p \in p + 1 .. Len(t)
    BY <1>1, <2>1, <2>2, ResumesHas
  <2>4. k - m + p \in i + 1 .. Len(t)
    BY <1>0, <1>3, <2>3
  <2>5. QED
    BY <2>3, <2>4
<1>4. QED
  BY <1>0, <1>2, <1>3

-----------------------------------------------------------------------------
(* A step of the plan.                                                     *)

\* The first m scripts are done with or left out; p others come first, none of
\* which asks an agent or prices anew.
Moves(p, m) ==
    /\ todo # <<>> /\ p \in Nat /\ Resumes(todo', todo, p, m)
    /\ \A i \in 1 .. p : todo'[i] \notin Once \cup {"apply_rates"}
    /\ p = 0 \/ (m = 1 /\ (todo[1] \notin LateScripts \/ \A i \in 1 .. p : todo'[i] \in LateScripts))

LEMMA PostStepsLate ==
    ASSUME NEW on \in BOOLEAN
    PROVE  /\ \A post \in {PostMapping(on), PostReview(on), PostRates, PostTriage(on)} :
                 Free(post, Once \cup {"apply_rates"})
           /\ \A i \in 1 .. Len(PostTriage(on)) : PostTriage(on)[i] \in LateScripts
           /\ \A i \in 1 .. Len(PostRates) : PostRates[i] \in LateScripts
<1> DEFINE Asked == Once \cup {"apply_rates"}
           Early == ScriptNames \ LateScripts
           merged == <<"merge_mappings", "service_classifier", "fix_storage_misroute">>
           rerated == <<"incremental_rerate", "validate_fix", "outlier_gate">>
           told == IF on THEN ByDirectives ELSE <<>>
           fixed == IF on THEN ByDirectives ELSE <<"apply_outlier_fixes">>
<1>1. /\ ByDirectives \in Seq(ScriptNames) /\ <<>> \in Seq(ScriptNames)
      /\ merged \in Seq(ScriptNames) /\ <<"reconcile_capacity">> \in Seq(ScriptNames)
      /\ <<"apply_outlier_fixes">> \in Seq(ScriptNames) /\ rerated \in Seq(ScriptNames)
  BY Tuples DEF ByDirectives, ScriptNames
<1>2. /\ Free(ByDirectives, Asked) /\ Free(<<>>, Asked) /\ Free(<<"reconcile_capacity">>, Asked)
      /\ Free(<<"apply_review_fixes">>, Asked) /\ Free(<<"apply_outlier_fixes">>, Asked)
      /\ Free(PostRates, Asked)
  BY DEF ByDirectives, PostRates, Free, Once
<1>3. Free(merged, Asked) /\ Free(rerated, Asked)
  BY DEF Free, Once
<1>4. /\ Free(ByDirectives, Early) /\ Free(<<"apply_outlier_fixes">>, Early) /\ Free(rerated, Early)
  BY DEF ByDirectives, Free, LateScripts
<1>5. PostMapping(on) = (merged \o told) \o <<"reconcile_capacity">>
  BY Zenon DEF PostMapping
<1>5a. PostTriage(on) = fixed \o rerated
  BY Zenon DEF PostTriage
<1> HIDE DEF Asked, Early, merged, rerated
<1>6. /\ told \in Seq(ScriptNames) /\ Free(told, Asked)
      /\ fixed \in Seq(ScriptNames) /\ Free(fixed, Asked) /\ Free(fixed, Early)
  BY <1>1, <1>2, <1>4
<1> HIDE DEF told, fixed
<1>7. merged \o told \in Seq(ScriptNames) /\ Free(merged \o told, Asked)
  BY <1>1, <1>3, <1>6, FreeConcat
<1> DEFINE mapped == merged \o told
<1>8. mapped \in Seq(ScriptNames) /\ Free(mapped, Asked)
      /\ PostMapping(on) = mapped \o <<"reconcile_capacity">>
  BY <1>5, <1>7
<1> DEFINE last == <<"reconcile_capacity">>
<1>8a. last \in Seq(ScriptNames) /\ Free(last, Asked) /\ PostMapping(on) = mapped \o last
  BY <1>1, <1>2, <1>8
<1> HIDE DEF mapped, last
<1>9. Free(PostMapping(on), Asked)
  BY <1>8, <1>8a, FreeConcat
<1>10. Free(PostTriage(on), Asked) /\ Free(PostTriage(on), Early) /\ PostTriage(on) \in Seq(ScriptNames)
  BY <1>1, <1>3, <1>4, <1>5a, <1>6, FreeConcat
<1>11. Free(PostReview(on), Asked)
  BY <1>2 DEF PostReview
<1>12. \A i \in 1 .. Len(PostTriage(on)) : PostTriage(on)[i] \in LateScripts
  BY <1>10 DEF Free, Early
<1>13. \A i \in 1 .. Len(PostRates) : PostRates[i] \in LateScripts
  BY DEF PostRates, LateScripts
<1>14. QED
  BY <1>2, <1>9, <1>10, <1>11, <1>12, <1>13 DEF Asked

LEMMA PlanSteps ==
    ASSUME RunScript
    PROVE  \/ todo # <<>> /\ todo' = Tail(todo)
           \/ todo' = <<>> /\ (status' = "failed" \/ todo = <<>>)
           \/ RetryAgent \/ CoverageAfterRetry
           \/ NoIllegalPassthroughs \/ NoNullProjectedCost \/ OverAndUnderProjection
           \/ ReviewAgentBlocked \/ TriageAgentBlocked
BY DEF RunScript, ScriptFails, Classify, ApplyCommitmentIgnores, ApplyStaticMappings, MappingAgent,
       MappingAgentBlocked, MergeMappings, MergeMappingsRollsBack, ServiceClassifier,
       FixStorageMisroute, ReconcileCapacity, DirectivesFromLegacy, ApplyDirectives, GateNotEvaluated,
       CoverageGate, CoveragePasses, RetryAgentBlocked, EnsureFullCoverage, CoverageAtLast, AutoReview, ReviewAgent,
       ApplyReviewFixes, NoIllegalPassthroughsBlocked, ApplyRates, ValidateFix, ValidateFixDies,
       NoNullProjectedCostBlocked, DetectOutliers, AutoTriage, IncrementalRerate, TriageAgent,
       ApplyOutlierFixes, OutlierGate, OverAndUnderProjectionBlocked, Finish, Rewrite, Reprice,
       SoftGateBlocked, Continue, Skip, Fail, At

LEMMA PlanMoves ==
    ASSUME IInv, RunScript
    PROVE  \/ todo' = <<>> /\ (status' = "failed" \/ todo = <<>>)
           \/ \E p \in Nat : Moves(p, 1) /\ Len(todo') - p = Len(todo) - 1
           \/ ReviewAgentBlocked /\ Moves(0, Len(PostReview(layer)) + 2)
           \/ TriageAgentBlocked /\ \E m \in Nat : Moves(0, m)
<1> DEFINE Onward == \E p \in Nat : Moves(p, 1) /\ Len(todo') - p = Len(todo) - 1
<1>1. todo \in Seq(ScriptNames) /\ layer \in BOOLEAN
  BY DEF IInv, FlowTyped, PlanOrdered, Ordered
<1>2. ASSUME todo # <<>>, todo' = Tail(todo) PROVE Onward
  <2>1. Moves(0, 1)
    BY <1>1, <1>2, TailResumes DEF Moves
  <2>2. Len(todo') - 0 = Len(todo) - 1
    BY <1>1, <1>2, TailOf
  <2>3. QED
    BY <2>1, <2>2
<1>3. ASSUME NEW first \in Seq(ScriptNames), Free(first, Once \cup {"apply_rates"}),
             todo # <<>>, todo' = first \o Tail(todo),
             todo[1] \notin LateScripts \/ \A i \in 1 .. Len(first) : first[i] \in LateScripts
      PROVE  Onward
  <2>1. /\ Resumes(todo', todo, Len(first), 1) /\ Len(first) \in Nat
        /\ \A i \in 1 .. Len(first) : todo'[i] = first[i]
    BY <1>1, <1>3, ConcatResumes
  <2>2. Moves(Len(first), 1)
    BY <1>3, <2>1 DEF Moves, Free
  <2>3. Len(todo') - Len(first) = Len(todo) - 1
    <3>1. Tail(todo) \in Seq(ScriptNames) /\ Len(Tail(todo)) = Len(todo) - 1
      BY <1>1, <1>3, TailOf
    <3>2. Len(todo') = Len(first) + Len(Tail(todo)) /\ Len(Tail(todo)) \in Nat
      BY <1>3, <3>1, ConcatOf
    <3>3. QED
      BY <2>1, <3>1, <3>2
  <2>4. QED
    BY <2>1, <2>2, <2>3
<1>4. /\ PostMapping(layer) \in Seq(ScriptNames) /\ PostReview(layer) \in Seq(ScriptNames)
      /\ PostRates \in Seq(ScriptNames) /\ PostTriage(layer) \in Seq(ScriptNames)
  BY <1>1, PostSteps
<1>5. ASSUME NEW s, At(s) PROVE todo # <<>> /\ todo[1] = s
  BY <1>1, <1>5, TailOf DEF At
<1>6. CASE RetryAgent
  <2> DEFINE first == PostMapping(layer) \o <<"mapping_coverage_after_retry">>
  <2>1. todo # <<>> /\ todo[1] = "mapping_coverage" /\ todo' = first \o Tail(todo)
    BY <1>5, <1>6 DEF RetryAgent, CoverageGate, Then
  <2>2. /\ <<"mapping_coverage_after_retry">> \in Seq(ScriptNames)
        /\ Free(<<"mapping_coverage_after_retry">>, Once \cup {"apply_rates"})
    BY Tuples DEF ScriptNames, Free, Once
  <2>3. first \in Seq(ScriptNames) /\ Free(first, Once \cup {"apply_rates"})
    BY <1>1, <1>4, <2>2, PostStepsLate, FreeConcat
  <2> HIDE DEF first
  <2>4. QED
    BY <1>3, <2>1, <2>3 DEF LateScripts
<1>7. CASE CoverageAfterRetry
  <2> DEFINE first == <<"ensure_full_coverage", "mapping_coverage_at_last">>
  <2>1. todo # <<>> /\ todo[1] = "mapping_coverage_after_retry"
    BY <1>5, <1>7 DEF CoverageAfterRetry, CoverageGate
  <2>2. todo' = Tail(todo) \/ todo' = first \o Tail(todo)
    BY <1>7 DEF CoverageAfterRetry, Continue, Then
  <2>3. first \in Seq(ScriptNames) /\ Free(first, Once \cup {"apply_rates"})
    BY Tuples DEF ScriptNames, Free, Once
  <2> HIDE DEF first
  <2>4. QED
    BY <1>2, <1>3, <2>1, <2>2, <2>3 DEF LateScripts
<1>8. ASSUME NEW gate, NEW bad, NEW post, SoftGate(gate, bad, post)
      PROVE  todo # <<>> /\ todo[1] = gate /\ (todo' = Tail(todo) \/ todo' = post \o Tail(todo))
  BY <1>5, <1>8 DEF SoftGate, Continue, Then
<1>9. CASE NoIllegalPassthroughs
  <2>1. /\ todo # <<>> /\ todo[1] = "no_illegal_passthroughs"
        /\ todo' = Tail(todo) \/ todo' = PostReview(layer) \o Tail(todo)
    BY <1>8, <1>9 DEF NoIllegalPassthroughs
  <2>2. QED
    BY <1>1, <1>2, <1>3, <1>4, <2>1, PostStepsLate DEF LateScripts
<1>10. CASE NoNullProjectedCost
  <2>1. /\ todo # <<>>
        /\ todo' = Tail(todo) \/ todo' = PostRates \o Tail(todo)
    BY <1>8, <1>10 DEF NoNullProjectedCost
  <2>2. QED
    BY <1>1, <1>2, <1>3, <1>4, <2>1, PostStepsLate
<1>11. CASE OverAndUnderProjection
  <2>1. /\ todo # <<>>
        /\ todo' = Tail(todo) \/ todo' = PostTriage(layer) \o Tail(todo)
    BY <1>8, <1>11 DEF OverAndUnderProjection
  <2>2. QED
    BY <1>1, <1>2, <1>3, <1>4, <2>1, PostStepsLate
<1>12. ASSUME NEW agent, NEW post \in Seq(ScriptNames), AgentBlocked(agent, post)
       PROVE  Moves(0, Len(post) + 2) /\ Len(post) + 2 \in Nat
  <2>1. todo # <<>> /\ todo' = SubSeq(todo, (Len(post) + 2) + 1, Len(todo))
        /\ Len(post) + 2 \in Nat \ {0}
    BY <1>5, <1>12 DEF AgentBlocked
  <2>2. Resumes(todo', todo, 0, Len(post) + 2)
    BY <1>1, <2>1, SuffixResumes
  <2>3. QED
    BY <2>1, <2>2 DEF Moves
<1>13. CASE ReviewAgentBlocked
  BY <1>4, <1>12, <1>13 DEF ReviewAgentBlocked
<1>14. CASE TriageAgentBlocked
  BY <1>4, <1>12, <1>14 DEF TriageAgentBlocked
<1>15. QED
  BY <1>2, <1>6, <1>7, <1>9, <1>10, <1>11, <1>13, <1>14, PlanSteps

-----------------------------------------------------------------------------
(* The plan of a run and of a recalculation.                               *)

LEMMA NoneBehindConcat ==
    ASSUME NEW s \in Seq(ScriptNames), NEW t \in Seq(ScriptNames), NEW x, NEW y,
           NoneBehind(s, x, y), NoneBehind(t, x, y), Free(s, {x}) \/ Free(t, {y})
    PROVE  NoneBehind(s \o t, x, y)
<1> SUFFICES ASSUME NEW u \in Seq(ScriptNames), Len(u) \in Nat, Len(s) \in Nat, Len(t) \in Nat,
                    Len(u) = Len(s) + Len(t),
                    \A i \in 1 .. Len(s) : u[i] = s[i],
                    \A i \in Len(s) + 1 .. Len(s) + Len(t) : u[i] = t[i - Len(s)]
             PROVE  NoneBehind(u, x, y)
  BY ConcatOf
<1> SUFFICES ASSUME NEW i \in 1 .. Len(u), u[i] = x, NEW j \in i + 1 .. Len(u), u[j] = y PROVE FALSE
  BY DEF NoneBehind
<1>1. CASE j <= Len(s)
  <2>1. i \in 1 .. Len(s) /\ j \in i + 1 .. Len(s)
    BY <1>1
  <2>2. s[i] = x /\ s[j] = y
    BY <2>1
  <2>3. QED
    BY <2>1, <2>2 DEF NoneBehind
<1>2. CASE i > Len(s)
  <2>1. /\ i - Len(s) \in 1 .. Len(t) /\ t[i - Len(s)] = x
        /\ j - Len(s) \in i - Len(s) + 1 .. Len(t) /\ t[j - Len(s)] = y
    BY <1>2
  <2>2. QED
    BY <2>1 DEF NoneBehind
<1>3. CASE i <= Len(s) /\ j > Len(s)
  <2>1. s[i] = x /\ j - Len(s) \in 1 .. Len(t) /\ t[j - Len(s)] = y
    BY <1>3
  <2>2. QED
    BY <1>3, <2>1 DEF Free
<1>4. QED
  BY <1>1, <1>2, <1>3

\* PlanApart, of any sequence of scripts.
Apart(s, n) ==
    /\ s \in Seq(ScriptNames)
    /\ \A x \in Once : NoneBehind(s, x, x)
    /\ NoneBehind(s, "triage_agent", "apply_rates")
    /\ ReviewThenRates(s, n)
    /\ Behind(s, LateScripts, "apply_rates")

LEMMA FreeApart ==
    ASSUME NEW s, NEW S, Free(s, S)
    PROVE  /\ \A x \in S : NoneBehind(s, x, x) /\ ~Has(s, x)
           /\ \A x \in S : \A y : NoneBehind(s, x, y)
           /\ \A T \in SUBSET S : Free(s, T)
           /\ "review_agent" \in S => \A n : ReviewThenRates(s, n)
BY DEF Free, NoneBehind, Has, ReviewThenRates

\* Behind apply_rates.py.
LEMMA ApartGoesOn ==
    ASSUME NEW n \in Nat, NEW s, Apart(s, n), NEW t \in Seq(ScriptNames),
           \A i \in 1 .. Len(t) : t[i] \in LateScripts,
           Free(t, (Once \ {"triage_agent"}) \cup {"apply_rates"}),
           \/ Free(t, {"triage_agent"})
           \/ Free(s, {"triage_agent"}) /\ NoneBehind(t, "triage_agent", "triage_agent")
    PROVE  Apart(s \o t, n)
<1>0. s \in Seq(ScriptNames)
  BY DEF Apart
<1>1. ASSUME NEW x \in Once PROVE NoneBehind(s \o t, x, x)
  <2>1. NoneBehind(s, x, x)
    BY DEF Apart
  <2>2. CASE x = "triage_agent"
    <3>1. NoneBehind(t, x, x) /\ (Free(s, {x}) \/ Free(t, {x}))
      BY <2>2, FreeApart
    <3>2. QED
      BY <1>0, <2>1, <3>1, NoneBehindConcat
  <2>3. CASE x # "triage_agent"
    <3>1. NoneBehind(t, x, x) /\ Free(t, {x})
      BY <2>3 DEF Free, NoneBehind
    <3>2. QED
      BY <1>0, <2>1, <3>1, NoneBehindConcat
  <2>4. QED
    BY <2>2, <2>3
<1>2. NoneBehind(s \o t, "triage_agent", "apply_rates")
  <2>1. NoneBehind(t, "triage_agent", "apply_rates") /\ Free(t, {"apply_rates"})
    BY DEF NoneBehind, Free
  <2>2. NoneBehind(s, "triage_agent", "apply_rates")
    BY DEF Apart
  <2>3. QED
    BY <1>0, <2>1, <2>2, NoneBehindConcat
<1>3. ReviewThenRates(s \o t, n)
  <2> SUFFICES ASSUME NEW i \in 1 .. Len(s \o t), (s \o t)[i] = "review_agent"
               PROVE  i + n <= Len(s \o t) /\ (s \o t)[i + n] = "apply_rates"
    BY DEF ReviewThenRates
  <2>1. /\ Len(s) \in Nat /\ Len(t) \in Nat /\ Len(s \o t) = Len(s) + Len(t)
        /\ \A k \in 1 .. Len(s) : (s \o t)[k] = s[k]
        /\ \A k \in Len(s) + 1 .. Len(s) + Len(t) : (s \o t)[k] = t[k - Len(s)]
    BY <1>0, ConcatOf
  <2>2. i <= Len(s)
    <3> SUFFICES ASSUME i > Len(s) PROVE FALSE
      BY <2>1
    <3>1. i - Len(s) \in 1 .. Len(t) /\ t[i - Len(s)] = "review_agent"
      BY <2>1
    <3>2. QED
      BY <3>1 DEF Free, Once
  <2>3. i \in 1 .. Len(s) /\ s[i] = "review_agent"
    BY <2>1, <2>2
  <2>4. i + n <= Len(s) /\ s[i + n] = "apply_rates"
    BY <2>3 DEF Apart, ReviewThenRates
  <2>5. i + n \in 1 .. Len(s)
    BY <2>3, <2>4, <2>1
  <2>6. QED
    BY <2>1, <2>4, <2>5
<1>4. Behind(s \o t, LateScripts, "apply_rates")
  <2>1. Behind(t, LateScripts, "apply_rates")
    BY DEF Behind
  <2>2. Behind(s, LateScripts, "apply_rates")
    BY DEF Apart
  <2>3. QED
    BY <1>0, <2>1, <2>2, BehindConcat
<1>5. QED
  BY <1>0, <1>1, <1>2, <1>3, <1>4, ConcatOf DEF Apart

\* The review agent is n steps before the end of s, if it is there.
Pending(s, n) == \A i \in 1 .. Len(s) : s[i] = "review_agent" => i + n = Len(s)

LEMMA PendingConcat ==
    ASSUME NEW s \in Seq(ScriptNames), NEW n \in Nat, Pending(s, n),
           NEW t \in Seq(ScriptNames), Free(t, {"review_agent"})
    PROVE  Pending(s \o t, n + Len(t))
<1> SUFFICES ASSUME NEW i \in 1 .. Len(s \o t), (s \o t)[i] = "review_agent"
             PROVE  i + (n + Len(t)) = Len(s \o t)
  BY DEF Pending
<1>1. /\ Len(s) \in Nat /\ Len(t) \in Nat /\ Len(s \o t) = Len(s) + Len(t)
      /\ \A k \in 1 .. Len(s) : (s \o t)[k] = s[k]
      /\ \A k \in Len(s) + 1 .. Len(s) + Len(t) : (s \o t)[k] = t[k - Len(s)]
  BY ConcatOf
<1>2. i <= Len(s)
  <2> SUFFICES ASSUME i > Len(s) PROVE FALSE
    BY <1>1
  <2>1. i - Len(s) \in 1 .. Len(t) /\ t[i - Len(s)] = "review_agent"
    BY <1>1
  <2>2. QED
    BY <2>1 DEF Free
<1>3. i + n = Len(s)
  BY <1>1, <1>2 DEF Pending
<1>4. QED
  BY <1>1, <1>3

LEMMA PipelineApart ==
    ASSUME NEW on \in BOOLEAN
    PROVE  Apart(Pipeline(on), Len(PostReview(on)) + 2)
<1> DEFINE Asked == Once \cup {"apply_rates"}
           n == Len(PostReview(on)) + 2
           a == <<"classify_mechanics", "apply_commitment_ignores", "apply_static_mappings",
                  "mapping_agent">>
           b == <<"mapping_coverage", "auto_review", "review_agent">>
           c == <<"no_illegal_passthroughs", "apply_rates">>
           d == <<"no_null_projected_cost", "detect_outliers", "auto_triage",
                  "incremental_rerate", "triage_agent">>
           e == <<"over_and_under_projection">>
           p0 == a \o PostMapping(on)
           p1 == p0 \o b
           p2 == p1 \o PostReview(on)
           p3 == p2 \o c
           p4 == p3 \o PostRates
           p5 == p4 \o d
           p6 == p5 \o PostTriage(on)
<1>1. /\ a \in Seq(ScriptNames) /\ b \in Seq(ScriptNames) /\ c \in Seq(ScriptNames)
      /\ d \in Seq(ScriptNames) /\ e \in Seq(ScriptNames)
  BY Tuples DEF ScriptNames
<1>2. Pipeline(on) = (((((((a \o PostMapping(on)) \o b) \o PostReview(on)) \o c) \o PostRates)
                        \o d) \o PostTriage(on)) \o e
  BY DEF Pipeline
<1>3. /\ PostMapping(on) \in Seq(ScriptNames) /\ PostReview(on) \in Seq(ScriptNames)
      /\ PostRates \in Seq(ScriptNames) /\ PostTriage(on) \in Seq(ScriptNames)
  BY PostSteps
<1>4. /\ Free(PostMapping(on), Asked) /\ Free(PostReview(on), Asked)
      /\ Free(PostRates, Asked) /\ Free(PostTriage(on), Asked)
      /\ \A i \in 1 .. Len(PostTriage(on)) : PostTriage(on)[i] \in LateScripts
      /\ \A i \in 1 .. Len(PostRates) : PostRates[i] \in LateScripts
  BY PostStepsLate
<1>5. Free(a, Asked) /\ Free(e, Asked)
  BY DEF Free, Once
<1>6. /\ Len(b) = 3 /\ b[1] = "mapping_coverage" /\ b[2] = "auto_review" /\ b[3] = "review_agent"
      /\ Len(c) = 2 /\ c[1] = "no_illegal_passthroughs" /\ c[2] = "apply_rates"
      /\ Len(d) = 5 /\ d[1] = "no_null_projected_cost" /\ d[2] = "detect_outliers"
      /\ d[3] = "auto_triage" /\ d[4] = "incremental_rerate" /\ d[5] = "triage_agent"
      /\ Len(e) = 1 /\ e[1] = "over_and_under_projection"
  OBVIOUS
<1> HIDE DEF a, b, c, d, e
<1>7. /\ \A x \in Once : NoneBehind(b, x, x)
      /\ Free(b, {"triage_agent", "apply_rates"}) /\ Pending(b, 0)
  BY <1>6 DEF NoneBehind, Free, Pending, Once
<1>8. Free(c, Once)
  BY <1>6 DEF Free, Once
<1>9. /\ \A i \in 1 .. Len(d) : d[i] \in LateScripts
      /\ \A i \in 1 .. Len(e) : e[i] \in LateScripts
  BY <1>6 DEF LateScripts
<1>10. Free(d, (Once \ {"triage_agent"}) \cup {"apply_rates"})
       /\ NoneBehind(d, "triage_agent", "triage_agent")
  BY <1>6 DEF Free, NoneBehind, Once
<1>11. p0 \in Seq(ScriptNames) /\ Free(p0, Asked)
  BY <1>1, <1>3, <1>4, <1>5, FreeConcat
<1> HIDE DEF p0
<1>12. /\ p1 \in Seq(ScriptNames) /\ \A x \in Once : NoneBehind(p1, x, x)
       /\ Free(p1, {"triage_agent", "apply_rates"}) /\ Pending(p1, 0)
  <2>1. Free(p0, {"triage_agent", "apply_rates"}) /\ \A x \in Once : Free(p0, {x}) /\ NoneBehind(p0, x, x)
    BY <1>11 DEF Free, NoneBehind, Once
  <2>2. \A x \in Once : NoneBehind(p1, x, x)
    BY <1>1, <1>7, <1>11, <2>1, NoneBehindConcat
  <2>3. Pending(p1, 0)
    <3> SUFFICES ASSUME NEW i \in 1 .. Len(p1), p1[i] = "review_agent" PROVE i + 0 = Len(p1)
      BY DEF Pending
    <3>0. /\ Len(p0) \in Nat /\ Len(p1) = Len(p0) + Len(b)
          /\ \A k \in 1 .. Len(p0) : p1[k] = p0[k]
          /\ \A k \in Len(p0) + 1 .. Len(p0) + Len(b) : p1[k] = b[k - Len(p0)]
      BY <1>1, <1>11, ConcatOf
    <3> HIDE DEF p1
    <3>1. /\ Len(p0) \in Nat /\ Len(p1) = Len(p0) + 3
          /\ \A k \in 1 .. Len(p0) : p1[k] = p0[k]
          /\ \A k \in Len(p0) + 1 .. Len(p0) + 3 : p1[k] = b[k - Len(p0)]
      BY <1>6, <3>0
    <3>2. i > Len(p0)
      BY <1>11, <3>1 DEF Free, Once
    <3>3. i - Len(p0) \in 1 .. 3 /\ b[i - Len(p0)] = "review_agent"
      BY <3>1, <3>2
    <3>4. i - Len(p0) = 3
      BY <1>6, <3>3
    <3>5. QED
      BY <3>1, <3>4
  <2>4. QED
    BY <1>1, <1>7, <1>11, <2>1, <2>2, <2>3, FreeConcat
<1> HIDE DEF p1
<1>13. /\ p2 \in Seq(ScriptNames) /\ \A x \in Once : NoneBehind(p2, x, x)
       /\ Free(p2, {"triage_agent", "apply_rates"}) /\ Pending(p2, Len(PostReview(on)))
  <2> DEFINE q == PostReview(on)
  <2>1. q \in Seq(ScriptNames) /\ Free(q, Asked) /\ Len(q) \in Nat
    BY <1>3, <1>4, ConcatOf
  <2> HIDE DEF q
  <2>2. /\ Free(q, {"triage_agent", "apply_rates"}) /\ Free(q, {"review_agent"})
        /\ \A x \in Once : Free(q, {x}) /\ NoneBehind(q, x, x)
    BY <2>1 DEF Free, NoneBehind, Once
  <2>3. \A x \in Once : NoneBehind(p1 \o q, x, x)
    BY <1>12, <2>1, <2>2, NoneBehindConcat
  <2>4. Pending(p1 \o q, 0 + Len(q))
    BY <1>12, <2>1, <2>2, PendingConcat
  <2>5. p1 \o q \in Seq(ScriptNames) /\ Free(p1 \o q, {"triage_agent", "apply_rates"})
    BY <1>12, <2>1, <2>2, FreeConcat
  <2>6. 0 + Len(q) = Len(q)
    BY <2>1
  <2>7. QED
    BY <2>3, <2>4, <2>5, <2>6 DEF q
<1>14. n \in Nat /\ n = Len(PostReview(on)) + Len(c) /\ Len(PostReview(on)) \in Nat
  BY <1>3, <1>6, ConcatOf
<1> HIDE DEF p2, n
<1>15. Apart(p3, n) /\ Free(p3, {"triage_agent"})
  <2>1. Free(c, {"triage_agent"}) /\ Free(c, {"review_agent"})
        /\ \A x \in Once : Free(c, {x}) /\ NoneBehind(c, x, x)
    BY <1>8 DEF Free, NoneBehind, Once
  <2>2. Free(p2, {"triage_agent"})
    BY <1>13 DEF Free
  <2>3. p3 \in Seq(ScriptNames) /\ Free(p3, {"triage_agent"})
    BY <1>1, <1>13, <2>1, <2>2, FreeConcat
  <2>4. \A x \in Once : NoneBehind(p3, x, x)
    BY <1>1, <1>13, <2>1, NoneBehindConcat
  <2>5. Pending(p3, n)
    BY <1>1, <1>13, <1>14, <2>1, PendingConcat
  <2>6. /\ Len(p2) \in Nat /\ Len(p3) = Len(p2) + 2 /\ p3[Len(p3)] = "apply_rates"
    <3>1. /\ Len(p2) \in Nat /\ Len(p3) = Len(p2) + Len(c)
          /\ \A k \in 1 .. Len(c) : p3[Len(p2) + k] = c[k]
      BY <1>1, <1>13, ConcatOf
    <3> HIDE DEF p3
    <3>2. 2 \in 1 .. Len(c) /\ Len(c) = 2
      BY <1>6
    <3>3. p3[Len(p2) + 2] = c[2]
      BY <3>1, <3>2
    <3>4. QED
      BY <1>6, <3>1, <3>3
  <2>7. NoneBehind(p3, "triage_agent", "apply_rates")
    BY <2>3 DEF Free, NoneBehind
  <2> HIDE DEF p3
  <2>8. ReviewThenRates(p3, n)
    BY <2>5, <2>6, <1>14 DEF ReviewThenRates, Pending
  <2>9. Behind(p3, LateScripts, "apply_rates")
    <3> SUFFICES ASSUME NEW i \in 1 .. Len(p3), p3[i] \notin LateScripts
                 PROVE  \E j \in i + 1 .. Len(p3) : p3[j] = "apply_rates"
      BY DEF Behind
    <3>1. i # Len(p3)
      BY <2>6 DEF LateScripts
    <3>2. Len(p3) \in i + 1 .. Len(p3)
      BY <2>6, <3>1
    <3>3. QED
      BY <2>6, <3>2
  <2>10. QED
    BY <2>3, <2>4, <2>7, <2>8, <2>9 DEF Apart
<1> HIDE DEF p3
<1>16. ASSUME NEW t, Free(t, Asked)
       PROVE  Free(t, {"triage_agent"}) /\ Free(t, (Once \ {"triage_agent"}) \cup {"apply_rates"})
  BY <1>16 DEF Free, Once
<1>17. Apart(p4, n) /\ Free(p4, {"triage_agent"})
  <2>1. p3 \in Seq(ScriptNames)
    BY <1>15 DEF Apart
  <2>2. QED
    BY <1>3, <1>4, <1>14, <1>15, <1>16, <2>1, ApartGoesOn, FreeConcat
<1> HIDE DEF p4
<1>18. Apart(p5, n)
  BY <1>1, <1>9, <1>10, <1>14, <1>17, ApartGoesOn
<1> HIDE DEF p5
<1>19. Apart(p6, n)
  BY <1>3, <1>4, <1>14, <1>16, <1>18, ApartGoesOn
<1> HIDE DEF p6
<1>20. Apart(p6 \o e, n)
  BY <1>1, <1>5, <1>9, <1>14, <1>16, <1>19, ApartGoesOn
<1>21. Pipeline(on) = p6 \o e
  BY <1>2, Zenon DEF p0, p1, p2, p3, p4, p5, p6
<1>22. QED
  BY <1>20, <1>21 DEF n

LEMMA RecalculationApart ==
    /\ RecalculateScripts \in Seq(ScriptNames) /\ Free(RecalculateScripts, Once)
<1> DEFINE r == <<"classify_mechanics", "apply_commitment_ignores", "apply_static_mappings",
                  "merge_mappings", "service_classifier", "apply_rates">>
<1>1. r \in Seq(ScriptNames) /\ ByDirectives \in Seq(ScriptNames)
  BY Tuples DEF ScriptNames, ByDirectives
<1>2. Free(r, Once) /\ Free(ByDirectives, Once)
  BY DEF Free, Once, ByDirectives
<1>3. RecalculateScripts = r \o ByDirectives
  BY Zenon DEF RecalculateScripts
<1> HIDE DEF r
<1>4. QED
  BY <1>1, <1>2, <1>3, FreeConcat

LEMMA ApartInit == ASSUME Init PROVE PlanApart
<1>1. layer \in BOOLEAN /\ todo = Pipeline(layer)
  BY BoundsAssumption DEF Init
<1>2. QED
  BY <1>1, PipelineApart DEF Apart, PlanApart

-----------------------------------------------------------------------------
(* The invariant.                                                          *)

\* The lines an agent has answered about.
Told == DOMAIN review.fixes \cup DOMAIN triage.fixes

\* No agent has been asked yet where it is still to be asked.
ToldOnce ==
    /\ Has(todo, "mapping_coverage") => added = {}
    /\ Has(todo, "review_agent") => DOMAIN review.fixes = {}
    /\ Has(todo, "triage_agent") => DOMAIN triage.fixes = {}
    /\ answers = 0 => Told = {}

\* What the ledger decides without an agent is to leave a line out.
LedgerIgnores == ledger \in Seq(DirectivesOf(Lines, Told))

Credits == {k \in Lines : bill[k].cost < 0}

CreditsGrouped ==
    \/ status = "failed"
    \/ status = "running" /\ recalcs = 0 /\ todo # <<>> /\ todo[1] = "classify_mechanics"
    \/ \A k \in Credits : group[k] = "negative_cost"

Silent(row) == row.strategy = "ignore" /\ row.sku = None

CreditsPlanned ==
    \A k \in Credits :
        /\ group[k] \in {None, "negative_cost"}
        /\ \A g \in LLM_GROUPS : k \notin manifest[g]
        /\ \A f \in Files : \A row \in files[f] : row.key = k => Silent(row)

\* Credits nobody has said anything about.
Untold == Credits \ (added \cup Told)

CreditsSilent == \A row \in table : row.key \in Untold => Silent(row)

CInv == PlanApart /\ ToldOnce /\ LedgerIgnores /\ CreditsGrouped /\ CreditsPlanned /\ CreditsSilent

\* Rows that the failing of a script does not excuse.
KeepsPrice(rows, rs, b, exempt) ==
    \A row \in rows :
        Mapped(row) /\ b[row.key].cost > 5 /\ row.key \notin exempt =>
            HasCost(row, rs, b[row.key], compute_dominant_region(b))

StillPriced ==
    recalcs = 0 /\ answers = 0 /\ status # "failed" =>
        \/ Has(todo, "apply_rates")
        \/ KeepsPrice(table, rates, bill, {k \in Lines : Repairable(k)})

-----------------------------------------------------------------------------
(* The plan, the answers and the ledger.                                   *)

LEMMA RunMoves ==
    ASSUME IInv, RunScript
    PROVE  todo' = <<>> \/ \E p \in Nat : \E m \in Nat \ {0} : Moves(p, m)
<1>1. ASSUME NEW p, NEW m, Moves(p, m) PROVE p \in Nat /\ m \in Nat \ {0}
  BY <1>1 DEF Moves, Resumes
<1>2. QED
  BY <1>1, PlanMoves

LEMMA ApartStep == ASSUME IInv, PlanApart, [Next]_vars PROVE PlanApart'
<1>1. CASE RunScript
  <2>1. layer' = layer /\ recalcs' = recalcs /\ todo \in Seq(ScriptNames)
    BY <1>1, ChangedBy DEF inputVars, IInv, PlanOrdered, Ordered
  <2>2. CASE todo' = <<>>
    <3>1. Len(todo') = 0
      BY <2>2, Tuples
    <3>2. QED
      BY <3>1 DEF PlanApart, NoneBehind, ReviewThenRates, Behind
  <2>3. ASSUME NEW p \in Nat, NEW m \in Nat \ {0}, Moves(p, m) PROVE PlanApart'
    <3>1. /\ Resumes(todo', todo, p, m) /\ todo # <<>>
          /\ \A x \in Once \cup {"apply_rates"} : \A i \in 1 .. p : todo'[i] # x
      BY <2>3 DEF Moves
    <3>2. \A x \in Once : NoneBehind(todo', x, x)
      BY <2>1, <3>1, ResumesApart DEF PlanApart
    <3>3. "triage_agent" \in Once /\ "review_agent" \in Once
      BY DEF Once
    <3>4. NoneBehind(todo', "triage_agent", "apply_rates")
      BY <2>1, <3>1, <3>3, ResumesApart DEF PlanApart
    <3>5. Len(PostReview(layer)) + 2 \in Nat
      BY PostSteps, ConcatOf DEF IInv, FlowTyped
    <3>6. ReviewThenRates(todo', Len(PostReview(layer)) + 2)
      BY <2>1, <3>1, <3>3, <3>5, ResumesApart DEF PlanApart
    <3>7. recalcs = 0 => Behind(todo', LateScripts, "apply_rates")
      <4>1. p = 0 \/ (m = 1 /\ (todo[1] \notin LateScripts \/ \A i \in 1 .. p : todo'[i] \in LateScripts))
        BY <2>3 DEF Moves
      <4>2. QED
        BY <2>1, <3>1, <4>1, ResumesBehind DEF PlanApart
    <3>8. QED
      BY <2>1, <3>2, <3>4, <3>6, <3>7 DEF PlanApart
  <2>4. QED
    BY <1>1, <2>2, <2>3, RunMoves
<1>2. CASE ~RunScript
  <2>1. layer' = layer
    BY <1>2, ChangedElsewhere DEF inputVars
  <2>2. CASE UNCHANGED flowVars
    BY <2>1, <2>2 DEF PlanApart, flowVars
  <2>3. CASE \E changed : RecalculateWith(changed)
    <3>1. todo' = RecalculateScripts /\ recalcs' = recalcs + 1 /\ recalcs \in Nat
      BY <2>3 DEF RecalculateWith, IInv, FlowTyped
    <3>2. Free(todo', Once) /\ recalcs' # 0
      BY <3>1, RecalculationApart
    <3>3. QED
      BY <3>2, FreeApart DEF PlanApart, Once
  <2>4. QED
    BY <1>2, <2>2, <2>3, ChangedElsewhere
<1>3. QED
  BY <1>1, <1>2

\* An agent that has been asked is not asked again.
LEMMA AskedOnce ==
    ASSUME IInv, PlanApart, RunScript, NEW x \in Once, Has(todo', x)
    PROVE  Has(todo, x) /\ ~At(x)
<1>1. todo \in Seq(ScriptNames) /\ NoneBehind(todo, x, x)
  BY DEF IInv, PlanOrdered, Ordered, PlanApart
<1>2. todo' # <<>>
  BY Tuples DEF Has
<1>3. PICK p \in Nat, m \in Nat \ {0} : Moves(p, m)
  BY <1>2, RunMoves
<1>4. Resumes(todo', todo, p, m) /\ \A i \in 1 .. p : todo'[i] # x
  BY <1>3 DEF Moves
<1>5. Has(todo, x) /\ todo[1] # x
  BY <1>1, <1>4, ResumesApart
<1>6. QED
  BY <1>5, AtFirst

LEMMA NothingToAsk ==
    ASSUME \E changed : RecalculateWith(changed)
    PROVE  \A x \in Once : ~Has(todo', x)
<1>1. todo' = RecalculateScripts
  BY DEF RecalculateWith
<1>2. QED
  BY <1>1, RecalculationApart, FreeApart

LEMMA ToldStep ==
    ASSUME IInv, DataTyped, PlanApart, ToldOnce, [Next]_vars
    PROVE  ToldOnce' /\ Told \subseteq Told'
<1>0. /\ "mapping_coverage" \in Once /\ "review_agent" \in Once /\ "triage_agent" \in Once
  BY DEF Once
<1>1. DOMAIN review = FixColumns /\ DOMAIN triage = FixColumns /\ answers \in Nat
  BY BoundsAssumption DEF DataTyped, DecisionsTyped, Counted
<1>2. CASE RunScript
  <2>1. \A x \in Once : Has(todo', x) => Has(todo, x) /\ ~At(x)
    BY <1>2, AskedOnce
  <2>2. added' = added \/ At("mapping_coverage")
    BY <1>2, ChangedBy DEF RetryAgent, CoverageGate
  <2>3. DOMAIN review'.fixes = DOMAIN review.fixes \/ (At("review_agent") /\ ReviewAgent)
    BY <1>1, <1>2, ChangedBy DEF AutoReview, ReviewAgent, FixColumns
  <2>4. DOMAIN triage'.fixes = DOMAIN triage.fixes \/ (At("triage_agent") /\ TriageAgent)
    BY <1>1, <1>2, ChangedBy DEF DetectOutliers, AutoTriage, TriageAgent, FixColumns
  <2>5. ASSUME NEW x, At(x) PROVE Has(todo, x)
    <3>1. todo # <<>> /\ todo[1] = x /\ todo \in Seq(ScriptNames)
      BY <2>5, AtFirst DEF Ordered
    <3>2. 1 \in 1 .. Len(todo)
      BY <3>1, TailOf
    <3>3. QED
      BY <3>1, <3>2 DEF Has
  <2>6. Told \subseteq Told'
    BY <2>3, <2>4, <2>5 DEF ToldOnce, Told
  <2>7. /\ Has(todo', "mapping_coverage") => added' = {}
        /\ Has(todo', "review_agent") => DOMAIN review'.fixes = {}
        /\ Has(todo', "triage_agent") => DOMAIN triage'.fixes = {}
    BY <1>0, <2>1, <2>2, <2>3, <2>4 DEF ToldOnce
  <2>8. answers' = 0 => Told' = {}
    <3>1. CASE ReviewAgent \/ TriageAgent
      <4>1. PICK fixes \in Written :
                /\ answers' = answers + Cardinality(DOMAIN fixes)
                /\ \/ review'.fixes = fixes /\ triage' = triage
                   \/ triage'.fixes = fixes /\ review' = review
        BY <1>1, <3>1 DEF ReviewAgent, TriageAgent, FixColumns
      <4>2. IsFiniteSet(DOMAIN fixes)
        BY WrittenOf, LinesFinite, FS_Subset DEF DataTyped, PlanTyped
      <4>3. Cardinality(DOMAIN fixes) \in Nat /\ (Cardinality(DOMAIN fixes) = 0 <=> DOMAIN fixes = {})
        BY <4>2, FS_CardinalityType, FS_EmptySet
      <4>4. answers' = 0 => answers = 0 /\ DOMAIN fixes = {}
        BY <1>1, <4>1, <4>3
      <4>5. QED
        BY <4>1, <4>4 DEF ToldOnce, Told
    <3>2. CASE ~ReviewAgent /\ ~TriageAgent
      <4>1. Told' = Told
        BY <2>3, <2>4, <3>2 DEF Told
      <4>2. UNCHANGED answers \/ answers' = answers + 1
        BY <1>2, <3>2, ChangedBy DEF NoIllegalPassthroughs, NoNullProjectedCost,
             OverAndUnderProjection, SoftGate
      <4>3. QED
        BY <1>1, <4>1, <4>2 DEF ToldOnce
    <3>3. QED
      BY <3>1, <3>2
  <2>9. QED
    BY <2>6, <2>7, <2>8 DEF ToldOnce
<1>3. CASE ~RunScript
  <2>1. UNCHANGED <<added, review, triage, answers>> /\ Told' = Told
    BY <1>3, ChangedElsewhere DEF tableVars, fixVars, Told
  <2>2. CASE UNCHANGED flowVars
    BY <2>1, <2>2 DEF ToldOnce, flowVars
  <2>3. CASE \E changed : RecalculateWith(changed)
    BY <1>0, <2>1, <2>3, NothingToAsk DEF ToldOnce
  <2>4. QED
    BY <1>3, <2>1, <2>2, <2>3, ChangedElsewhere
<1>4. QED
  BY <1>2, <1>3

LEMMA LedgerStep ==
    ASSUME DataTyped, LedgerIgnores, [Next]_vars, DataTyped', Told \subseteq Told'
    PROVE  LedgerIgnores'
<1> DEFINE D == DirectivesOf(Lines, Told)
<1>0. Lines' = Lines /\ IsFiniteSet(Lines)
  BY ChangedBy, ChangedElsewhere, LinesFinite DEF Lines, inputVars, DataTyped, PlanTyped
<1>1. ASSUME ledger' \in Seq(D) PROVE LedgerIgnores'
  <2>1. D \subseteq DirectivesOf(Lines', Told')
    BY <1>0 DEF DirectivesOf
  <2> HIDE DEF D
  <2>2. ledger' \in Seq(DirectivesOf(Lines', Told'))
    BY <1>1, <2>1
  <2>3. QED
    BY <2>2 DEF LedgerIgnores
<1>2. Legacy \in Seq(D)
  <2>1. /\ DOMAIN review.fixes \subseteq Lines \cap Told
        /\ DOMAIN triage.fixes \subseteq Lines \cap Told
        /\ DOMAIN group \subseteq Lines /\ DOMAIN overrides \subseteq Lines
    BY DEF DataTyped, DecisionsTyped, PlanTyped, Told
  <2>2. QED
    BY <1>0, <2>1, LegacyOf DEF Legacy
<1>3. ledger \in Seq(D) /\ <<>> \in Seq(D)
  BY Tuples DEF LedgerIgnores
<1> DEFINE K == ledger' \in Seq(D)
<1>4. K
  <2>1. CASE ledger' = ledger
    BY <1>3, <2>1
  <2>2. CASE DirectivesFromLegacy
    <3>1. ledger' = directives_from_legacy(ledger, Legacy)
      BY <2>2 DEF DirectivesFromLegacy
    <3>2. QED
      BY <1>2, <1>3, <3>1, FromLegacyOf
  <2>3. CASE ApplyDirectives
    <3>1. ledger' = ledger \/ ledger' = directives_from_legacy(<<>>, Legacy)
      BY <2>3 DEF ApplyDirectives
    <3>2. directives_from_legacy(<<>>, Legacy) \in Seq(D)
      BY <1>2, <1>3, FromLegacyOf
    <3>3. QED
      BY <1>3, <3>1, <3>2
  <2>4. CASE \E changed : RecalculateWith(changed)
    <3>1. ledger' = syncDirectivesFromOverrides(ledger, overrides')
      BY <2>4 DEF RecalculateWith
    <3>2. DOMAIN overrides' \subseteq Lines
      BY <1>0 DEF DataTyped, DecisionsTyped
    <3>3. QED
      BY <1>0, <1>3, <3>1, <3>2, SyncedOf
  <2>5. QED
    BY <2>1, <2>2, <2>3, <2>4, ChangedBy, ChangedElsewhere
<1>5. QED
  BY <1>1, <1>4

-----------------------------------------------------------------------------
(* Scripts that leave the ignored rows of these lines as they are.         *)

SilentIn(rows, keys) == \A row \in rows : row.key \in keys => Silent(row)

\* keys are lines of the bill with a negative cost.
Owed(b, keys) == \A k \in keys : k \in DOMAIN b /\ b[k].cost \in Int /\ b[k].cost < 0

LEMMA ServiceClassifierSilent ==
    ASSUME NEW rows, NEW b, NEW g, NEW keys, Named(rows), SilentIn(rows, keys), Owed(b, keys),
           \A k \in keys : g[k] = "negative_cost"
    PROVE  SilentIn(service_classifier(rows, b, g), keys)
<1> SUFFICES ASSUME NEW q \in service_classifier(rows, b, g), q.key \in keys PROVE Silent(q)
  BY Zenon DEF SilentIn
<1> DEFINE rule(row) == policy(b[row.key])
           free(row) == ~is_deterministic(b, g, row.key)
           Apply(row) == CASE rule(row).mode = "review" /\ free(row) ->
                         [row EXCEPT !.strategy = "passthrough", !.sku = None, !.name = None,
                                     !.conf = rule(row).conf, !.reason = "service_policy_review"]
                  [] rule(row).mode = "ignore" /\ free(row) ->
                         [row EXCEPT !.strategy = "ignore", !.sku = None, !.name = None, !.conf = rule(row).conf]
                  [] rule(row).mode = "keep" -> CapConf(row, rule(row).conf)
                  [] OTHER -> row
<1>1. PICK row \in rows : q = Apply(row)
  BY DEF service_classifier
<1>2. DOMAIN row = RowColumns
  BY DEF Named
<1>3. q.key = row.key
  BY <1>1, <1>2 DEF CapConf, RowColumns
<1>4. ~free(row) /\ Silent(row)
  BY <1>3 DEF Owed, SilentIn, is_deterministic, SameCharge, DEDICATED_DETERMINISTIC_GROUPS,
              DETERMINISTIC_GROUPS, GENERIC_DETERMINISTIC_GROUPS
<1> HIDE DEF rule, free
<1>5. q = row \/ q = CapConf(row, rule(row).conf)
  BY <1>1, <1>4
<1>6. QED
  BY <1>2, <1>4, <1>5 DEF CapConf, Silent, RowColumns

LEMMA FixStorageMisrouteSilent ==
    ASSUME NEW rows, NEW b, NEW g, NEW keys, Named(rows), SilentIn(rows, keys),
           \A k \in keys : g[k] = "negative_cost"
    PROVE  SilentIn(fix_storage_misroute(rows, b, g), keys)
<1> DEFINE bad == {row.key : row \in {q \in rows : /\ OnCloudStorage(q, g)
                                                  /\ q.strategy # "passthrough"
                                                  /\ ~NamedStorage(b[q.key])}}
<1>1. ASSUME NEW row \in rows, row.key \in keys PROVE ~OnCloudStorage(row, g)
  BY <1>1 DEF OnCloudStorage, SilentIn, Silent, StorageClasses, Archive, Coldline, Nearline,
              Standard, None
<1>2. \A row \in rows : row.key \in keys => row.key \notin bad
  BY <1>1
<1>3. fix_storage_misroute(rows, b, g) =
          {IF row.key \in bad
           THEN [row EXCEPT !.strategy = "passthrough", !.sku = None, !.conf = 20,
                            !.reason = "storage_misroute_backstop"]
           ELSE row : row \in rows}
  BY DEF fix_storage_misroute
<1> HIDE DEF bad
<1> SUFFICES ASSUME NEW q \in fix_storage_misroute(rows, b, g), q.key \in keys PROVE Silent(q)
  BY DEF SilentIn
<1>4. PICK row \in rows :
          q = IF row.key \in bad
              THEN [row EXCEPT !.strategy = "passthrough", !.sku = None, !.conf = 20,
                               !.reason = "storage_misroute_backstop"]
              ELSE row
  BY <1>3
<1>5. q.key = row.key
  BY <1>4 DEF Named, RowColumns
<1>6. QED
  BY <1>2, <1>4, <1>5 DEF SilentIn

LEMMA ReconcileCapacitySilent ==
    ASSUME NEW rows, NEW b, NEW keys, Named(rows), SilentIn(rows, keys)
    PROVE  SilentIn(reconcile_capacity(rows, b), keys)
BY DEF reconcile_capacity, SilentIn, Silent, Named, RowColumns, Mapped

LEMMA ResolveNullSkusSilent ==
    ASSUME NEW rows, NEW keys, Named(rows), SilentIn(rows, keys)
    PROVE  SilentIn(resolve_null_skus(rows), keys)
BY DEF resolve_null_skus, SilentIn, Silent, Named, RowColumns, Mapped

LEMMA FlagLicenseSilent ==
    ASSUME NEW rows, NEW b, NEW keys, Named(rows), SilentIn(rows, keys)
    PROVE  SilentIn(flag_license_exposure(rows, b), keys)
BY DEF flag_license_exposure, SilentIn, Silent, Named, RowColumns, CapConf

LEMMA RouteUnreachableSilent ==
    ASSUME NEW rows, NEW rs, NEW b, NEW keys, Named(rows), SilentIn(rows, keys)
    PROVE  SilentIn(route_unreachable(rows, rs, b), keys)
BY DEF route_unreachable, SilentIn, Silent, Named, RowColumns, Mapped

LEMMA RepriceNullCostsSilent ==
    ASSUME NEW rows, NEW rs, NEW b, NEW keys, Named(rows), SilentIn(rows, keys), Owed(b, keys)
    PROVE  SilentIn(reprice_null_costs(rows, rs, b), keys)
<1> DEFINE null == {row.key : row \in {q \in rows :
                       /\ Mapped(q) /\ b[q.key].cost > 1
                       /\ ~HasCost(q, rs, b[q.key], compute_dominant_region(b))}}
<1>1. \A k \in keys : k \notin null
  BY DEF Owed
<1>2. reprice_null_costs(rows, rs, b) =
          {IF row.key \in null THEN [row EXCEPT !.strategy = "needs_reprice", !.src = "no_rate"]
           ELSE row : row \in rows}
  BY DEF reprice_null_costs
<1> HIDE DEF null
<1>3. QED
  BY <1>1, <1>2 DEF SilentIn, Silent, Named, RowColumns

LEMMA RecordSourceSilent ==
    ASSUME NEW rows, NEW pinned, NEW keys, Named(rows), SilentIn(rows, keys)
    PROVE  SilentIn(record_source(rows, pinned), keys)
BY DEF record_source, SilentIn, Silent, Named, RowColumns

LEMMA RecordRegionBasisSilent ==
    ASSUME NEW rows, NEW rs, NEW b, NEW made, NEW keys, Named(rows), SilentIn(rows, keys)
    PROVE  SilentIn(record_region_basis(rows, rs, b, made), keys)
BY DEF record_region_basis, SilentIn, Silent, Named, RowColumns

LEMMA NoCatalogSilent ==
    ASSUME NEW rows, NEW keys, Named(rows), SilentIn(rows, keys)
    PROVE  SilentIn(NoCatalog(rows), keys)
BY DEF NoCatalog, SilentIn, Silent, Named, RowColumns, Mapped

LEMMA OutlierGateSilent ==
    ASSUME NEW rows, NEW rs, NEW b, NEW keys, Named(rows), SilentIn(rows, keys), Owed(b, keys)
    PROVE  SilentIn(outlier_gate(rows, rs, b), keys)
<1>1. ASSUME NEW row \in rows, row.key \in keys PROVE ~Blowup(rows, rs, b, row)
  <2>1. RowCost(rows, rs, b, row, "OnDemand") = 0
    BY <1>1 DEF RowCost, Unpriced, Mapped, SilentIn, Silent
  <2>2. Gate.awsFloor \in Nat /\ Gate.gcpAbs \in Nat
    BY GateAssumption
  <2>3. QED
    BY <1>1, <2>1, <2>2 DEF Blowup, Owed
<1>2. QED
  BY <1>1 DEF outlier_gate, SameComponent, SilentIn, Silent, Named, RowColumns

LEMMA NullSkuNamesSilent ==
    ASSUME NEW rows, NEW b, NEW g, NEW keys, Named(rows), SilentIn(rows, keys),
           \A k \in keys : g[k] = "negative_cost"
    PROVE  SilentIn(repair_null_sku_names(rows, b, g), keys)
BY DEF repair_null_sku_names, SilentIn, Silent, Named, RowColumns

LEMMA IllegalPassthroughSilent ==
    ASSUME NEW rows, NEW rs, NEW b, NEW keys, Named(rows), SilentIn(rows, keys)
    PROVE  SilentIn(repair_illegal_passthrough(rows, rs, b), keys)
BY DEF repair_illegal_passthrough, SilentIn, Silent, Named, RowColumns

LEMMA EnterprisePlusSilent ==
    ASSUME NEW rows, NEW b, NEW s, NEW keys, Named(rows), SilentIn(rows, keys)
    PROVE  SilentIn(downgrade_enterprise_plus(rows, b, s), keys)
BY DEF downgrade_enterprise_plus, SilentIn, Silent, Named, RowColumns

LEMMA ClampPerNSilent ==
    ASSUME NEW rows, NEW b, NEW keys, Named(rows), SilentIn(rows, keys)
    PROVE  SilentIn(clamp_per_n(rows, b), keys)
BY DEF clamp_per_n, SilentIn, Silent, Named, RowColumns

LEMMA IgnoreLinesSilent ==
    ASSUME NEW rows, NEW gone, NEW keys, Named(rows), SilentIn(rows, keys)
    PROVE  SilentIn(IgnoreLines(rows, gone), keys)
BY DEF IgnoreLines, SilentIn, Silent, Named, RowColumns

LEMMA FamiliesSilent ==
    ASSUME NEW rows, NEW rs, NEW b, NEW s, NEW keys, Named(rows), SilentIn(rows, keys)
    PROVE  SilentIn(repair_families(rows, rs, b, s).table, keys)
BY DEF repair_families, SilentIn, Silent, Named, RowColumns

LEMMA RegionsSilent ==
    ASSUME NEW rows, NEW rs, NEW b, NEW s, NEW keys, Named(rows), SilentIn(rows, keys)
    PROVE  SilentIn(repair_regions(rows, rs, b, s).table, keys)
BY DEF repair_regions, SilentIn, Silent, Named, RowColumns, Mapped

LEMMA UnpricedSilent ==
    ASSUME NEW rows, NEW rs, NEW b, NEW keys, Named(rows), SilentIn(rows, keys)
    PROVE  SilentIn(downgrade_unpriced(rows, rs, b), keys)
BY DEF downgrade_unpriced, SameComponent, SilentIn, Silent, Named, RowColumns, Mapped

LEMMA DetailLessSilent ==
    ASSUME NEW rows, NEW b, NEW keys, Named(rows), SilentIn(rows, keys), Owed(b, keys)
    PROVE  SilentIn(downgrade_detail_less(rows, b), keys)
<1> DEFINE bad == {row.key : row \in {q \in rows : q.strategy # "passthrough" /\ DetailLess(b[q.key])}}
<1>1. ASSUME NEW k \in keys PROVE k \notin bad
  <2>1. ~(b[k].cost > 0)
    BY DEF Owed
  <2>2. QED
    BY <2>1 DEF DetailLess
<1>2. downgrade_detail_less(rows, b) =
          {IF row.key \in bad
           THEN CapConf([row EXCEPT !.strategy = "passthrough", !.reason = "detail_less_row",
                                    !.sku = None], 20)
           ELSE row : row \in rows}
  BY DEF downgrade_detail_less
<1> HIDE DEF bad
<1> SUFFICES ASSUME NEW q \in downgrade_detail_less(rows, b), q.key \in keys PROVE Silent(q)
  BY DEF SilentIn
<1>3. PICK row \in rows :
          q = IF row.key \in bad
              THEN CapConf([row EXCEPT !.strategy = "passthrough", !.reason = "detail_less_row",
                                       !.sku = None], 20)
              ELSE row
  BY <1>2
<1>4. q.key = row.key
  BY <1>3 DEF Named, RowColumns, CapConf
<1>5. QED
  BY <1>1, <1>3, <1>4 DEF SilentIn

LEMMA SetStrategiesSilent ==
    ASSUME NEW rows, NEW strategies, NEW those, NEW keys, Named(rows), SilentIn(rows, keys),
           \A k \in keys \cap those : strategies[k] = "ignore"
    PROVE  SilentIn(SetStrategies(rows, strategies, those), keys)
BY DEF SetStrategies, SilentIn, Silent, Named, RowColumns

LEMMA EditSilent ==
    ASSUME NEW rows, NEW k, NEW edit, NEW keys, k \notin keys, Named(rows), SilentIn(rows, keys)
    PROVE  SilentIn({IF row.key = k THEN apply_override(row, edit) ELSE row : row \in rows}, keys)
<1>1. \A row \in rows : Keeps(apply_override(row, edit), row)
  BY OverrideKeeps DEF Named
<1>2. QED
  BY <1>1 DEF SilentIn, Keeps

-----------------------------------------------------------------------------
(* The same of the scripts as a whole.                                     *)

\* Rows as a script leaves them behind.
Left(rows, keys) == Named(rows) /\ SilentIn(rows, keys)

LEMMA ApplyRatesSilent ==
    ASSUME NEW rows, NEW rs, NEW b, NEW s, NEW keys, Left(rows, keys), Owed(b, keys)
    PROVE  SilentIn(apply_rates(rows, rs, b, s).table, keys)
<1> DEFINE resolved == resolve_null_skus(rows)
           pinned   == {row.key : row \in {q \in rows : Mapped(q) /\ q.sku # None}}
           new      == rate_table(resolved, b, s)
           known    == known_rates(resolved, s)
           made     == DOMAIN with_global_fallback(known, compute_dominant_region(b)) \ DOMAIN known
           flagged  == flag_license_exposure(resolved, b)
           reached  == route_unreachable(flagged, new, b)
           costed   == reprice_null_costs(reached, new, b)
           sourced  == record_source(costed, pinned)
<1>1. Left(resolved, keys)
  BY ResolveNullSkusLines, ResolveNullSkusSilent DEF Left, SameLines
<1>2. CASE skus_used(resolved) = {}
  <2>1. apply_rates(rows, rs, b, s).table = record_source(resolved, {})
    BY <1>2 DEF apply_rates
  <2> HIDE DEF resolved
  <2>2. QED
    BY <1>1, <2>1, RecordSourceSilent DEF Left
<1>3. CASE skus_used(resolved) # {} /\ s = {}
  <2>1. apply_rates(rows, rs, b, s).table = NoCatalog(resolved)
    BY <1>3 DEF apply_rates
  <2> HIDE DEF resolved
  <2>2. QED
    BY <1>1, <2>1, NoCatalogSilent DEF Left
<1>4. CASE skus_used(resolved) # {} /\ s # {}
  <2>1. apply_rates(rows, rs, b, s).table = record_region_basis(sourced, new, b, made)
    BY <1>4 DEF apply_rates
  <2> HIDE DEF resolved, pinned, new, known, made
  <2>2. Left(flagged, keys)
    BY <1>1, FlagLicenseLines, FlagLicenseSilent DEF Left, SameLines
  <2> HIDE DEF flagged
  <2>3. Left(reached, keys)
    BY <2>2, RouteUnreachableLines, RouteUnreachableSilent DEF Left, SameLines
  <2> HIDE DEF reached
  <2>4. Left(costed, keys)
    BY <2>3, RepriceNullCostsLines, RepriceNullCostsSilent DEF Left, SameLines
  <2> HIDE DEF costed
  <2>5. Left(sourced, keys)
    BY <2>4, RecordSourceLines, RecordSourceSilent DEF Left, SameLines
  <2> HIDE DEF sourced
  <2>6. QED
    BY <2>1, <2>5, RecordRegionBasisSilent DEF Left
<1>5. QED
  BY <1>2, <1>3, <1>4

\* The two repairs that a killed validate_fix.py leaves behind.
LEMMA FirstRepairsSilent ==
    ASSUME NEW rows, NEW rs, NEW b, NEW g, NEW keys, Left(rows, keys),
           \A k \in keys : g[k] = "negative_cost"
    PROVE  Left(repair_illegal_passthrough(repair_null_sku_names(rows, b, g), rs, b), keys)
<1> DEFINE named == repair_null_sku_names(rows, b, g)
<1>1. Left(named, keys)
  BY NullSkuNamesLines, NullSkuNamesSilent DEF Left, SameLines
<1> HIDE DEF named
<1>2. Left(repair_illegal_passthrough(named, rs, b), keys)
  BY <1>1, IllegalPassthroughLines, IllegalPassthroughSilent DEF Left, SameLines
<1>3. QED
  BY <1>2 DEF named

LEMMA RepairedMappingSilent ==
    ASSUME NEW rows, NEW rs, NEW b, NEW g, NEW s, NEW keys, Left(rows, keys),
           \A k \in keys : g[k] = "negative_cost"
    PROVE  Left(RepairedMapping(rows, rs, b, g, s), keys)
<1> DEFINE first   == repair_illegal_passthrough(repair_null_sku_names(rows, b, g), rs, b)
           plus    == downgrade_enterprise_plus(first, b, s)
           clamped == clamp_per_n(plus, b)
           gone    == {row.key : row \in {q \in clamped :
                          q.strategy # "ignore" /\ BundledThroughput(b[q.key])}}
<1>1. RepairedMapping(rows, rs, b, g, s) = IgnoreLines(clamped, gone)
  BY DEF RepairedMapping, ignore_bundled_throughput
<1>2. Left(first, keys)
  BY FirstRepairsSilent
<1> HIDE DEF first
<1>3. Left(plus, keys)
  BY <1>2, EnterprisePlusLines, EnterprisePlusSilent DEF Left, SameLines
<1> HIDE DEF plus
<1>4. Left(clamped, keys)
  BY <1>3, ClampPerNLines, ClampPerNSilent DEF Left, SameLines
<1> HIDE DEF clamped, gone
<1>5. Left(IgnoreLines(clamped, gone), keys)
  BY <1>4, IgnoreLinesLines, IgnoreLinesSilent DEF Left, SameLines
<1>6. QED
  BY <1>1, <1>5

LEMMA RepairedProjectionSilent ==
    ASSUME NEW rows, NEW rs, NEW b, NEW keys, Left(rows, keys), Owed(b, keys)
    PROVE  SilentIn(RepairedProjection(rows, rs, b).table, keys)
<1> DEFINE real    == ignore_phantoms(rows, rs, b)
           carried == downgrade_unpriced(real, rs, b)
<1>1. RepairedProjection(rows, rs, b).table = downgrade_detail_less(carried, b)
  BY DEF RepairedProjection
<1>2. Left(real, keys)
  BY IgnoreLinesLines, IgnoreLinesSilent DEF Left, SameLines, ignore_phantoms
<1> HIDE DEF real
<1>3. Left(carried, keys)
  BY <1>2, UnpricedLines, UnpricedSilent DEF Left, SameLines
<1> HIDE DEF carried
<1>4. QED
  BY <1>1, <1>3, DetailLessSilent DEF Left

LEMMA ValidateFixSilent ==
    ASSUME NEW rows, NEW rs, NEW b, NEW g, NEW s, NEW keys, Left(rows, keys), Owed(b, keys),
           \A k \in keys : g[k] = "negative_cost"
    PROVE  SilentIn(validate_fix(rows, rs, b, g, s).table, keys)
<1> DEFINE mapped == RepairedMapping(rows, rs, b, g, s)
           moved  == repair_families(mapped, rs, b, s)
           found  == repair_regions(moved.table, moved.rates, b, s)
           known  == with_cud(found.rates)
<1>1. validate_fix(rows, rs, b, g, s) = RepairedProjection(found.table, known, b)
  BY DEF validate_fix, Completed, RepairedSkus
<1>2. Left(mapped, keys)
  BY RepairedMappingSilent
<1> HIDE DEF mapped
<1>3. Left(moved.table, keys)
  BY <1>2, FamiliesLines, FamiliesSilent DEF Left, SameLines
<1> HIDE DEF moved
<1>4. Left(found.table, keys)
  BY <1>3, RegionsLines, RegionsSilent DEF Left, SameLines
<1> HIDE DEF found, known
<1>5. SilentIn(RepairedProjection(found.table, known, b).table, keys)
  BY <1>4, RepairedProjectionSilent
<1>6. QED
  BY <1>1, <1>5

LEMMA IncrementalRerateSilent ==
    ASSUME NEW rows, NEW rs, NEW b, NEW s, NEW keys, Left(rows, keys)
    PROVE  SilentIn(incremental_rerate(rows, rs, b, s).table, keys)
BY FlagLicenseSilent DEF Left, incremental_rerate

\* No answer is about these lines.
LEMMA ApplyReviewFixesSilent ==
    ASSUME NEW rows, NEW b, NEW candidates, NEW fixes, NEW keys, Left(rows, keys),
           keys \cap DOMAIN fixes = {}
    PROVE  SilentIn(apply_review_fixes(rows, b, candidates, fixes), keys)
<1> SUFFICES ASSUME NEW row \in rows, NEW q, q.key \in keys,
                    q = Answered(Noted(row, b, candidates), rows, b, candidates, fixes)
             PROVE  Silent(q)
  BY DEF SilentIn, apply_review_fixes
<1> DEFINE noted == Noted(row, b, candidates)
<1>1. noted = row \/ noted = Penalize(row, b)
  BY DEF Noted
<1>2. DOMAIN row = RowColumns
  BY DEF Left, Named
<1>3. /\ Keeps(noted, row) /\ noted.strategy = row.strategy /\ noted.sku = row.sku
  BY <1>1, <1>2, PenalizeKeeps DEF Penalize, Keeps, RowColumns
<1> HIDE DEF noted
<1>4. q \in {noted, apply_review_candidate(noted, b, candidates[noted.key]),
             apply_review_override(noted, fixes[noted.key])}
  BY DEF Answered, noted
<1>5. q.key = noted.key
  BY <1>2, <1>3, <1>4, ReviewCandidateKeeps, ReviewOverrideKeeps DEF Keeps
<1>6. noted.key \notin DOMAIN fixes
  BY <1>5
<1>7. q = noted
  BY <1>6 DEF Answered, noted
<1>8. QED
  BY <1>3, <1>5, <1>7 DEF Left, SilentIn, Silent, Keeps

LEMMA ApplyOutlierFixesSilent ==
    ASSUME NEW rows, NEW rs, NEW b, NEW s, NEW candidates, NEW fixes, NEW keys, Left(rows, keys),
           keys \cap DOMAIN fixes = {}
    PROVE  SilentIn(apply_outlier_fixes(rows, rs, b, s, candidates, fixes).table, keys)
<1>1. \E found, overridden :
          /\ DOMAIN found \subseteq DOMAIN fixes /\ overridden \subseteq DOMAIN fixes
          /\ apply_outlier_fixes(rows, rs, b, s, candidates, fixes).table
                = {Applied(row, found, overridden, fixes) : row \in rows}
  BY DEF apply_outlier_fixes
<1>2. PICK found, overridden :
          /\ DOMAIN found \subseteq DOMAIN fixes /\ overridden \subseteq DOMAIN fixes
          /\ apply_outlier_fixes(rows, rs, b, s, candidates, fixes).table
                = {Applied(row, found, overridden, fixes) : row \in rows}
  BY <1>1
<1>3. ASSUME NEW row \in rows, Applied(row, found, overridden, fixes).key \in keys
      PROVE  Silent(Applied(row, found, overridden, fixes))
  <2>1. Applied(row, found, overridden, fixes).key = row.key
    BY CandidateKeeps, OverrideKeeps DEF Applied, Keeps, Left, Named
  <2>2. Applied(row, found, overridden, fixes) = row
    BY <1>2, <1>3, <2>1 DEF Applied
  <2>3. QED
    BY <1>3, <2>1, <2>2 DEF Left, SilentIn
<1>4. QED
  BY <1>2, <1>3 DEF SilentIn

\* What a ledger decides of a line is what one of its directives says of it.
LEMMA Resolved ==
    ASSUME NEW lines, NEW told, NEW s \in Seq(DirectivesOf(lines, told)),
           NEW k \in DOMAIN resolve(s, "strategy"), k \notin told
    PROVE  resolve(s, "strategy")[k] = "ignore"
<1> DEFINE About(q) == {i \in DOMAIN s : s[i].field = "strategy" /\ s[i].key = q}
           those == {d.key : d \in {e \in ToSet(s) : e.field = "strategy"}}
<1>1. resolve(s, "strategy") = [q \in those |-> s[Max(About(q))].value]
  BY DEF resolve
<1>2. Len(s) \in Nat /\ DOMAIN s = 1 .. Len(s) /\ \A i \in DOMAIN s : s[i] \in DirectivesOf(lines, told)
  OBVIOUS
<1>3. k \in those /\ resolve(s, "strategy")[k] = s[Max(About(k))].value
  BY <1>1
<1>4. About(k) \subseteq 0 .. Len(s) /\ About(k) # {}
  BY <1>2, <1>3 DEF ToSet
<1>5. Max(About(k)) \in About(k)
  BY <1>2, <1>4, MaxOf
<1>6. PICK i \in DOMAIN s : i = Max(About(k)) /\ s[i].field = "strategy" /\ s[i].key = k
  BY <1>5
<1>7. s[i].value = "ignore"
  BY <1>2, <1>6 DEF DirectivesOf
<1>8. QED
  BY <1>3, <1>6, <1>7

LEMMA ApplyDirectivesSilent ==
    ASSUME NEW rows, NEW keys, Left(rows, keys), NEW lines, NEW told, keys \cap told = {},
           NEW s \in Seq(DirectivesOf(lines, told)), NEW view,
           NEW new \in apply_directives(rows, s, view)
    PROVE  SilentIn(new, keys)
<1> DEFINE strategies == resolve(s, "strategy")
           fatal == {k \in {row.key : row \in rows} :
                          /\ view
                          /\ \/ k \in DOMAIN strategies /\ strategies[k] = "ignore"
                             \/ k \in DOMAIN resolve(s, "override_rate")}
           reached == {those \in SUBSET DOMAIN strategies :
                          \E last \in fatal : those \cap fatal = {last} \cap DOMAIN strategies}
<1>1. PICK those \in SUBSET DOMAIN strategies : new = SetStrategies(rows, strategies, those)
  <2>1. CASE fatal = {}
    BY <2>1 DEF apply_directives
  <2>2. CASE fatal # {}
    <3>1. new \in {SetStrategies(rows, strategies, those) : those \in reached}
      BY <2>2 DEF apply_directives
    <3>2. QED
      BY <3>1
  <2>3. QED
    BY <2>1, <2>2
<1>2. \A k \in keys \cap those : strategies[k] = "ignore"
  BY Resolved
<1>3. QED
  BY <1>1, <1>2, SetStrategiesSilent DEF Left

\* The merge keeps the rows of a line that every file leaves out.
LEMMA MergeSilent ==
    ASSUME NEW given, DOMAIN given = Files, \A f \in Files : FilesNamed(given[f]),
           NEW lines, NEW groups, NEW catalog, NEW keys,
           \A f \in Files : \A row \in given[f] : row.key \in keys => Silent(row)
    PROVE  SilentIn(merge_mappings(given, lines, groups, catalog), keys)
<1> DEFINE Clean(rows) == {merge_row(clean_row(row), catalog, lines[row.key].region, groups[row.key]) :
                              row \in {q \in rows : valid_row(q, DOMAIN lines)}}
           clean == [f \in Files |-> Clean(given[f])]
           Good(row) == DOMAIN row = MappingColumns /\ (row.key \in keys => Silent(row))
<1>1. ASSUME NEW f \in Files, NEW r \in clean[f] PROVE Good(r)
  <2>1. PICK row \in given[f] :
            r = merge_row(clean_row(row), catalog, lines[row.key].region, groups[row.key])
    BY <1>1
  <2>2. DOMAIN row = MappingColumns /\ (row.key \in keys => Silent(row))
    BY DEF FilesNamed
  <2>3. /\ Keeps(clean_row(row), row)
        /\ clean_row(row).strategy = row.strategy /\ clean_row(row).sku = row.sku
    BY <2>2 DEF clean_row, Keeps, MappingColumns
  <2>4. Keeps(r, clean_row(row))
    BY <2>1, <2>2, <2>3, MergeRowKeeps DEF Keeps
  <2>5. ~Mapped(clean_row(row)) => r = clean_row(row)
    BY <2>1 DEF merge_row
  <2>6. QED
    BY <2>2, <2>3, <2>4, <2>5 DEF Keeps, Mapped, Silent
<1>2. merge_mappings(given, lines, groups, catalog) = {Record(row) : row \in collapse(dedup(clean))}
  BY DEF merge_mappings
<1> HIDE DEF clean
<1>3. \A row \in dedup(clean) : Good(row)
  BY <1>1 DEF dedup, Files
<1> DEFINE rows == dedup(clean)
<1> HIDE DEF rows
<1>4. \A row \in rows : Good(row)
  BY <1>3 DEF rows
<1>5. ASSUME NEW q \in collapse(rows), q.key \in keys PROVE Silent(q)
  <2> DEFINE Of(k) == {row \in rows : row.key = k}
             Whole(k) == /\ Cardinality(Of(k)) > 1
                         /\ \A row \in Of(k) : row.bd /\ row.strategy = "passthrough"
  <2>1. PICK row \in rows :
            q = IF Whole(row.key)
                THEN [(CHOOSE first \in Of(row.key) : TRUE) EXCEPT !.comp = None, !.mult = 1, !.bd = FALSE]
                ELSE row
    BY DEF collapse
  <2>2. PICK chosen \in rows :
            chosen.key = row.key /\ chosen = (CHOOSE first \in Of(row.key) : TRUE)
    <3>1. (CHOOSE first \in Of(row.key) : TRUE) \in Of(row.key)
      OBVIOUS
    <3>2. QED
      BY <3>1
  <2>3. [chosen EXCEPT !.comp = None, !.mult = 1, !.bd = FALSE].key = chosen.key
    BY <1>4 DEF MappingColumns
  <2>4. q.key = row.key
    BY <2>1, <2>2, <2>3
  <2>5. ~Whole(row.key)
    <3>1. row \in Of(row.key) /\ row.strategy = "ignore"
      BY <1>4, <1>5, <2>4 DEF Silent
    <3>2. QED
      BY <3>1
  <2>6. q = row
    BY <2>1, <2>5
  <2>7. QED
    BY <1>4, <1>5, <2>6
<1>6. QED
  BY <1>2, <1>5 DEF SilentIn, Silent, Record, rows

\* The edit of an agent that is told to correct other lines.
LEMMA GateSilent ==
    ASSUME NEW keys, Left(table, keys), NEW gate, NEW bad, keys \cap bad = {}, NEW post,
           SoftGate(gate, bad, post)
    PROVE  SilentIn(table', keys)
<1>1. CASE table' = table
  BY <1>1 DEF Left
<1>2. ASSUME NEW k \in bad, NEW edit,
             table' = {IF row.key = k THEN apply_override(row, edit) ELSE row : row \in table}
      PROVE  SilentIn(table', keys)
  BY <1>2, EditSilent DEF Left
<1>3. QED
  BY <1>1, <1>2 DEF SoftGate

-----------------------------------------------------------------------------
(* Credits, from the bill to the report.                                   *)

LEMMA OnlyClassifies ==
    ASSUME RunScript, todo # <<>>, \A s : At(s) => s = "classify_mechanics",
           Head(todo) = "classify_mechanics"
    PROVE  Classify \/ ScriptFails
BY DEF RunScript, Classify, ApplyCommitmentIgnores, ApplyStaticMappings, MappingAgent,
       MappingAgentBlocked, MergeMappings, MergeMappingsRollsBack, ServiceClassifier,
       FixStorageMisroute, ReconcileCapacity, DirectivesFromLegacy, ApplyDirectives, GateNotEvaluated,
       Gates, CoverageGates, CoverageGate, CoveragePasses, RetryAgent, RetryAgentBlocked,
       CoverageAfterRetry, EnsureFullCoverage, CoverageAtLast,
       AutoReview, ReviewAgent, ReviewAgentBlocked, ApplyReviewFixes, NoIllegalPassthroughs,
       NoIllegalPassthroughsBlocked, ApplyRates, ValidateFix, ValidateFixDies, NoNullProjectedCost,
       NoNullProjectedCostBlocked, DetectOutliers, AutoTriage, IncrementalRerate, TriageAgent,
       TriageAgentBlocked, ApplyOutlierFixes, OutlierGate, OverAndUnderProjection,
       OverAndUnderProjectionBlocked, Finish, Rewrite, Reprice, SoftGate, SoftGateBlocked,
       AgentBlocked

LEMMA Running == ASSUME RunScript PROVE status = "running"
BY DEF RunScript, ScriptFails, Classify, ApplyCommitmentIgnores, ApplyStaticMappings, MappingAgent,
       MappingAgentBlocked, MergeMappings, MergeMappingsRollsBack, ServiceClassifier,
       FixStorageMisroute, ReconcileCapacity, DirectivesFromLegacy, ApplyDirectives, GateNotEvaluated,
       Gates, CoverageGates, CoverageGate, CoveragePasses, RetryAgent, RetryAgentBlocked,
       CoverageAfterRetry, EnsureFullCoverage, CoverageAtLast,
       AutoReview, ReviewAgent, ReviewAgentBlocked, ApplyReviewFixes, NoIllegalPassthroughs,
       NoIllegalPassthroughsBlocked, ApplyRates, ValidateFix, ValidateFixDies, NoNullProjectedCost,
       NoNullProjectedCostBlocked, DetectOutliers, AutoTriage, IncrementalRerate, TriageAgent,
       TriageAgentBlocked, ApplyOutlierFixes, OutlierGate, OverAndUnderProjection,
       OverAndUnderProjectionBlocked, Finish, Rewrite, Reprice, SoftGate, SoftGateBlocked,
       AgentBlocked, At

\* classify_mechanics.py looks at the sign of the cost before anything else.
LEMMA ClassifyGroups ==
    ASSUME DataTyped, Classify
    PROVE  \E groups : /\ Grouped(groups, TrustedLines(groups))
                       /\ \A k \in Credits : groups[k] = "negative_cost"
<1>1. PICK d, groups :
          /\ groups = [k \in Lines |-> classify([bill[k] EXCEPT !.discounted = d])]
          /\ Grouped(groups, TrustedLines(groups))
  BY DEF Classify
<1>2. ASSUME NEW k \in Credits PROVE groups[k] = "negative_cost"
  <2>1. k \in Lines /\ bill[k].cost < 0 /\ "cost" \in DOMAIN bill[k]
    BY BillsAssumption DEF Credits, DataTyped, PlanTyped, Lines
  <2>2. [bill[k] EXCEPT !.discounted = d].cost = bill[k].cost
    BY <2>1
  <2>3. classify([bill[k] EXCEPT !.discounted = d]) = "negative_cost"
    BY <2>1, <2>2 DEF classify
  <2>4. QED
    BY <1>1, <2>1, <2>3
<1>3. QED
  BY <1>1, <1>2

LEMMA CreditsGroupedStep ==
    ASSUME IInv, DataTyped, CreditsGrouped, [Next]_vars
    PROVE  CreditsGrouped'
<1>1. bill' = bill /\ Credits' = Credits
  BY ChangedBy, ChangedElsewhere DEF inputVars, Credits, Lines
<1>2. CASE Classify
  <2>1. \A k \in Credits : group'[k] = "negative_cost"
    BY <1>2, ClassifyGroups DEF Grouped
  <2>2. QED
    BY <1>1, <2>1 DEF CreditsGrouped
<1>3. CASE RunScript /\ ~Classify
  <2>1. status = "running"
    BY <1>3, Running
  <2>2. CASE \A k \in Credits : group[k] = "negative_cost"
    <3>1. group' = group
      BY <1>3, ChangedBy DEF planVars, ApplyCommitmentIgnores, ApplyStaticMappings, MappingAgent
    <3>2. QED
      BY <1>1, <2>2, <3>1 DEF CreditsGrouped
  <2>3. CASE recalcs = 0 /\ todo # <<>> /\ todo[1] = "classify_mechanics"
    <3>1. Head(todo) = "classify_mechanics" /\ \A s : At(s) => s = "classify_mechanics"
      BY <2>3 DEF At, IInv, PlanOrdered, Ordered
    <3>2. ScriptFails
      BY <1>3, <2>3, <3>1, OnlyClassifies
    <3>3. status' = "failed"
      BY <2>3, <3>1, <3>2 DEF ScriptFails, Required, Fail
    <3>4. QED
      BY <3>3 DEF CreditsGrouped
  <2>4. QED
    BY <2>1, <2>2, <2>3 DEF CreditsGrouped
<1>4. CASE ~RunScript
  <2>1. group' = group
    BY <1>4, ChangedElsewhere DEF planVars
  <2>2. CASE UNCHANGED flowVars
    BY <1>1, <2>1, <2>2 DEF CreditsGrouped, flowVars
  <2>3. CASE \E changed : RecalculateWith(changed)
    <3>1. status = "done"
      BY <2>3 DEF RecalculateWith
    <3>2. QED
      BY <1>1, <2>1, <3>1 DEF CreditsGrouped
  <2>4. QED
    BY <1>4, <2>2, <2>3, ChangedElsewhere
<1>5. QED
  BY <1>2, <1>3, <1>4 DEF RunScript

\* What a handler returns is about lines of its group.
LEMMA HandlerGroup ==
    ASSUME NEW g, NEW h, h = run_handler(bill, group, g, Cats)
    PROVE  /\ \A row \in h.rows : group[row.key] = g
           /\ \A k \in h.llm : group[k] = g
<1> DEFINE rows == Batch(bill, group, g)
           entries == BatchEntries(g, rows, Cats)
<1>1. h = HandlerResult(rows, g, entries)
  BY DEF run_handler
<1>2. \A i \in DOMAIN rows : group[i] = g
  BY DEF Batch
<1> HIDE DEF rows, entries
<1>3. /\ h.rows = UNION {{MappingRow(i, rows[i], g, e) : e \in entries[i]} : i \in DOMAIN rows}
      /\ h.llm = {i \in DOMAIN rows : entries[i] = Llm}
  BY <1>1 DEF HandlerResult
<1>4. ASSUME NEW i, NEW r, NEW e PROVE MappingRow(i, r, g, e).key = i
  BY DEF MappingRow
<1>5. QED
  BY <1>2, <1>3, <1>4

LEMMA OtherGroups ==
    /\ None \notin STATIC_GROUPS /\ "negative_cost" \notin STATIC_GROUPS
    /\ None \notin LLM_GROUPS /\ "negative_cost" \notin LLM_GROUPS
BY DEF STATIC_GROUPS, DETERMINISTIC_GROUPS, LLM_GROUPS, None

LEMMA CreditsPlannedStep ==
    ASSUME DataTyped, CreditsPlanned, [Next]_vars
    PROVE  CreditsPlanned'
<1>1. bill' = bill /\ Credits' = Credits
  BY ChangedBy, ChangedElsewhere DEF inputVars, Credits, Lines
<1>2. CASE UNCHANGED planVars
  BY <1>1, <1>2 DEF CreditsPlanned, planVars
<1>3. CASE Classify
  <2>1. PICK groups : /\ Grouped(groups, TrustedLines(groups))
                      /\ \A k \in Credits : groups[k] = "negative_cost"
    BY <1>3, ClassifyGroups
  <2>2. /\ group' = groups
        /\ \A g \in LLM_GROUPS : manifest'[g] \subseteq {k \in Lines : groups[k] = g}
    BY <2>1 DEF Grouped
  <2>3. ASSUME NEW f \in Files, NEW row \in files'[f], row.key \in Credits PROVE Silent(row)
    <3>1. CASE row \in files[f]
      BY <2>3, <3>1 DEF CreditsPlanned
    <3>2. CASE row \notin files[f]
      <4>1. PICK k \in TrustedLines(groups) : row = Keyed(k, trusted[bill[k].canonical])
        BY <2>1, <2>3, <3>2 DEF Grouped, DataTyped, PlanTyped
      <4>2. bill[k].canonical \in DOMAIN trusted /\ groups[k] = "misc"
        BY <4>1 DEF TrustedLines
      <4>3. DOMAIN trusted[bill[k].canonical] = MappingColumns
        BY <4>2 DEF DataTyped, PlanTyped
      <4>4. row.key = k
        BY <4>1, <4>3, KeyedNamed
      <4>5. QED
        BY <2>1, <2>3, <4>2, <4>4
    <3>3. QED
      BY <3>1, <3>2
  <2>4. QED
    BY <1>1, <2>1, <2>2, <2>3, OtherGroups DEF CreditsPlanned
<1>4. CASE ApplyCommitmentIgnores
  <2>1. UNCHANGED <<group, manifest>>
    BY <1>4 DEF ApplyCommitmentIgnores
  <2>2. \A k : Silent(IgnoreRow(k))
    BY DEF Silent, IgnoreRow
  <2>3. ASSUME NEW f \in Files, NEW row \in files'[f] PROVE row \in files[f] \/ Silent(row)
    BY <1>4, <2>2, <2>3 DEF ApplyCommitmentIgnores
  <2>4. QED
    BY <1>1, <2>1, <2>3 DEF CreditsPlanned
<1>5. CASE ApplyStaticMappings
  <2>1. group' = group
    BY <1>5 DEF ApplyStaticMappings
  <2>2. PICK groups : files' = StaticFiles(Handled, groups) /\ groups \subseteq DOMAIN Handled
    BY <1>5 DEF ApplyStaticMappings
  <2>3. ASSUME NEW g \in DOMAIN Handled
        PROVE  /\ \A row \in Handled[g].rows : row.key \notin Credits
               /\ \A k \in Handled[g].llm : k \notin Credits
    <3>1. g \in STATIC_GROUPS /\ Handled[g] = run_handler(bill, group, g, Cats)
      BY DEF Handled
    <3>2. /\ \A row \in Handled[g].rows : group[row.key] = g
          /\ \A k \in Handled[g].llm : group[k] = g
      BY <3>1, HandlerGroup
    <3>3. QED
      BY <3>1, <3>2, OtherGroups DEF CreditsPlanned
  <2>4. \A f \in Files : \A row \in files'[f] : row \in files[f] \/ row.key \notin Credits
    BY <2>2, <2>3 DEF StaticFiles
  <2>5. manifest' \in {manifest, Pruned(Handled)}
    BY <1>5 DEF ApplyStaticMappings
  <2>6. ASSUME NEW g \in LLM_GROUPS, NEW k \in Credits PROVE k \notin Pruned(Handled)[g]
    <3>1. k \notin manifest["misc"]
      BY DEF CreditsPlanned, LLM_GROUPS
    <3>2. QED
      BY <2>3, <3>1 DEF Pruned
  <2>7. QED
    BY <1>1, <2>1, <2>4, <2>5, <2>6 DEF CreditsPlanned
<1>6. CASE MappingAgent
  <2>1. UNCHANGED <<group, manifest>>
    BY <1>6 DEF MappingAgent
  <2>2. PICK drafts \in [UNION {manifest[g] : g \in LLM_GROUPS} -> Drafts] :
        \E cleared : files' = [g \in Files |->
            CASE g \in LLM_GROUPS /\ manifest[g] # {} ->
                     UNION {{Keyed(k, d) : d \in drafts[k]} : k \in manifest[g]}
              [] g \in cleared -> {}
              [] OTHER -> files[g]]
    BY <1>6 DEF MappingAgent
  <2>3. ASSUME NEW g \in LLM_GROUPS, NEW k \in manifest[g], NEW d \in drafts[k]
        PROVE  Keyed(k, d).key \notin Credits
    <3>1. DOMAIN d = MappingColumns
      BY <2>2, DraftsAssumption
    <3>2. QED
      BY <3>1, KeyedNamed DEF CreditsPlanned
  <2>4. \A f \in Files : \A row \in files'[f] : row \in files[f] \/ row.key \notin Credits
    BY <2>2, <2>3
  <2>5. QED
    BY <1>1, <2>1, <2>4 DEF CreditsPlanned
<1>7. QED
  BY <1>2, <1>3, <1>4, <1>5, <1>6, ChangedBy, ChangedElsewhere

\* Of the table of a running job nobody has to say anything about a credit.
LEMMA CreditsSilentRun ==
    ASSUME IInv, DataTyped, CInv, RunScript, Lines' = Lines, bill' = bill, LedgerIgnores',
           added \subseteq added', Told \subseteq Told', added' \subseteq Lines'
    PROVE  SilentIn(table', Untold')
<1> DEFINE keys == Untold'
<1>1. /\ keys \subseteq Untold /\ keys \subseteq Credits
      /\ keys \cap added' = {} /\ keys \cap Told' = {} /\ keys \cap Told = {}
  BY DEF Untold, Credits
<1>2. Owed(bill, keys)
  BY <1>1, BillsAssumption DEF Credits, Lines, DataTyped, PlanTyped, Owed
<1>3. Left(table, keys)
  BY <1>1 DEF Left, IInv, FlowTyped, CInv, CreditsSilent, SilentIn
<1>4. keys \cap DOMAIN review.fixes = {} /\ keys \cap DOMAIN triage.fixes = {}
  BY <1>1 DEF Told
<1> HIDE DEF keys
<1> SUFFICES SilentIn(table', keys)
  BY DEF keys
<1>5. ASSUME NEW s, At(s), s # "classify_mechanics"
      PROVE  \A k \in keys : group[k] = "negative_cost"
  <2>1. status = "running" /\ todo # <<>> /\ todo[1] # "classify_mechanics"
    BY <1>5 DEF At, IInv, PlanOrdered, Ordered
  <2>2. QED
    BY <1>1, <2>1 DEF CInv, CreditsGrouped
<1>6. ASSUME table' = table PROVE SilentIn(table', keys)
  BY <1>3, <1>6 DEF Left
<1>7. CASE \/ ScriptFails \/ Classify \/ ApplyCommitmentIgnores \/ ApplyStaticMappings
           \/ MappingAgent \/ MappingAgentBlocked \/ MergeMappingsRollsBack \/ DirectivesFromLegacy
           \/ GateNotEvaluated \/ CoveragePasses \/ RetryAgentBlocked \/ CoverageAfterRetry
           \/ CoverageAtLast
           \/ AutoReview \/ ReviewAgent \/ ReviewAgentBlocked \/ NoIllegalPassthroughsBlocked
           \/ NoNullProjectedCostBlocked \/ DetectOutliers \/ AutoTriage \/ TriageAgent
           \/ TriageAgentBlocked \/ OverAndUnderProjectionBlocked \/ Finish
  <2>1. table' = table
    BY <1>7 DEF ScriptFails, Classify, ApplyCommitmentIgnores, ApplyStaticMappings, MappingAgent,
                MappingAgentBlocked, MergeMappingsRollsBack, DirectivesFromLegacy, GateNotEvaluated,
                CoveragePasses, RetryAgentBlocked, CoverageAfterRetry, CoverageAtLast, AutoReview, ReviewAgent,
                ReviewAgentBlocked, NoIllegalPassthroughsBlocked, NoNullProjectedCostBlocked,
                DetectOutliers, AutoTriage, TriageAgent, TriageAgentBlocked,
                OverAndUnderProjectionBlocked, Finish, SoftGateBlocked, AgentBlocked, tableVars
  <2>2. QED
    BY <1>6, <2>1
<1>8. CASE MergeMappings
  <2>1. table' = merge_mappings(files, bill, group, skus)
    BY <1>8 DEF MergeMappings
  <2>2. /\ DOMAIN files = Files /\ \A f \in Files : FilesNamed(files[f])
        /\ \A f \in Files : \A row \in files[f] : row.key \in keys => Silent(row)
    BY <1>1 DEF DataTyped, PlanTyped, CInv, CreditsPlanned
  <2>3. QED
    BY <2>1, <2>2, MergeSilent
<1>9. CASE ServiceClassifier
  <2>1. At("service_classifier") /\ table' = service_classifier(table, bill, group)
    BY <1>9 DEF ServiceClassifier, Rewrite
  <2>2. QED
    BY <1>2, <1>3, <1>5, <2>1, ServiceClassifierSilent DEF Left
<1>10. CASE FixStorageMisroute
  <2>1. At("fix_storage_misroute") /\ table' = fix_storage_misroute(table, bill, group)
    BY <1>10 DEF FixStorageMisroute, Rewrite
  <2>2. QED
    BY <1>3, <1>5, <2>1, FixStorageMisrouteSilent DEF Left
<1>11. CASE ReconcileCapacity
  BY <1>3, <1>11, ReconcileCapacitySilent DEF ReconcileCapacity, Rewrite, Left
<1>12. CASE ApplyDirectives
  <2>1. table' \in apply_directives(table, ledger', Projected)
    BY <1>12 DEF ApplyDirectives
  <2>2. ledger' \in Seq(DirectivesOf(Lines', Told'))
    BY DEF LedgerIgnores
  <2>3. QED
    BY <1>1, <1>3, <2>1, <2>2, ApplyDirectivesSilent
<1>13. CASE RetryAgent
  <2>1. PICK rows : table' = table \cup rows /\ added' = {row.key : row \in rows}
    BY <1>13 DEF RetryAgent
  <2>2. \A row \in rows : row.key \notin keys
    BY <1>1, <2>1
  <2>3. QED
    BY <1>3, <2>1, <2>2 DEF Left, SilentIn
<1>14. CASE EnsureFullCoverage
  <2>1. table' = table \cup {Backstop(k) : k \in Lines \ Covered}
    BY <1>14 DEF EnsureFullCoverage, Rewrite
  <2>2. ASSUME NEW k, Backstop(k).key \in keys PROVE Silent(Backstop(k))
    <3>1. Backstop(k).key = k
      BY DEF Backstop, Record, IgnoreRow
    <3>2. IsIgnore(k)
      BY <1>2, <2>2, <3>1 DEF IsIgnore, Owed
    <3>3. QED
      BY <3>2 DEF Silent, Backstop, Record, IgnoreRow
  <2>3. QED
    BY <1>3, <2>1, <2>2 DEF Left, SilentIn
<1>15. CASE ApplyReviewFixes
  BY <1>3, <1>4, <1>15, ApplyReviewFixesSilent DEF ApplyReviewFixes, Rewrite
<1>16. CASE NoIllegalPassthroughs
  <2>1. keys \cap IllegalLines = {}
    BY <1>3 DEF IllegalLines, Rows, Left, SilentIn, Silent
  <2>2. QED
    BY <1>3, <1>16, <2>1, GateSilent DEF NoIllegalPassthroughs
<1>17. CASE NoNullProjectedCost
  <2>1. keys \cap NullLines = {} /\ keys \cap (NullLines \cup MayLackService) = {}
    BY <1>2 DEF NullLines, MayLackService, Owed
  <2>2. QED
    BY <1>3, <1>17, <2>1, GateSilent DEF NoNullProjectedCost
<1>18. CASE OverAndUnderProjection
  <2>1. keys \cap OffLines = {}
    BY <1>3 DEF OffLines, Rows, Left, SilentIn, Silent, Mapped
  <2>2. QED
    BY <1>3, <1>18, <2>1, GateSilent DEF OverAndUnderProjection
<1>19. CASE ApplyRates \/ IncrementalRerate
  BY <1>2, <1>3, <1>19, ApplyRatesSilent, IncrementalRerateSilent
     DEF ApplyRates, IncrementalRerate, Reprice
<1>20. CASE ValidateFix
  <2>1. At("validate_fix") /\ table' = validate_fix(table, rates, bill, group, skus).table
    BY <1>20 DEF ValidateFix, Reprice
  <2>2. QED
    BY <1>2, <1>3, <1>5, <2>1, ValidateFixSilent
<1>21. CASE ValidateFixDies
  <2>1. /\ At("validate_fix")
        /\ table' = repair_illegal_passthrough(repair_null_sku_names(table, bill, group), rates, bill)
    BY <1>21 DEF ValidateFixDies
  <2>2. QED
    BY <1>3, <1>5, <2>1, FirstRepairsSilent DEF Left
<1>22. CASE ApplyOutlierFixes
  BY <1>3, <1>4, <1>22, ApplyOutlierFixesSilent DEF ApplyOutlierFixes, Reprice
<1>23. CASE OutlierGate
  BY <1>2, <1>3, <1>23, OutlierGateSilent DEF OutlierGate, Rewrite, Left
<1>24. QED
  BY <1>7, <1>8, <1>9, <1>10, <1>11, <1>12, <1>13, <1>14, <1>15, <1>16, <1>17, <1>18, <1>19,
     <1>20, <1>21, <1>22, <1>23 DEF RunScript

LEMMA CreditsSilentStep ==
    ASSUME IInv, DataTyped, CInv, [Next]_vars, DataTyped', LedgerIgnores', Told \subseteq Told'
    PROVE  CreditsSilent'
<1>1. bill' = bill /\ Lines' = Lines
  BY ChangedBy, ChangedElsewhere DEF inputVars, Lines
<1>2. CASE RunScript
  <2>1. added \subseteq added'
    <3>1. CASE RetryAgent
      <4>1. At("mapping_coverage") /\ todo \in Seq(ScriptNames)
        BY <3>1 DEF RetryAgent, CoverageGate, IInv, PlanOrdered, Ordered
      <4>2. Has(todo, "mapping_coverage")
        <5>1. todo # <<>> /\ todo[1] = "mapping_coverage"
          BY <4>1, AtFirst DEF IInv, PlanOrdered
        <5>2. 1 \in 1 .. Len(todo)
          BY <4>1, <5>1, TailOf
        <5>3. QED
          BY <5>1, <5>2 DEF Has
      <4>3. QED
        BY <4>2 DEF CInv, ToldOnce
    <3>2. QED
      BY <1>2, <3>1, ChangedBy
  <2>2. added' \subseteq Lines'
    BY DEF DataTyped, RowsTyped
  <2>3. SilentIn(table', Untold')
    BY <1>1, <1>2, <2>1, <2>2, CreditsSilentRun
  <2>4. QED
    BY <2>3 DEF CreditsSilent, SilentIn
<1>3. CASE ~RunScript
  <2>1. UNCHANGED <<table, added, review, triage>>
    BY <1>3, ChangedElsewhere DEF tableVars, fixVars
  <2>2. QED
    BY <1>1, <2>1 DEF CInv, CreditsSilent, Untold, Credits, Told
<1>4. QED
  BY <1>2, <1>3

LEMMA StartsWith ==
    ASSUME NEW s \in Seq(ScriptNames), NEW t \in Seq(ScriptNames), NEW x, s # <<>>, s[1] = x
    PROVE  s \o t \in Seq(ScriptNames) /\ s \o t # <<>> /\ (s \o t)[1] = x
<1>1. Len(s) \in Nat \ {0}
  BY TailOf
<1>2. 1 \in 1 .. Len(s)
  BY <1>1
<1> DEFINE u == s \o t
<1>3. u \in Seq(ScriptNames) /\ Len(u) = Len(s) + Len(t) /\ Len(t) \in Nat /\ u[1] = s[1]
  BY <1>2, ConcatOf
<1> HIDE DEF u
<1>4. u # <<>>
  BY <1>1, <1>3
<1>5. QED
  BY <1>3, <1>4 DEF u

LEMMA PipelineStarts ==
    ASSUME NEW on \in BOOLEAN
    PROVE  Pipeline(on) # <<>> /\ Pipeline(on)[1] = "classify_mechanics"
<1> DEFINE a == <<"classify_mechanics", "apply_commitment_ignores", "apply_static_mappings",
                  "mapping_agent">>
           b == <<"mapping_coverage", "auto_review", "review_agent">>
           c == <<"no_illegal_passthroughs", "apply_rates">>
           d == <<"no_null_projected_cost", "detect_outliers", "auto_triage",
                  "incremental_rerate", "triage_agent">>
           e == <<"over_and_under_projection">>
           Begun(s) == s \in Seq(ScriptNames) /\ s # <<>> /\ s[1] = "classify_mechanics"
<1>1. /\ Begun(a) /\ b \in Seq(ScriptNames) /\ c \in Seq(ScriptNames)
      /\ d \in Seq(ScriptNames) /\ e \in Seq(ScriptNames)
  BY Tuples DEF ScriptNames
<1>2. /\ PostMapping(on) \in Seq(ScriptNames) /\ PostReview(on) \in Seq(ScriptNames)
      /\ PostRates \in Seq(ScriptNames) /\ PostTriage(on) \in Seq(ScriptNames)
  BY PostSteps
<1>3. Pipeline(on) = (((((((a \o PostMapping(on)) \o b) \o PostReview(on)) \o c) \o PostRates) \o d)
                          \o PostTriage(on)) \o e
  BY DEF Pipeline
<1>4. \A s, t \in Seq(ScriptNames) : Begun(s) => Begun(s \o t)
  BY StartsWith
<1> HIDE DEF a, b, c, d, e, Begun
<1>5. \A s : Begun(s) => s \in Seq(ScriptNames)
  BY DEF Begun
<1>6. Begun((a \o PostMapping(on)) \o b)
  BY <1>1, <1>2, <1>4, <1>5
<1>7. Begun((((a \o PostMapping(on)) \o b) \o PostReview(on)) \o c)
  BY <1>1, <1>2, <1>4, <1>5, <1>6
<1>8. Begun((((((a \o PostMapping(on)) \o b) \o PostReview(on)) \o c) \o PostRates) \o d)
  BY <1>1, <1>2, <1>4, <1>5, <1>7
<1>9. Begun(Pipeline(on))
  BY <1>1, <1>2, <1>3, <1>4, <1>5, <1>8
<1>10. QED
  BY <1>9 DEF Begun

LEMMA InitCInv == ASSUME Init PROVE CInv
<1>1. DataTyped
  BY InitData
<1>2. PlanApart
  BY ApartInit
<1>3. /\ DOMAIN review.fixes = {} /\ DOMAIN triage.fixes = {} /\ added = {} /\ table = {}
      /\ Told = {}
  BY DEF Init, NoFiles, Told
<1>4. ToldOnce
  BY <1>3 DEF ToldOnce
<1>5. LedgerIgnores
  BY Tuples DEF Init, LedgerIgnores
<1>6. CreditsGrouped
  <2>1. layer \in BOOLEAN /\ status = "running" /\ recalcs = 0 /\ todo = Pipeline(layer)
    BY BoundsAssumption DEF Init
  <2>2. todo # <<>> /\ todo[1] = "classify_mechanics"
    BY <2>1, PipelineStarts
  <2>3. QED
    BY <2>1, <2>2 DEF CreditsGrouped
<1>7. CreditsPlanned /\ CreditsSilent
  BY <1>3 DEF Init, CreditsPlanned, CreditsSilent, Credits, Lines
<1>8. QED
  BY <1>2, <1>4, <1>5, <1>6, <1>7 DEF CInv

LEMMA CInvStep ==
    ASSUME IInv, DataTyped, CInv, [Next]_vars, DataTyped'
    PROVE  CInv'
<1>1. PlanApart'
  BY ApartStep DEF CInv
<1>2. ToldOnce' /\ Told \subseteq Told'
  BY ToldStep DEF CInv
<1>3. LedgerIgnores'
  BY <1>2, LedgerStep DEF CInv
<1>4. CreditsGrouped' /\ CreditsPlanned'
  BY CreditsGroupedStep, CreditsPlannedStep DEF CInv
<1>5. CreditsSilent'
  BY <1>2, <1>3, CreditsSilentStep
<1>6. QED
  BY <1>1, <1>2, <1>3, <1>4, <1>5 DEF CInv

LEMMA InvariantCredits == Spec => []CInv
<1>1. Init => CInv
  BY InitCInv
<1>2. IInv /\ DataTyped /\ CInv /\ [Next]_vars /\ (IInv /\ DataTyped)' => CInv'
  BY CInvStep
<1>3. QED
  BY <1>1, <1>2, InvariantData, PTL DEF Spec

\* A credit on the bill costs nothing in any report, of the run itself or of a
\* recalculation, whatever the catalogue, the overrides and the failing scripts
\* are and whatever the agents answer about other lines: classify_mechanics.py
\* groups it by its sign, apply_commitment_ignores.py and the backstop leave it
\* out, and no script after them maps or carries a row that is left out.
THEOREM CreditsStayOut == Spec => []CreditsAddNothing
<1>1. IInv /\ DataTyped /\ CInv => CreditsAddNothing
  <2> SUFFICES ASSUME IInv, DataTyped, CInv, NEW row \in table, bill[row.key].cost < 0,
                      row.key \notin added \cup DOMAIN review.fixes \cup DOMAIN triage.fixes
               PROVE  RowCost(table, rates, bill, row, "OnDemand") = 0
    BY DEF CreditsAddNothing
  <2>1. row.key \in Lines
    BY DEF DataTyped, RowsTyped, Covered
  <2>2. Silent(row)
    BY <2>1 DEF CInv, CreditsSilent, Untold, Told, Credits
  <2>3. QED
    BY <2>2 DEF RowCost, Silent, Mapped, Unpriced
<1>2. QED
  BY <1>1, InvariantData, InvariantCredits, PTL

-----------------------------------------------------------------------------
(* What is mapped, and the rates, after a script.                          *)

\* Nothing is mapped, or mapped to another SKU, that was not before.
SameMapped(new, rows, exempt) ==
    \A q \in new : Mapped(q) /\ q.key \notin exempt =>
        \E row \in rows : Mapped(row) /\ row.key = q.key /\ row.sku = q.sku

\* A SKU that has a rate somewhere in reach still has one.
RatesKept(more, rs) ==
    \A sku, region, dom :
        RateAt(rs, sku, "OnDemand", region, dom) # NoRate =>
            RateAt(more, sku, "OnDemand", region, dom) # NoRate

LEMMA PricesKept ==
    ASSUME NEW rows, NEW new, NEW rs, NEW more, NEW b, NEW exempt,
           KeepsPrice(rows, rs, b, exempt), SameMapped(new, rows, exempt), RatesKept(more, rs)
    PROVE  KeepsPrice(new, more, b, exempt)
<1> DEFINE dom == compute_dominant_region(b)
<1> SUFFICES ASSUME NEW q \in new, Mapped(q), b[q.key].cost > 5, q.key \notin exempt
             PROVE  HasCost(q, more, b[q.key], dom)
  BY DEF KeepsPrice
<1>1. PICK row \in rows : Mapped(row) /\ row.key = q.key /\ row.sku = q.sku
  BY DEF SameMapped
<1>2. HasCost(row, rs, b[row.key], dom)
  BY <1>1 DEF KeepsPrice
<1>3. RateAt(rs, q.sku, "OnDemand", b[q.key].region, dom) # NoRate
  BY <1>1, <1>2 DEF HasCost
<1>4. RateAt(more, q.sku, "OnDemand", b[q.key].region, dom) # NoRate
  BY <1>3 DEF RatesKept
<1>5. QED
  BY <1>4 DEF HasCost, Mapped

LEMMA RatesUnchanged == ASSUME NEW rs PROVE RatesKept(rs, rs)
BY DEF RatesKept

LEMMA FlagLicenseMapped ==
    ASSUME NEW rows, NEW b, NEW exempt, Named(rows)
    PROVE  SameMapped(flag_license_exposure(rows, b), rows, exempt)
BY DEF flag_license_exposure, SameMapped, Mapped, Named, RowColumns, CapConf

LEMMA RecordSourceMapped ==
    ASSUME NEW rows, NEW pinned, NEW exempt, Named(rows)
    PROVE  SameMapped(record_source(rows, pinned), rows, exempt)
BY DEF record_source, SameMapped, Mapped, Named, RowColumns

LEMMA RecordRegionBasisMapped ==
    ASSUME NEW rows, NEW rs, NEW b, NEW made, NEW exempt, Named(rows)
    PROVE  SameMapped(record_region_basis(rows, rs, b, made), rows, exempt)
BY DEF record_region_basis, SameMapped, Mapped, Named, RowColumns

LEMMA OutlierGateMapped ==
    ASSUME NEW rows, NEW rs, NEW b, NEW exempt, Named(rows)
    PROVE  SameMapped(outlier_gate(rows, rs, b), rows, exempt)
BY DEF outlier_gate, SameMapped, Mapped, Named, RowColumns

\* The directives of a job nobody has answered in only leave lines out.
LEMMA ApplyDirectivesMapped ==
    ASSUME NEW rows, NEW exempt, Named(rows), NEW lines, NEW s \in Seq(DirectivesOf(lines, {})),
           NEW view, NEW new \in apply_directives(rows, s, view)
    PROVE  SameMapped(new, rows, exempt)
<1> DEFINE strategies == resolve(s, "strategy")
           fatal == {k \in {row.key : row \in rows} :
                          /\ view
                          /\ \/ k \in DOMAIN strategies /\ strategies[k] = "ignore"
                             \/ k \in DOMAIN resolve(s, "override_rate")}
           reached == {those \in SUBSET DOMAIN strategies :
                          \E last \in fatal : those \cap fatal = {last} \cap DOMAIN strategies}
<1>1. PICK those \in SUBSET DOMAIN strategies : new = SetStrategies(rows, strategies, those)
  <2>1. CASE fatal = {}
    BY <2>1 DEF apply_directives
  <2>2. CASE fatal # {}
    <3>1. new \in {SetStrategies(rows, strategies, those) : those \in reached}
      BY <2>2 DEF apply_directives
    <3>2. QED
      BY <3>1
  <2>3. QED
    BY <2>1, <2>2
<1>2. \A k \in those : strategies[k] = "ignore"
  BY Resolved
<1> HIDE DEF strategies
<1>3. QED
  BY <1>1, <1>2 DEF SetStrategies, SameMapped, Mapped, Named, RowColumns

\* Killed after its first repairs, validate_fix.py has mapped no other lines.
LEMMA FirstRepairsMapped ==
    ASSUME NEW rows, NEW rs, NEW exempt, Named(rows), LinesOf(rows) \subseteq Lines,
           \A k \in Lines : Repairable(k) => k \in exempt
    PROVE  SameMapped(repair_illegal_passthrough(repair_null_sku_names(rows, bill, group), rs, bill),
                      rows, exempt)
<1> DEFINE named == repair_null_sku_names(rows, bill, group)
<1>1. Named(named) /\ LinesOf(named) \subseteq Lines
  BY NullSkuNamesLines DEF SameLines
<1>2. ASSUME NEW q \in named, q.key \notin exempt PROVE q \in rows
  <2>1. PICK row \in rows :
            \/ q = row
            \/ /\ group[row.key] = "object_storage"
               /\ \E name : q = [row EXCEPT !.name = name, !.strategy = "map"]
    BY DEF repair_null_sku_names
  <2>2. q.key = row.key /\ row.key \in Lines
    BY <2>1 DEF Named, RowColumns, LinesOf
  <2>3. group[row.key] # "object_storage"
    BY <1>2, <2>2 DEF Repairable
  <2>4. QED
    BY <2>1, <2>3
<1> HIDE DEF named
<1>3. SameMapped(repair_illegal_passthrough(named, rs, bill), named, exempt)
  BY <1>1 DEF repair_illegal_passthrough, SameMapped, Mapped, Named, RowColumns, LinesOf, Repairable
<1>4. QED
  BY <1>2, <1>3 DEF SameMapped, named

LEMMA IncrementalRatesKept ==
    ASSUME NEW rows, NEW rs, NEW b, NEW s
    PROVE  RatesKept(incremental_rerate(rows, rs, b, s).rates, rs)
<1> DEFINE missing == {d \in skus_used(rows) : ~\E key \in DOMAIN rs : key[1] = d}
           found == catalog_rates(s, missing)
           all == [key \in DOMAIN rs \cup DOMAIN found |->
                      IF key \in DOMAIN rs THEN rs[key] ELSE found[key]]
           more == with_cud(all)
<1>1. incremental_rerate(rows, rs, b, s).rates = IF DOMAIN found = {} THEN rs ELSE more
  BY DEF incremental_rerate
<1>2. \A key \in DOMAIN found : key[1] \in missing
  BY DEF catalog_rates
<1>3. \A d \in missing : ~\E key \in DOMAIN rs : key[1] = d
  OBVIOUS
<1> HIDE DEF missing, found
<1>4. /\ DOMAIN all = DOMAIN rs \cup DOMAIN found
      /\ \A key \in DOMAIN rs : all[key] = rs[key]
  OBVIOUS
<1> HIDE DEF all
<1>5. /\ DOMAIN all \subseteq DOMAIN more
      /\ \A key \in DOMAIN all : more[key] = all[key]
      /\ \A key \in DOMAIN more : key \notin DOMAIN all => key[2] # "OnDemand"
  BY DEF with_cud
<1> HIDE DEF more
<1> SUFFICES ASSUME NEW sku, NEW region, NEW dom, RateAt(rs, sku, "OnDemand", region, dom) # NoRate
             PROVE  RateAt(more, sku, "OnDemand", region, dom) # NoRate
  BY <1>1 DEF RatesKept
<1> DEFINE places == <<region, "global", dom>>
           Near(r) == {i \in DOMAIN places : <<sku, "OnDemand", places[i]>> \in DOMAIN r}
<1>6. \A r : RateAt(r, sku, "OnDemand", region, dom) =
              IF Near(r) = {} THEN NoRate ELSE r[<<sku, "OnDemand", places[Min(Near(r))]>>]
  BY DEF RateAt
<1>7. Near(rs) # {}
  BY <1>6
<1>8. Near(more) = Near(rs)
  <2>1. PICK i \in DOMAIN places : <<sku, "OnDemand", places[i]>> \in DOMAIN rs
    BY <1>7
  <2>2. sku \notin missing
    BY <2>1, <1>3
  <2>3. \A p : <<sku, "OnDemand", p>> \in DOMAIN more <=> <<sku, "OnDemand", p>> \in DOMAIN rs
    BY <2>2, <1>2, <1>4, <1>5
  <2>4. QED
    BY <2>3
<1>9. Min(Near(rs)) \in Near(rs)
  <2>1. Near(rs) \subseteq Nat
    OBVIOUS
  <2>2. QED
    BY <2>1, <1>7, MinOf
<1>10. <<sku, "OnDemand", places[Min(Near(rs))]>> \in DOMAIN rs
  BY <1>9
<1> DEFINE place == <<sku, "OnDemand", places[Min(Near(rs))]>>
<1>11. RateAt(rs, sku, "OnDemand", region, dom) = rs[place]
  BY <1>6, <1>7
<1>12. RateAt(more, sku, "OnDemand", region, dom) = more[place]
  BY <1>6, <1>7, <1>8
<1>13. place \in DOMAIN rs
  BY <1>10
<1> HIDE DEF place
<1>14. QED
  BY <1>4, <1>5, <1>11, <1>12, <1>13

\* apply_rates.py leaves nothing mapped that has no price.
LEMMA ApplyRatesPrices ==
    ASSUME NEW rows, NEW rs, NEW b, NEW s, Named(rows), \A row \in rows : b[row.key].cost \in Int
    PROVE  LET priced == apply_rates(rows, rs, b, s) IN KeepsPrice(priced.table, priced.rates, b, {})
<1> DEFINE resolved == resolve_null_skus(rows)
           pinned   == {row.key : row \in {q \in rows : Mapped(q) /\ q.sku # None}}
           new      == rate_table(resolved, b, s)
           known    == known_rates(resolved, s)
           made     == DOMAIN with_global_fallback(known, compute_dominant_region(b)) \ DOMAIN known
           flagged  == flag_license_exposure(resolved, b)
           reached  == route_unreachable(flagged, new, b)
           costed   == reprice_null_costs(reached, new, b)
           sourced  == record_source(costed, pinned)
           based    == record_region_basis(sourced, new, b, made)
<1>1. SameLines(resolved, rows) /\ Named(resolved)
  BY ResolveNullSkusLines DEF SameLines
<1>2. CASE skus_used(resolved) = {}
  <2>1. apply_rates(rows, rs, b, s) = [table |-> record_source(resolved, {}), rates |-> rs]
    BY <1>2 DEF apply_rates
  <2>2. ASSUME NEW q \in resolved, Mapped(q) PROVE q.sku # None
    BY <2>2 DEF resolve_null_skus, Mapped, Named, RowColumns
  <2> HIDE DEF resolved
  <2>3. \A q \in resolved : ~Mapped(q)
    BY <1>2, <2>2 DEF skus_used
  <2>4. SameMapped(record_source(resolved, {}), resolved, {})
    BY <1>1, RecordSourceMapped
  <2>5. QED
    BY <2>1, <2>3, <2>4 DEF SameMapped, KeepsPrice
<1>3. CASE skus_used(resolved) # {} /\ s = {}
  <2>1. apply_rates(rows, rs, b, s) = [table |-> NoCatalog(resolved), rates |-> rs]
    BY <1>3 DEF apply_rates
  <2> HIDE DEF resolved
  <2>2. \A q \in NoCatalog(resolved) : ~Mapped(q)
    BY <1>1 DEF NoCatalog, Mapped, Named, RowColumns
  <2>3. QED
    BY <2>1, <2>2 DEF KeepsPrice
<1>4. CASE skus_used(resolved) # {} /\ s # {}
  <2>1. apply_rates(rows, rs, b, s) = [table |-> based, rates |-> new]
    BY <1>4 DEF apply_rates
  <2> HIDE DEF resolved, pinned, new, known, made
  <2>2. SameLines(flagged, resolved)
    BY <1>1, FlagLicenseLines
  <2> HIDE DEF flagged
  <2>3. SameLines(reached, flagged)
    BY <2>2, RouteUnreachableLines DEF SameLines
  <2> HIDE DEF reached
  <2>4. Named(reached) /\ LinesOf(reached) = LinesOf(rows)
    BY <1>1, <2>2, <2>3 DEF SameLines
  <2>5. Named(costed)
    BY <2>4, RepriceNullCostsLines DEF SameLines
  <2>6. \A row \in reached : b[row.key].cost \in Int
    BY <2>4 DEF LinesOf
  <2>7. KeepsPrice(costed, new, b, {})
    <3> DEFINE null == {row.key : row \in {q \in reached :
                            /\ Mapped(q) /\ b[q.key].cost > 1
                            /\ ~HasCost(q, new, b[q.key], compute_dominant_region(b))}}
    <3>1. costed = {IF row.key \in null
                    THEN [row EXCEPT !.strategy = "needs_reprice", !.src = "no_rate"] ELSE row :
                        row \in reached}
      BY DEF reprice_null_costs
    <3>2. ASSUME NEW row \in reached, Mapped(row), b[row.key].cost > 5, row.key \notin null
          PROVE  HasCost(row, new, b[row.key], compute_dominant_region(b))
      BY <3>2, <2>6
    <3> HIDE DEF null
    <3>3. ASSUME NEW q \in costed, Mapped(q) PROVE q \in reached /\ q.key \notin null
      BY <3>1, <3>3, <2>4 DEF Mapped, Named, RowColumns
    <3>4. QED
      BY <3>2, <3>3 DEF KeepsPrice
  <2> HIDE DEF costed
  <2>8. SameMapped(sourced, costed, {}) /\ Named(sourced)
    BY <2>5, RecordSourceMapped, RecordSourceLines DEF SameLines
  <2> HIDE DEF sourced
  <2>9. SameMapped(based, sourced, {})
    BY <2>8, RecordRegionBasisMapped
  <2> HIDE DEF based
  <2>10. KeepsPrice(based, new, b, {})
    BY <2>7, <2>8, <2>9, PricesKept, RatesUnchanged
  <2>11. QED
    BY <2>1, <2>10
<1>5. QED
  BY <1>2, <1>3, <1>4

-----------------------------------------------------------------------------
(* What apply_rates.py has priced stays priced.                            *)

LEMMA OnlyPrices ==
    ASSUME RunScript, todo # <<>>, \A s : At(s) => s = "apply_rates", Head(todo) = "apply_rates"
    PROVE  ApplyRates \/ ScriptFails
BY DEF RunScript, Classify, ApplyCommitmentIgnores, ApplyStaticMappings, MappingAgent,
       MappingAgentBlocked, MergeMappings, MergeMappingsRollsBack, ServiceClassifier,
       FixStorageMisroute, ReconcileCapacity, DirectivesFromLegacy, ApplyDirectives, GateNotEvaluated,
       Gates, CoverageGates, CoverageGate, CoveragePasses, RetryAgent, RetryAgentBlocked,
       CoverageAfterRetry, EnsureFullCoverage, CoverageAtLast,
       AutoReview, ReviewAgent, ReviewAgentBlocked, ApplyReviewFixes, NoIllegalPassthroughs,
       NoIllegalPassthroughsBlocked, ApplyRates, ValidateFix, ValidateFixDies, NoNullProjectedCost,
       NoNullProjectedCostBlocked, DetectOutliers, AutoTriage, IncrementalRerate, TriageAgent,
       TriageAgentBlocked, ApplyOutlierFixes, OutlierGate, OverAndUnderProjection,
       OverAndUnderProjectionBlocked, Finish, Rewrite, Reprice, SoftGate, SoftGateBlocked,
       AgentBlocked

\* Until its turn has come, apply_rates.py is still to come.
LEMMA RatesToCome ==
    ASSUME IInv, PlanApart, RunScript, status' # "failed", Has(todo, "apply_rates"),
           todo[1] # "apply_rates"
    PROVE  Has(todo', "apply_rates")
<1>1. todo \in Seq(ScriptNames) /\ layer \in BOOLEAN /\ Len(todo) \in Nat
  BY DEF IInv, FlowTyped, PlanOrdered, Ordered
<1>2. PICK i \in 1 .. Len(todo) : todo[i] = "apply_rates"
  BY DEF Has
<1>3. i \in 2 .. Len(todo) /\ todo # <<>> /\ 1 \in 1 .. Len(todo)
  <2>1. i # 1
    BY <1>2
  <2>2. i \in 2 .. Len(todo) /\ Len(todo) # 0
    BY <1>1, <1>2, <2>1
  <2>3. QED
    BY <1>1, <2>2
<1>4. ASSUME NEW p \in Nat, Moves(p, 1), Len(todo') - p = Len(todo) - 1
      PROVE  Has(todo', "apply_rates")
  <2>1. Resumes(todo', todo, p, 1)
    BY <1>4 DEF Moves
  <2>2. i \in 1 + 1 .. Len(todo)
    BY <1>3
  <2>3. QED
    BY <1>1, <1>2, <1>4, <2>1, <2>2, ResumesHas
<1>5. CASE ReviewAgentBlocked
  <2> DEFINE n == Len(PostReview(layer)) + 2
  <2>1. At("review_agent") /\ todo' = SubSeq(todo, Len(PostReview(layer)) + 3, Len(todo))
    BY <1>5 DEF ReviewAgentBlocked, AgentBlocked
  <2>2. Len(PostReview(layer)) \in Nat
    BY <1>1, PostSteps, ConcatOf
  <2>3. todo[1] = "review_agent"
    BY <2>1, AtFirst
  <2>4. 1 + n <= Len(todo) /\ todo[1 + n] = "apply_rates"
    BY <1>3, <2>3 DEF PlanApart, ReviewThenRates
  <2>5. todo' = SubSeq(todo, n + 1, Len(todo)) /\ n \in Nat
    BY <2>1, <2>2
  <2> HIDE DEF n
  <2>6. Len(todo') >= 1 /\ Len(todo') \in Nat /\ todo'[1] = todo[n + 1]
    BY <1>1, <2>4, <2>5
  <2>7. 1 \in 1 .. Len(todo') /\ todo'[1] = "apply_rates"
    BY <2>4, <2>5, <2>6
  <2>8. QED
    BY <2>7 DEF Has
<1>6. CASE TriageAgentBlocked
  <2>1. todo[1] = "triage_agent"
    BY <1>6, AtFirst DEF TriageAgentBlocked, AgentBlocked
  <2>2. QED
    BY <1>2, <1>3, <2>1 DEF PlanApart, NoneBehind
<1>7. QED
  BY <1>3, <1>4, <1>5, <1>6, PlanMoves

\* A gate whose agent changes nothing.
LEMMA GateUnanswered ==
    ASSUME NEW gate, NEW bad, NEW post, SoftGate(gate, bad, post), answers \in Nat, answers' = 0
    PROVE  UNCHANGED <<table, rates>>
BY DEF SoftGate

\* Lines that validate_fix.py may map anew.
Exempt == {k \in Lines : Repairable(k)}

\* Without answers there is nothing to fix.
LEMMA NothingFixed ==
    ASSUME NEW rows, NEW rs, NEW b, NEW s, NEW candidates, NEW fixes, DOMAIN fixes = {}
    PROVE  LET fixed == apply_outlier_fixes(rows, rs, b, s, candidates, fixes)
           IN  fixed.table = rows /\ fixed.rates = rs
<1>1. \A found, overridden :
          DOMAIN found = {} /\ overridden = {} =>
              {Applied(row, found, overridden, fixes) : row \in rows} = rows
  BY DEF Applied
<1>2. QED
  BY <1>1 DEF apply_outlier_fixes

\* What a late script leaves behind, apply_rates.py aside.
LEMMA LateKeepsPrice ==
    ASSUME IInv, DataTyped, RunScript, LedgerIgnores', ToldOnce, ToldOnce', Told \subseteq Told',
           answers' = 0, answers = 0, \A s : At(s) => s \in LateScripts \ {"apply_rates"},
           KeepsPrice(table, rates, bill, Exempt)
    PROVE  KeepsPrice(table', rates', bill, Exempt)
<1>1. Named(table) /\ LinesOf(table) \subseteq Lines
  BY DEF IInv, FlowTyped, DataTyped, RowsTyped, Covered, LinesOf
<1>2. Told = {} /\ Told' = {}
  BY DEF ToldOnce
<1>3. ASSUME SameMapped(table', table, Exempt), RatesKept(rates', rates)
      PROVE  KeepsPrice(table', rates', bill, Exempt)
  BY <1>3, PricesKept
<1>4. ASSUME UNCHANGED <<table, rates>> PROVE KeepsPrice(table', rates', bill, Exempt)
  BY <1>4
<1>5. CASE \/ Classify \/ ApplyCommitmentIgnores \/ ApplyStaticMappings \/ MappingAgent
           \/ MappingAgentBlocked \/ MergeMappings \/ MergeMappingsRollsBack
           \/ ServiceClassifier \/ FixStorageMisroute \/ ReconcileCapacity
           \/ CoveragePasses \/ RetryAgent \/ RetryAgentBlocked \/ CoverageAfterRetry
           \/ EnsureFullCoverage \/ CoverageAtLast \/ AutoReview \/ ReviewAgent
           \/ ReviewAgentBlocked \/ ApplyReviewFixes \/ NoIllegalPassthroughs
           \/ NoIllegalPassthroughsBlocked \/ ApplyRates
  <2>1. \E s : At(s) /\ s \notin LateScripts \ {"apply_rates"}
    BY <1>5 DEF Classify, ApplyCommitmentIgnores, ApplyStaticMappings, MappingAgent,
         MappingAgentBlocked, MergeMappings, MergeMappingsRollsBack, ServiceClassifier,
         FixStorageMisroute, ReconcileCapacity, CoverageGate, CoveragePasses, RetryAgent,
         RetryAgentBlocked, CoverageAfterRetry, EnsureFullCoverage, CoverageAtLast, AutoReview, ReviewAgent,
         ReviewAgentBlocked, ApplyReviewFixes, NoIllegalPassthroughs,
         NoIllegalPassthroughsBlocked, ApplyRates, Rewrite, Reprice, SoftGate, SoftGateBlocked,
         AgentBlocked, LateScripts
  <2>2. QED
    BY <2>1
<1>6. CASE \/ ScriptFails \/ GateNotEvaluated \/ DirectivesFromLegacy
           \/ NoNullProjectedCostBlocked \/ DetectOutliers \/ AutoTriage \/ TriageAgent \/ TriageAgentBlocked
           \/ OverAndUnderProjectionBlocked \/ Finish
  <2>1. UNCHANGED <<table, rates>>
    BY <1>6 DEF ScriptFails, GateNotEvaluated, DirectivesFromLegacy, NoNullProjectedCostBlocked,
         DetectOutliers, AutoTriage, TriageAgent, TriageAgentBlocked, OverAndUnderProjectionBlocked, Finish,
         SoftGateBlocked, AgentBlocked, tableVars
  <2>2. QED
    BY <1>4, <2>1
<1>7. CASE NoNullProjectedCost \/ OverAndUnderProjection
  <2>1. UNCHANGED <<table, rates>>
    BY <1>7, GateUnanswered DEF NoNullProjectedCost, OverAndUnderProjection
  <2>2. QED
    BY <1>4, <2>1
<1>8. CASE ApplyDirectives
  <2>1. table' \in apply_directives(table, ledger', Projected) /\ rates' = rates
    BY <1>8 DEF ApplyDirectives
  <2>2. ledger' \in Seq(DirectivesOf(Lines', {}))
    BY <1>2 DEF LedgerIgnores
  <2>3. QED
    BY <1>1, <1>3, <2>1, <2>2, ApplyDirectivesMapped, RatesUnchanged
<1>9. CASE ValidateFix
  <2>1. /\ table' = validate_fix(table, rates, bill, group, skus).table
        /\ rates' = validate_fix(table, rates, bill, group, skus).rates
    BY <1>9 DEF ValidateFix, Reprice
  <2>2. Priced(table', rates', bill)
    BY <1>1, <2>1, ValidateFixPrices
  <2>3. QED
    BY <2>2 DEF Priced, KeepsPrice
<1>10. CASE ValidateFixDies
  <2>1. /\ table' = repair_illegal_passthrough(repair_null_sku_names(table, bill, group), rates, bill)
        /\ rates' = rates
    BY <1>10 DEF ValidateFixDies
  <2>2. \A k \in Lines : Repairable(k) => k \in Exempt
    BY DEF Exempt
  <2>3. QED
    BY <1>1, <1>3, <2>1, <2>2, FirstRepairsMapped, RatesUnchanged
<1>11. CASE IncrementalRerate
  <2>1. /\ table' = incremental_rerate(table, rates, bill, skus).table
        /\ rates' = incremental_rerate(table, rates, bill, skus).rates
    BY <1>11 DEF IncrementalRerate, Reprice
  <2>2. table' = flag_license_exposure(table, bill)
    BY <2>1 DEF incremental_rerate
  <2>3. QED
    BY <1>1, <1>3, <2>1, <2>2, FlagLicenseMapped, IncrementalRatesKept
<1>12. CASE ApplyOutlierFixes
  <2>1. DOMAIN triage.fixes = {}
    BY <1>2 DEF Told
  <2> DEFINE fixed == apply_outlier_fixes(table, rates, bill, skus, triage.candidates, triage.fixes)
  <2>2. \A candidates, fixes :
            DOMAIN fixes = {} =>
                /\ apply_outlier_fixes(table, rates, bill, skus, candidates, fixes).table = table
                /\ apply_outlier_fixes(table, rates, bill, skus, candidates, fixes).rates = rates
    BY NothingFixed
  <2>3. fixed.table = table /\ fixed.rates = rates
    BY <2>1, <2>2
  <2>4. UNCHANGED <<table, rates>>
    BY <1>12, <2>3 DEF ApplyOutlierFixes, Reprice
  <2>5. QED
    BY <1>4, <2>4
<1>13. CASE OutlierGate
  <2>1. table' = outlier_gate(table, rates, bill) /\ rates' = rates
    BY <1>13 DEF OutlierGate, Rewrite
  <2>2. QED
    BY <1>1, <1>3, <2>1, OutlierGateMapped, RatesUnchanged
<1>14. QED
  BY <1>5, <1>6, <1>7, <1>8, <1>9, <1>10, <1>11, <1>12, <1>13 DEF RunScript

LEMMA StillPricedRun ==
    ASSUME IInv, DataTyped, CInv, StillPriced, RunScript, CInv', DataTyped', Told \subseteq Told'
    PROVE  StillPriced'
<1> SUFFICES ASSUME recalcs' = 0, answers' = 0, status' # "failed"
             PROVE  Has(todo', "apply_rates") \/ KeepsPrice(table', rates', bill', Exempt')
  BY DEF StillPriced, Exempt
<1>1. recalcs = 0 /\ bill' = bill /\ Lines' = Lines
  BY ChangedBy DEF inputVars, Lines
<1>2. answers \in Nat /\ todo \in Seq(ScriptNames)
  BY BoundsAssumption DEF DataTyped, Counted, IInv, PlanOrdered, Ordered
<1>3. answers = 0
  <2>1. \/ answers' = answers \/ answers' = answers + 1
        \/ \E fixes \in Written : answers' = answers + Cardinality(DOMAIN fixes)
    BY ChangedBy DEF ReviewAgent, TriageAgent, NoIllegalPassthroughs, NoNullProjectedCost,
       OverAndUnderProjection, SoftGate
  <2>2. ASSUME NEW fixes \in Written PROVE Cardinality(DOMAIN fixes) \in Nat
    <3>1. IsFiniteSet(DOMAIN fixes)
      BY WrittenOf, LinesFinite, FS_Subset DEF DataTyped, PlanTyped
    <3>2. QED
      BY <3>1, FS_CardinalityType
  <2>3. QED
    BY <1>2, <2>1, <2>2
<1>4. status = "running"
  BY Running
<1>5. CASE Has(todo, "apply_rates") /\ todo[1] # "apply_rates"
  BY <1>5, RatesToCome DEF CInv
<1>6. CASE Has(todo, "apply_rates") /\ todo[1] = "apply_rates"
  <2>1. todo # <<>>
    BY <1>6 DEF Has
  <2>2. Head(todo) = "apply_rates" /\ \A s : At(s) => s = "apply_rates"
    BY <1>2, <1>6, <2>1, TailOf DEF At
  <2>3. ~ScriptFails
    BY <1>1, <2>2 DEF ScriptFails, Required, Fail
  <2>4. ApplyRates
    BY <2>1, <2>2, <2>3, OnlyPrices
  <2>5. /\ table' = apply_rates(table, rates, bill, skus).table
        /\ rates' = apply_rates(table, rates, bill, skus).rates
    BY <2>4 DEF ApplyRates, Reprice
  <2>6. Named(table) /\ \A row \in table : bill[row.key].cost \in Int
    BY LinesHaveCosts
  <2>7. KeepsPrice(table', rates', bill, {})
    BY <2>5, <2>6, ApplyRatesPrices
  <2>8. QED
    BY <1>1, <2>7 DEF KeepsPrice
<1>7. CASE ~Has(todo, "apply_rates")
  <2>1. \A s : At(s) => s \in LateScripts \ {"apply_rates"}
    <3> SUFFICES ASSUME NEW s, At(s) PROVE s \in LateScripts \ {"apply_rates"}
      OBVIOUS
    <3>1. todo # <<>> /\ todo[1] = s
      BY AtFirst
    <3>2. 1 \in 1 .. Len(todo) /\ Len(todo) \in Nat
      BY <1>2, <3>1, TailOf
    <3>3. s # "apply_rates"
      BY <1>7, <3>1, <3>2 DEF Has
    <3>4. Behind(todo, LateScripts, "apply_rates")
      BY <1>1 DEF CInv, PlanApart
    <3>5. ASSUME s \notin LateScripts PROVE FALSE
      <4>1. PICK j \in 2 .. Len(todo) : todo[j] = "apply_rates"
        BY <3>1, <3>2, <3>4, <3>5 DEF Behind
      <4>2. QED
        BY <1>7, <3>2, <4>1 DEF Has
    <3>6. QED
      BY <3>3, <3>5
  <2>2. KeepsPrice(table, rates, bill, Exempt)
    BY <1>1, <1>3, <1>4, <1>7 DEF StillPriced, Exempt
  <2>3. KeepsPrice(table', rates', bill, Exempt)
    BY <1>3, <2>1, <2>2, LateKeepsPrice DEF CInv
  <2>4. group' = group
    BY <2>1, ChangedBy DEF Classify, ApplyCommitmentIgnores, ApplyStaticMappings, MappingAgent,
       LateScripts, planVars
  <2>5. Exempt' = Exempt
    BY <1>1, <2>4 DEF Exempt, Repairable
  <2>6. QED
    BY <1>1, <2>3, <2>5
<1>8. QED
  BY <1>5, <1>6, <1>7

LEMMA StillPricedStep ==
    ASSUME IInv, DataTyped, CInv, StillPriced, [Next]_vars, CInv', DataTyped'
    PROVE  StillPriced'
<1>1. CASE RunScript
  BY <1>1, ToldStep, StillPricedRun DEF CInv
<1>2. CASE ~RunScript
  <2>1. UNCHANGED <<bill, group, table, rates, answers>>
    BY <1>2, ChangedElsewhere DEF inputVars, planVars, tableVars, fixVars
  <2>2. CASE UNCHANGED flowVars
    BY <2>1, <2>2 DEF StillPriced, Repairable, Lines, flowVars
  <2>3. ASSUME NEW changed, RecalculateWith(changed) PROVE recalcs' # 0
    BY <2>3 DEF RecalculateWith, IInv, FlowTyped
  <2>4. QED
    BY <1>2, <2>2, <2>3, ChangedElsewhere DEF StillPriced
<1>3. QED
  BY <1>1, <1>2

\* Every mapped row of a line above five dollars has a price in the report,
\* whatever the bill, the catalogue and the answers are if nothing failed, and
\* whatever failed if no agent edited a line: what apply_rates.py and
\* validate_fix.py have priced no later script takes the price from.
THEOREM MappedStaysPriced == Spec => []MappedRowsPriced
<1>1. Init => ToBePriced /\ StillPriced
  <2> SUFFICES ASSUME Init PROVE ToBePriced /\ StillPriced
    OBVIOUS
  <2>1. layer \in BOOLEAN /\ todo = Pipeline(layer)
    BY InitIInv DEF Init, IInv, FlowTyped
  <2>2. ToBePriced
    BY <2>1, PipelineEnds DEF ToBePriced
  <2>3. table = {}
    BY DEF Init
  <2>4. StillPriced
    BY <2>3 DEF StillPriced, KeepsPrice
  <2>5. QED
    BY <2>2, <2>4
<1>2. IInv /\ IInv' /\ [Next]_vars /\ ToBePriced => ToBePriced'
  BY PriceKeeps
<1>3. IInv /\ DataTyped /\ CInv /\ StillPriced /\ [Next]_vars /\ CInv' /\ DataTyped' => StillPriced'
  BY StillPricedStep
<1>4. Spec => [](ToBePriced /\ StillPriced)
  BY <1>1, <1>2, <1>3, InvariantData, InvariantCredits, PTL DEF Spec
<1>5. IInv /\ DataTyped /\ ToBePriced /\ StillPriced => MappedRowsPriced
  <2> SUFFICES ASSUME IInv, DataTyped, ToBePriced, StillPriced, Report,
                      NEW row \in table, Mapped(row), bill[row.key].cost > 5,
                      faults = 0 \/ (answers = 0 /\ ~Repairable(row.key))
               PROVE  HasCost(row, rates, bill[row.key], compute_dominant_region(bill))
    BY DEF MappedRowsPriced
  <2>1. \A x : ~Has(todo, x)
    BY DEF IInv, PlanOrdered, Report, Has
  <2>2. CASE faults = 0
    BY <2>1, <2>2 DEF ToBePriced, Priced, Report
  <2>3. CASE answers = 0 /\ ~Repairable(row.key)
    BY <2>1, <2>3 DEF StillPriced, KeepsPrice, Report
  <2>4. QED
    BY <2>2, <2>3
<1>6. QED
  BY <1>4, <1>5, InvariantData, PTL
=============================================================================
