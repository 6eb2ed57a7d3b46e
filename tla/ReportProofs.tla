---------------------------- MODULE ReportProofs ----------------------------
(***************************************************************************)
(* Proofs about the report of Projection: what validate_fix.py and         *)
(* outlier_gate.py see to, for any bill, catalogue and answers of the      *)
(* agents.  No script and no agent that changes a row comes after them     *)
(* without them coming once more.                                          *)
(***************************************************************************)
EXTENDS ProjectionDataProofs

-----------------------------------------------------------------------------
(* What is still to come behind a step.                                    *)

\* Behind every script of s, those of S aside, there is another x.
Behind(s, S, x) == \A i \in 1 .. Len(s) : s[i] \notin S => \E j \in i + 1 .. Len(s) : s[j] = x

LEMMA BehindTail ==
    ASSUME NEW s \in Seq(ScriptNames), s # <<>>, NEW S, NEW x, Behind(s, S, x)
    PROVE  /\ Behind(Tail(s), S, x)
           /\ s[1] \notin S => Has(Tail(s), x)
           /\ Has(s, x) /\ s[1] # x => Has(Tail(s), x)
<1> SUFFICES ASSUME NEW t \in Seq(ScriptNames), Len(t) = Len(s) - 1, Len(s) \in Nat \ {0},
                    \A i \in 1 .. Len(s) - 1 : t[i] = s[i + 1]
             PROVE  /\ Behind(t, S, x)
                    /\ s[1] \notin S => Has(t, x)
                    /\ Has(s, x) /\ s[1] # x => Has(t, x)
  BY TailOf
<1>1. ASSUME NEW j \in 2 .. Len(s) PROVE j - 1 \in 1 .. Len(t) /\ t[j - 1] = s[j]
  OBVIOUS
<1>2. Behind(t, S, x)
  <2> SUFFICES ASSUME NEW i \in 1 .. Len(t), t[i] \notin S
               PROVE  \E j \in i + 1 .. Len(t) : t[j] = x
    BY DEF Behind
  <2>1. i + 1 \in 1 .. Len(s) /\ s[i + 1] \notin S
    OBVIOUS
  <2>2. PICK j \in i + 2 .. Len(s) : s[j] = x
    BY <2>1 DEF Behind
  <2>3. j - 1 \in i + 1 .. Len(t) /\ t[j - 1] = x
    BY <2>2, <1>1
  <2>4. QED
    BY <2>3
<1>3. ASSUME s[1] \notin S PROVE Has(t, x)
  <2>1. PICK j \in 2 .. Len(s) : s[j] = x
    BY <1>3 DEF Behind
  <2>2. QED
    BY <2>1, <1>1 DEF Has
<1>4. ASSUME Has(s, x), s[1] # x PROVE Has(t, x)
  <2>1. PICK j \in 2 .. Len(s) : s[j] = x
    BY <1>4 DEF Has
  <2>2. QED
    BY <2>1, <1>1 DEF Has
<1>5. QED
  BY <1>2, <1>3, <1>4

LEMMA BehindConcat ==
    ASSUME NEW p \in Seq(ScriptNames), NEW t \in Seq(ScriptNames), NEW S, NEW x,
           Behind(t, S, x), Behind(p, S, x) \/ Has(t, x)
    PROVE  Behind(p \o t, S, x) /\ (Has(p, x) \/ Has(t, x) => Has(p \o t, x))
<1> SUFFICES ASSUME NEW u \in Seq(ScriptNames), Len(u) \in Nat, Len(p) \in Nat, Len(t) \in Nat,
                    Len(u) = Len(p) + Len(t),
                    \A i \in 1 .. Len(p) : u[i] = p[i],
                    \A i \in 1 .. Len(t) : u[Len(p) + i] = t[i]
             PROVE  Behind(u, S, x) /\ (Has(p, x) \/ Has(t, x) => Has(u, x))
  BY ConcatOf
<1>1. ASSUME NEW j \in 1 .. Len(t)
      PROVE  Len(p) + j \in Len(p) + 1 .. Len(u) /\ u[Len(p) + j] = t[j]
  OBVIOUS
<1>2. ASSUME NEW j \in 1 .. Len(p) PROVE j \in 1 .. Len(u) /\ u[j] = p[j]
  OBVIOUS
<1>3. Has(p, x) \/ Has(t, x) => Has(u, x)
  <2>1. ASSUME NEW j \in 1 .. Len(t), t[j] = x PROVE Has(u, x)
    <3>1. Len(p) + j \in 1 .. Len(u) /\ u[Len(p) + j] = x
      BY <2>1, <1>1
    <3>2. QED
      BY <3>1 DEF Has
  <2>2. QED
    BY <2>1, <1>2 DEF Has
<1>4. ASSUME NEW i \in 1 .. Len(u), u[i] \notin S PROVE \E j \in i + 1 .. Len(u) : u[j] = x
  <2>1. CASE i \in 1 .. Len(p)
    <3>1. CASE Has(t, x)
      <4>1. PICK j \in 1 .. Len(t) : t[j] = x
        BY <3>1 DEF Has
      <4>2. QED
        BY <4>1, <2>1, <1>1
    <3>2. CASE Behind(p, S, x)
      <4>1. PICK j \in i + 1 .. Len(p) : p[j] = x
        BY <3>2, <2>1, <1>2, <1>4 DEF Behind
      <4>2. QED
        BY <4>1, <2>1, <1>2
    <3>3. QED
      BY <3>1, <3>2
  <2>2. CASE i \notin 1 .. Len(p)
    <3>1. i - Len(p) \in 1 .. Len(t) /\ t[i - Len(p)] \notin S
      BY <2>2, <1>1, <1>4
    <3>2. PICK j \in i - Len(p) + 1 .. Len(t) : t[j] = x
      BY <3>1 DEF Behind
    <3>3. j \in 1 .. Len(t) /\ Len(p) + j \in i + 1 .. Len(u)
      BY <3>1, <3>2
    <3>4. u[Len(p) + j] = x
      BY <3>2, <3>3, <1>1
    <3>5. QED
      BY <3>3, <3>4
  <2>3. QED
    BY <2>1, <2>2
<1>5. QED
  BY <1>3, <1>4 DEF Behind

\* The scripts at the end of phase 5.
AfterGate == {"outlier_gate", "over_and_under_projection"}
AfterFix  == AfterGate \cup {"validate_fix"}

LEMMA TriageEnds ==
    ASSUME NEW on \in BOOLEAN
    PROVE  /\ Behind(PostTriage(on), AfterGate, "outlier_gate") /\ Has(PostTriage(on), "outlier_gate")
           /\ Behind(PostTriage(on), AfterFix, "validate_fix") /\ Has(PostTriage(on), "validate_fix")
<1> DEFINE rerated == <<"incremental_rerate", "validate_fix", "outlier_gate">>
           fixed == IF on THEN ByDirectives ELSE <<"apply_outlier_fixes">>
<1>1. PostTriage(on) = fixed \o rerated
  BY DEF PostTriage
<1>2. /\ ByDirectives \in Seq(ScriptNames) /\ rerated \in Seq(ScriptNames)
      /\ <<"apply_outlier_fixes">> \in Seq(ScriptNames)
  BY Tuples DEF ByDirectives, ScriptNames
<1>3. fixed \in Seq(ScriptNames)
  BY <1>2
<1>4. /\ Behind(rerated, AfterGate, "outlier_gate") /\ Has(rerated, "outlier_gate")
      /\ Behind(rerated, AfterFix, "validate_fix") /\ Has(rerated, "validate_fix")
  <2>1. Len(rerated) = 3 /\ rerated[1] = "incremental_rerate" /\ rerated[2] = "validate_fix"
        /\ rerated[3] = "outlier_gate"
    OBVIOUS
  <2> HIDE DEF rerated
  <2>2. QED
    BY <2>1 DEF Behind, Has, AfterGate, AfterFix
<1> HIDE DEF rerated, fixed
<1>5. QED
  BY <1>1, <1>2, <1>3, <1>4, BehindConcat

LEMMA PipelineEnds ==
    ASSUME NEW on \in BOOLEAN
    PROVE  /\ Behind(Pipeline(on), AfterGate, "outlier_gate") /\ Has(Pipeline(on), "outlier_gate")
           /\ Behind(Pipeline(on), AfterFix, "validate_fix") /\ Has(Pipeline(on), "validate_fix")
<1> DEFINE first == <<"classify_mechanics", "apply_commitment_ignores", "apply_static_mappings",
                      "mapping_agent">>
           second == <<"mapping_coverage", "auto_review", "review_agent">>
           third == <<"no_illegal_passthroughs", "apply_rates">>
           fourth == <<"no_null_projected_cost", "detect_outliers", "auto_triage",
                       "incremental_rerate", "triage_agent">>
           last == <<"over_and_under_projection">>
           before == (((((first \o PostMapping(on)) \o second) \o PostReview(on)) \o third)
                         \o PostRates) \o fourth
<1>1. Pipeline(on) = (before \o PostTriage(on)) \o last
  <2>1. Pipeline(on) = (((((((first \o PostMapping(on)) \o second) \o PostReview(on)) \o third)
                             \o PostRates) \o fourth) \o PostTriage(on)) \o last
    BY DEF Pipeline
  <2> HIDE DEF first, second, third, fourth, last
  <2>2. QED
    BY <2>1
<1>2. /\ first \in Seq(ScriptNames) /\ second \in Seq(ScriptNames) /\ third \in Seq(ScriptNames)
      /\ fourth \in Seq(ScriptNames) /\ last \in Seq(ScriptNames)
  BY Tuples DEF ScriptNames
<1>3. /\ PostMapping(on) \in Seq(ScriptNames) /\ PostReview(on) \in Seq(ScriptNames)
      /\ PostRates \in Seq(ScriptNames) /\ PostTriage(on) \in Seq(ScriptNames)
  BY PostSteps
<1>4. Behind(last, AfterGate, "outlier_gate") /\ Behind(last, AfterFix, "validate_fix")
  <2>1. Len(last) = 1 /\ last[1] = "over_and_under_projection"
    OBVIOUS
  <2> HIDE DEF last
  <2>2. QED
    BY <2>1 DEF Behind, AfterGate, AfterFix
<1> HIDE DEF first, second, third, fourth, last
<1>5. before \in Seq(ScriptNames)
  <2>1. first \o PostMapping(on) \in Seq(ScriptNames)
    BY <1>2, <1>3, ConcatOf
  <2>2. (first \o PostMapping(on)) \o second \in Seq(ScriptNames)
    BY <2>1, <1>2, ConcatOf
  <2>3. ((first \o PostMapping(on)) \o second) \o PostReview(on) \in Seq(ScriptNames)
    BY <2>2, <1>3, ConcatOf
  <2>4. (((first \o PostMapping(on)) \o second) \o PostReview(on)) \o third \in Seq(ScriptNames)
    BY <2>3, <1>2, ConcatOf
  <2>5. ((((first \o PostMapping(on)) \o second) \o PostReview(on)) \o third) \o PostRates
            \in Seq(ScriptNames)
    BY <2>4, <1>3, ConcatOf
  <2>6. QED
    BY <2>5, <1>2, ConcatOf
<1> HIDE DEF before
<1>6. /\ Behind(before \o PostTriage(on), AfterGate, "outlier_gate")
      /\ Has(before \o PostTriage(on), "outlier_gate")
      /\ Behind(before \o PostTriage(on), AfterFix, "validate_fix")
      /\ Has(before \o PostTriage(on), "validate_fix")
      /\ before \o PostTriage(on) \in Seq(ScriptNames)
  BY <1>3, <1>5, TriageEnds, BehindConcat, ConcatOf
<1> DEFINE most == before \o PostTriage(on)
<1>7. /\ most \in Seq(ScriptNames) /\ Pipeline(on) = most \o last
      /\ Behind(most, AfterGate, "outlier_gate") /\ Has(most, "outlier_gate")
      /\ Behind(most, AfterFix, "validate_fix") /\ Has(most, "validate_fix")
  BY <1>1, <1>6
<1> HIDE DEF most
<1>8. /\ Behind(most \o last, AfterGate, "outlier_gate") /\ Has(most \o last, "outlier_gate")
      /\ Behind(most \o last, AfterFix, "validate_fix") /\ Has(most \o last, "validate_fix")
  BY <1>2, <1>4, <1>7, BehindConcat
<1>9. QED
  BY <1>7, <1>8

-----------------------------------------------------------------------------
(* A step of a run without a fault.                                        *)

\* It is done with the first script, or has put others before the rest.
Advances ==
    /\ todo # <<>> /\ todo' = Tail(todo)
    /\ todo[1] \in AfterFix \ {"over_and_under_projection"} =>
           \/ OutlierGate
           \/ todo[1] = "validate_fix" /\ ValidateFix
    /\ todo[1] = "over_and_under_projection" => UNCHANGED <<bill, table, rates>>

Returns ==
    /\ todo # <<>>
    /\ \E p \in Seq(ScriptNames) :
           /\ todo' = p \o Tail(todo)
           /\ todo[1] \in AfterFix => todo[1] = "over_and_under_projection" /\ p = PostTriage(layer)

LEMMA WithoutFault ==
    ASSUME IInv, IInv', RunScript, faults' = 0
    PROVE  /\ faults = 0 /\ recalcs' = recalcs /\ layer' = layer
           /\ Advances \/ Returns \/ (todo = <<>> /\ todo' = <<>> /\ UNCHANGED <<bill, table, rates>>)
<1> DEFINE Goal == Advances \/ Returns
                   \/ (todo = <<>> /\ todo' = <<>> /\ UNCHANGED <<bill, table, rates>>)
<1>1. faults \in Nat /\ layer \in BOOLEAN /\ todo \in Seq(ScriptNames)
  BY DEF IInv, FlowTyped, PlanOrdered, Ordered
<1>2. status' # "failed"
  BY DEF IInv, OnlyFaultsFail
<1>3. ~Fault /\ faults = 0
  BY <1>1, ChangedBy DEF Fault
<1> SUFFICES Goal
  BY <1>3, ChangedBy DEF inputVars
<1>4. ASSUME NEW s, At(s) PROVE todo # <<>> /\ todo[1] = s
  BY <1>4, <1>1 DEF At
<1>5. ASSUME NEW s, At(s), Continue, s \notin AfterFix PROVE Advances
  BY <1>5, <1>4 DEF Continue, Advances, AfterFix, AfterGate
<1>6. ASSUME NEW s, At(s), NEW p \in Seq(ScriptNames), Then(p),
             s \in AfterFix => s = "over_and_under_projection" /\ p = PostTriage(layer)
      PROVE  Returns
  BY <1>6, <1>4 DEF Then, Returns
<1>7. /\ PostMapping(layer) \in Seq(ScriptNames) /\ PostReview(layer) \in Seq(ScriptNames)
      /\ PostRates \in Seq(ScriptNames) /\ PostTriage(layer) \in Seq(ScriptNames)
  BY <1>1, PostSteps
<1>8. /\ PostMapping(layer) \o <<"mapping_coverage_after_retry">> \in Seq(ScriptNames)
      /\ <<"ensure_full_coverage", "mapping_coverage_at_last">> \in Seq(ScriptNames)
  <2>1. /\ <<"mapping_coverage_after_retry">> \in Seq(ScriptNames)
        /\ <<"ensure_full_coverage", "mapping_coverage_at_last">> \in Seq(ScriptNames)
    BY Tuples DEF ScriptNames
  <2>2. QED
    BY <2>1, <1>7, ConcatOf
<1>9. CASE ScriptFails
  BY <1>9, <1>3 DEF ScriptFails, Skip
<1>10. CASE \/ Classify \/ ApplyCommitmentIgnores \/ ApplyStaticMappings \/ MappingAgent
            \/ MappingAgentBlocked \/ MergeMappings \/ MergeMappingsRollsBack
            \/ ServiceClassifier \/ FixStorageMisroute \/ ReconcileCapacity
            \/ DirectivesFromLegacy \/ ApplyDirectives \/ CoveragePasses \/ RetryAgentBlocked
  <2>1. \E s : At(s) /\ Continue /\ s \notin AfterFix
    BY <1>10, <1>3 DEF Classify, ApplyCommitmentIgnores, ApplyStaticMappings, MappingAgent,
         MappingAgentBlocked, MergeMappings, MergeMappingsRollsBack, ServiceClassifier,
         FixStorageMisroute, ReconcileCapacity, DirectivesFromLegacy, ApplyDirectives,
         CoverageGate, CoveragePasses, RetryAgentBlocked, Rewrite, Skip, AfterFix, AfterGate
  <2>2. QED
    BY <2>1, <1>5
<1>11. CASE \/ AutoReview \/ ReviewAgent \/ ReviewAgentBlocked \/ ApplyReviewFixes
            \/ NoIllegalPassthroughsBlocked \/ ApplyRates \/ ValidateFixDies
            \/ NoNullProjectedCostBlocked \/ DetectOutliers \/ AutoTriage \/ IncrementalRerate
            \/ TriageAgent \/ TriageAgentBlocked \/ ApplyOutlierFixes
            \/ OverAndUnderProjectionBlocked \/ EnsureFullCoverage
  <2>1. \E s : At(s) /\ Continue /\ s \notin AfterFix
    BY <1>11, <1>3 DEF AutoReview, ReviewAgent, ReviewAgentBlocked, ApplyReviewFixes,
         NoIllegalPassthroughsBlocked, ApplyRates, ValidateFixDies, NoNullProjectedCostBlocked,
         DetectOutliers, AutoTriage, IncrementalRerate, TriageAgent, TriageAgentBlocked,
         ApplyOutlierFixes, OverAndUnderProjectionBlocked, EnsureFullCoverage, AgentBlocked,
         SoftGateBlocked, Rewrite, Reprice, Skip, AfterFix, AfterGate
  <2>2. QED
    BY <2>1, <1>5
<1>12. CASE RetryAgent
  <2>1. At("mapping_coverage") /\ "mapping_coverage" \notin AfterFix
        /\ Then(PostMapping(layer) \o <<"mapping_coverage_after_retry">>)
    BY <1>12 DEF RetryAgent, CoverageGate, AfterFix, AfterGate
  <2>2. QED
    BY <2>1, <1>6, <1>8
<1>13. CASE CoverageAfterRetry
  <2>1. At("mapping_coverage_after_retry") /\ "mapping_coverage_after_retry" \notin AfterFix
    BY <1>13 DEF CoverageAfterRetry, CoverageGate, AfterFix, AfterGate
  <2>2. Continue \/ Then(<<"ensure_full_coverage", "mapping_coverage_at_last">>)
    BY <1>13 DEF CoverageAfterRetry
  <2>3. QED
    BY <2>1, <2>2, <1>5, <1>6, <1>8
<1>14. CASE CoverageAtLast
  <2>1. At("mapping_coverage_at_last") /\ "mapping_coverage_at_last" \notin AfterFix /\ Continue
    BY <1>14, <1>2 DEF CoverageAtLast, CoverageGate, Fail, AfterFix, AfterGate
  <2>2. QED
    BY <2>1, <1>5
<1>15. ASSUME NEW gate, NEW bad, NEW post \in Seq(ScriptNames), SoftGate(gate, bad, post),
              gate \notin AfterFix
       PROVE  Goal
  <2>1. At(gate) /\ (Continue \/ Then(post))
    BY <1>15 DEF SoftGate
  <2>2. QED
    BY <2>1, <1>15, <1>5, <1>6
<1>16. CASE NoIllegalPassthroughs \/ NoNullProjectedCost
  BY <1>16, <1>15, <1>7 DEF NoIllegalPassthroughs, NoNullProjectedCost, AfterFix, AfterGate
<1>17. CASE OverAndUnderProjection
  <2>1. At("over_and_under_projection")
        /\ (Then(PostTriage(layer)) \/ (Continue /\ UNCHANGED <<bill, table, rates>>))
    BY <1>17 DEF OverAndUnderProjection, SoftGate, inputVars
  <2>2. ASSUME Continue, UNCHANGED <<bill, table, rates>> PROVE Advances
    BY <2>1, <2>2, <1>4 DEF Continue, Advances, AfterFix, AfterGate
  <2>3. QED
    BY <2>1, <2>2, <1>6, <1>7
<1>18. CASE OutlierGate
  BY <1>18, <1>4 DEF OutlierGate, Rewrite, Continue, Advances
<1>19. CASE ValidateFix
  BY <1>19, <1>4 DEF ValidateFix, Reprice, Continue, Advances
<1>20. CASE Finish
  BY <1>20 DEF Finish, inputVars, tableVars
<1>21. CASE GateNotEvaluated
  <2>1. PICK gate \in Gates : At(gate)
    BY <1>21 DEF GateNotEvaluated
  <2>2. gate \notin AfterFix \ {"over_and_under_projection"}
    BY DEF Gates, CoverageGates, AfterFix, AfterGate
  <2>3. todo' = Tail(todo) /\ UNCHANGED <<bill, table, rates>>
    BY <1>21 DEF GateNotEvaluated, inputVars, tableVars
  <2>4. QED
    BY <2>1, <2>2, <2>3, <1>4 DEF Advances
<1>22. QED
  BY <1>9, <1>10, <1>11, <1>12, <1>13, <1>14, <1>16, <1>17, <1>18, <1>19, <1>20, <1>21 DEF RunScript

\* What an x of the end of phase 5 sees to, if nothing of the phase is to come.
LEMMA StillBehind ==
    ASSUME IInv, IInv', RunScript, faults' = 0, NEW S \in {AfterGate, AfterFix},
           NEW x \in {"outlier_gate", "validate_fix"},
           Behind(todo, S, x), Behind(PostTriage(layer), S, x), Has(PostTriage(layer), x)
    PROVE  /\ Behind(todo', S, x)
           /\ \/ Has(todo', x)
              \/ ~Has(todo, x) /\ UNCHANGED <<bill, table, rates>>
              \/ /\ todo # <<>> /\ todo[1] \in S /\ (todo[1] = x \/ ~Has(todo, x))
                 /\ OutlierGate \/ ValidateFix
<1>1. todo \in Seq(ScriptNames) /\ layer \in BOOLEAN /\ S \subseteq AfterFix
      /\ PostTriage(layer) \in Seq(ScriptNames)
  BY PostSteps DEF IInv, FlowTyped, PlanOrdered, Ordered, AfterFix
<1>2. CASE todo = <<>> /\ todo' = <<>> /\ UNCHANGED <<bill, table, rates>>
  BY <1>2 DEF Behind, Has
<1>3. CASE Advances
  <2>1. todo # <<>> /\ todo' = Tail(todo)
    BY <1>3 DEF Advances
  <2>2. /\ Behind(todo', S, x)
        /\ todo[1] \notin S => Has(todo', x)
        /\ Has(todo, x) /\ todo[1] # x => Has(todo', x)
    BY <2>1, <1>1, BehindTail
  <2>3. CASE todo[1] = "over_and_under_projection"
    <3>1. UNCHANGED <<bill, table, rates>>
      BY <1>3, <2>3 DEF Advances
    <3>2. Has(todo, x) => Has(todo', x)
      BY <2>2, <2>3
    <3>3. QED
      BY <2>2, <3>1, <3>2
  <2>4. CASE todo[1] \in S /\ todo[1] # "over_and_under_projection"
    BY <1>1, <1>3, <2>1, <2>2, <2>4 DEF Advances
  <2>5. QED
    BY <2>2, <2>3, <2>4
<1>4. CASE Returns
  <2>1. PICK p \in Seq(ScriptNames) :
            /\ todo' = p \o Tail(todo)
            /\ todo[1] \in AfterFix => todo[1] = "over_and_under_projection" /\ p = PostTriage(layer)
    BY <1>4 DEF Returns
  <2>2. todo # <<>> /\ Tail(todo) \in Seq(ScriptNames)
    BY <1>1, <1>4, TailOf DEF Returns
  <2>3. Behind(Tail(todo), S, x) /\ (todo[1] \notin S => Has(Tail(todo), x))
    BY <2>2, <1>1, BehindTail
  <2>4. (Behind(p, S, x) /\ Has(p, x)) \/ Has(Tail(todo), x)
    BY <2>1, <2>3, <1>1
  <2>5. Behind(p \o Tail(todo), S, x) /\ Has(p \o Tail(todo), x)
    BY <2>2, <2>3, <2>4, BehindConcat
  <2>6. QED
    BY <2>1, <2>5
<1>5. QED
  BY <1>2, <1>3, <1>4, WithoutFault

-----------------------------------------------------------------------------
(* outlier_gate.py.                                                        *)

Clamped == \A row \in table : Mapped(row) => ~Blowup(table, rates, bill, row)

\* Unless something failed, what has not been through the gate will be.
ToBeClamped ==
    recalcs = 0 /\ faults = 0 =>
        Behind(todo, AfterGate, "outlier_gate") /\ (Has(todo, "outlier_gate") \/ Clamped)

\* What a mapped row costs depends on no other row.
LEMMA MappedCost ==
    ASSUME NEW rows, NEW rs, NEW b, NEW row, NEW col, Mapped(row)
    PROVE  RowCost(rows, rs, b, row, col) =
               LET rate == RowRate(rs, row, b[row.key], compute_dominant_region(b), col)
               IN  IF rate # NoRate THEN b[row.key].qty * row.mult * rate ELSE 0
BY DEF RowCost, Mapped, Unpriced

LEMMA MappedCostsAlike ==
    ASSUME NEW rows, NEW others, NEW rs, NEW b, NEW row, Mapped(row)
    PROVE  Blowup(rows, rs, b, row) = Blowup(others, rs, b, row)
<1>1. RowCost(rows, rs, b, row, "OnDemand") = RowCost(others, rs, b, row, "OnDemand")
  BY MappedCost
<1>2. QED
  BY <1>1 DEF Blowup

\* A mapped row without a price costs nothing.
LEMMA UnpricedCostsNothing ==
    ASSUME NEW rows, NEW rs, NEW b, NEW row, Mapped(row),
           ~HasCost(row, rs, b[row.key], compute_dominant_region(b))
    PROVE  RowCost(rows, rs, b, row, "OnDemand") = 0
<1>1. RateAt(rs, row.sku, "OnDemand", b[row.key].region, compute_dominant_region(b)) = NoRate
  BY DEF HasCost, Mapped
<1>2. RowRate(rs, row, b[row.key], compute_dominant_region(b), "OnDemand") = NoRate
  BY <1>1 DEF RowRate
<1>3. QED
  BY <1>2, MappedCost

LEMMA UnpricedIsNoBlowup ==
    ASSUME NEW rows, NEW rs, NEW b, NEW row, Mapped(row), b[row.key].cost \in Int,
           ~HasCost(row, rs, b[row.key], compute_dominant_region(b))
    PROVE  ~Blowup(rows, rs, b, row)
<1>1. RowCost(rows, rs, b, row, "OnDemand") = 0
  BY UnpricedCostsNothing
<1>2. /\ Gate.awsFloor \in Nat /\ Gate.gcpFloor \in Nat /\ Gate.gcpAbs \in Nat
      /\ Gate.inflation \in Nat
  BY GateAssumption
<1>3. b[row.key].cost > Gate.awsFloor => Gate.inflation * b[row.key].cost >= 0
  <2> SUFFICES ASSUME NEW c \in Int, NEW n \in Nat, c >= 0 PROVE n * c >= 0
    BY <1>2
  <2>1. QED
    OBVIOUS
<1>4. QED
  BY <1>1, <1>2, <1>3 DEF Blowup

LEMMA GateClamps ==
    ASSUME NEW rows, NEW rs, NEW b, Named(rows), \A row \in rows : b[row.key].cost \in Int,
           NEW new \in outlier_gate(rows, rs, b), Mapped(new)
    PROVE  ~Blowup(outlier_gate(rows, rs, b), rs, b, new)
<1> DEFINE dom == compute_dominant_region(b)
           Hard(row) == HasCost(row, rs, b[row.key], dom) /\ Blowup(rows, rs, b, row)
           hard == {row \in rows : Hard(row)}
<1>1. PICK row \in rows :
          new = IF row \in SameComponent(rows, hard)
                THEN [row EXCEPT !.strategy = "needs_reprice", !.reason = "clamped_outlier"]
                ELSE row
  BY DEF outlier_gate
<1>2. DOMAIN row = RowColumns
  BY DEF Named
<1>3. ~Hard(row) /\ new = row
  BY <1>1, <1>2 DEF SameComponent, Mapped, RowColumns
<1>4. ~Blowup(rows, rs, b, row)
  BY <1>3, UnpricedIsNoBlowup
<1>5. QED
  BY <1>3, <1>4, MappedCostsAlike

LEMMA LinesHaveCosts ==
    ASSUME IInv, DataTyped
    PROVE  Named(table) /\ \A row \in table : bill[row.key].cost \in Int
<1>1. \A k \in Lines : bill[k].cost \in Int
  BY BillsAssumption DEF DataTyped, PlanTyped, Lines
<1>2. QED
  BY <1>1 DEF IInv, FlowTyped, DataTyped, RowsTyped, Covered

LEMMA ClampStep ==
    ASSUME IInv, IInv', DataTyped, RunScript, ToBeClamped
    PROVE  ToBeClamped'
<1> SUFFICES ASSUME recalcs' = 0, faults' = 0
             PROVE  Behind(todo', AfterGate, "outlier_gate")
                    /\ (Has(todo', "outlier_gate") \/ Clamped')
  BY DEF ToBeClamped
<1>1. faults = 0 /\ recalcs = 0
  BY WithoutFault
<1>2. layer \in BOOLEAN
  BY DEF IInv, FlowTyped
<1>3. /\ Behind(todo', AfterGate, "outlier_gate")
      /\ \/ Has(todo', "outlier_gate")
         \/ ~Has(todo, "outlier_gate") /\ UNCHANGED <<bill, table, rates>>
         \/ /\ todo # <<>> /\ todo[1] \in AfterGate
            /\ OutlierGate \/ ValidateFix
  BY <1>1, <1>2, StillBehind, TriageEnds DEF ToBeClamped, AfterGate
<1>4. CASE ~Has(todo, "outlier_gate") /\ UNCHANGED <<bill, table, rates>>
  BY <1>1, <1>3, <1>4 DEF ToBeClamped, Clamped
<1>5. CASE todo # <<>> /\ todo[1] \in AfterGate /\ (OutlierGate \/ ValidateFix)
  <2>1. OutlierGate
    BY <1>5 DEF ValidateFix, Reprice, At, AfterGate, IInv, PlanOrdered, Ordered
  <2>2. table' = outlier_gate(table, rates, bill) /\ UNCHANGED <<bill, rates>>
    BY <2>1 DEF OutlierGate, Rewrite, inputVars
  <2>3. Clamped'
    BY <2>2, GateClamps, LinesHaveCosts DEF Clamped
  <2>4. QED
    BY <2>3, <1>3
<1>6. QED
  BY <1>3, <1>4, <1>5

LEMMA ClampKeeps ==
    ASSUME IInv, IInv', DataTyped, [Next]_vars, ToBeClamped
    PROVE  ToBeClamped'
<1>1. CASE RunScript
  BY <1>1, ClampStep
<1>2. CASE ~RunScript
  <2>1. UNCHANGED <<bill, table, rates, faults>>
        /\ (UNCHANGED flowVars \/ \E changed : RecalculateWith(changed))
    BY <1>2, ChangedElsewhere DEF inputVars, tableVars
  <2>2. CASE UNCHANGED flowVars
    BY <2>1, <2>2 DEF flowVars, ToBeClamped, Clamped
  <2>3. ASSUME NEW changed, RecalculateWith(changed) PROVE recalcs' # 0
    BY <2>3 DEF RecalculateWith, IInv, FlowTyped
  <2>4. QED
    BY <2>1, <2>2, <2>3 DEF ToBeClamped
<1>3. QED
  BY <1>1, <1>2

-----------------------------------------------------------------------------
(* validate_fix.py.                                                        *)

Priced(rows, rs, b) ==
    \A row \in rows : Mapped(row) /\ b[row.key].cost > 5 =>
        HasCost(row, rs, b[row.key], compute_dominant_region(b))

\* Unless something failed, what has not been through the repairs will be.
ToBePriced ==
    recalcs = 0 /\ faults = 0 =>
        Behind(todo, AfterFix, "validate_fix")
        /\ (Has(todo, "validate_fix") \/ Priced(table, rates, bill))

LEMMA UnpricedDowngraded ==
    ASSUME NEW rows, NEW rs, NEW b, Named(rows)
    PROVE  Priced(downgrade_unpriced(rows, rs, b), rs, b)
<1> SUFFICES ASSUME NEW new \in downgrade_unpriced(rows, rs, b), Mapped(new), b[new.key].cost > 5
             PROVE  HasCost(new, rs, b[new.key], compute_dominant_region(b))
  BY DEF Priced
<1> DEFINE Lost(row) == Mapped(row) /\ b[row.key].cost > 5 /\ ~HasUsableRate(rows, rs, b, row)
           bad == {row \in rows : Lost(row)}
<1>1. PICK row \in rows :
          new = IF row \in SameComponent(rows, bad)
                THEN [row EXCEPT !.strategy = "passthrough", !.reason = "unresolved_sku", !.sku = None]
                ELSE row
  BY DEF downgrade_unpriced
<1>2. DOMAIN row = RowColumns
  BY DEF Named
<1>3. ~Lost(row) /\ new = row
  BY <1>1, <1>2 DEF SameComponent, Mapped, RowColumns
<1>4. QED
  BY <1>3 DEF HasUsableRate

\* What is left out of the mapping needs no price.
LEMMA FewerMapped ==
    ASSUME NEW rows, NEW new, NEW rs, NEW b, Priced(rows, rs, b),
           \A q \in new : Mapped(q) => q \in rows
    PROVE  Priced(new, rs, b)
BY DEF Priced

LEMMA DetailLessPriced ==
    ASSUME NEW rows, NEW rs, NEW b, Named(rows), Priced(rows, rs, b)
    PROVE  Priced(downgrade_detail_less(rows, b), rs, b)
<1>1. ASSUME NEW q \in downgrade_detail_less(rows, b), Mapped(q) PROVE q \in rows
  BY <1>1 DEF downgrade_detail_less, CapConf, Mapped, Named, RowColumns
<1>2. QED
  BY <1>1, FewerMapped

LEMMA OutlierGatePriced ==
    ASSUME NEW rows, NEW rs, NEW b, Named(rows), Priced(rows, rs, b)
    PROVE  Priced(outlier_gate(rows, rs, b), rs, b)
<1>1. ASSUME NEW q \in outlier_gate(rows, rs, b), Mapped(q) PROVE q \in rows
  BY <1>1 DEF outlier_gate, Mapped, Named, RowColumns
<1>2. QED
  BY <1>1, FewerMapped

LEMMA ValidateFixPrices ==
    ASSUME NEW rows, NEW rs, NEW b, NEW g, NEW s, Named(rows)
    PROVE  LET fixed == validate_fix(rows, rs, b, g, s) IN Priced(fixed.table, fixed.rates, b)
<1> DEFINE mapped == RepairedMapping(rows, rs, b, g, s)
           moved  == repair_families(mapped, rs, b, s)
           found  == repair_regions(moved.table, moved.rates, b, s)
           real   == ignore_phantoms(found.table, with_cud(found.rates), b)
           known  == with_cud(found.rates)
<1>1. Named(mapped)
  BY RepairedMappingLines DEF SameLines
<1>2. validate_fix(rows, rs, b, g, s) =
          [table |-> downgrade_detail_less(downgrade_unpriced(real, known, b), b), rates |-> known]
  BY DEF validate_fix, Completed, RepairedSkus, RepairedProjection
<1> HIDE DEF mapped
<1>3. Named(moved.table)
  BY <1>1, FamiliesLines DEF SameLines
<1> HIDE DEF moved
<1>4. Named(found.table)
  BY <1>3, RegionsLines DEF SameLines
<1> HIDE DEF found
<1>5. Named(real)
  BY <1>4, IgnoreLinesLines DEF ignore_phantoms, SameLines
<1> HIDE DEF real, known
<1>6. Named(downgrade_unpriced(real, known, b))
  BY <1>5, UnpricedLines DEF SameLines
<1>7. Priced(downgrade_detail_less(downgrade_unpriced(real, known, b), b), known, b)
  BY <1>5, <1>6, UnpricedDowngraded, DetailLessPriced
<1>8. QED
  BY <1>2, <1>7

LEMMA PriceStep ==
    ASSUME IInv, IInv', RunScript, ToBePriced
    PROVE  ToBePriced'
<1> SUFFICES ASSUME recalcs' = 0, faults' = 0
             PROVE  Behind(todo', AfterFix, "validate_fix")
                    /\ (Has(todo', "validate_fix") \/ Priced(table', rates', bill'))
  BY DEF ToBePriced
<1>1. faults = 0 /\ recalcs = 0
  BY WithoutFault
<1>2. layer \in BOOLEAN /\ Named(table)
  BY DEF IInv, FlowTyped
<1>3. /\ Behind(todo', AfterFix, "validate_fix")
      /\ \/ Has(todo', "validate_fix")
         \/ ~Has(todo, "validate_fix") /\ UNCHANGED <<bill, table, rates>>
         \/ /\ todo # <<>> /\ (todo[1] = "validate_fix" \/ ~Has(todo, "validate_fix"))
            /\ OutlierGate \/ ValidateFix
  BY <1>1, <1>2, StillBehind, TriageEnds DEF ToBePriced
<1>4. CASE ~Has(todo, "validate_fix") /\ UNCHANGED <<bill, table, rates>>
  BY <1>1, <1>3, <1>4 DEF ToBePriced
<1>5. CASE ValidateFix
  <2>1. /\ table' = validate_fix(table, rates, bill, group, skus).table
        /\ rates' = validate_fix(table, rates, bill, group, skus).rates /\ bill' = bill
    BY <1>5 DEF ValidateFix, Reprice, inputVars
  <2>2. Priced(table', rates', bill')
    BY <2>1, <1>2, ValidateFixPrices
  <2>3. QED
    BY <2>2, <1>3
<1>6. CASE OutlierGate /\ ~Has(todo, "validate_fix")
  <2>1. table' = outlier_gate(table, rates, bill) /\ UNCHANGED <<bill, rates>>
    BY <1>6 DEF OutlierGate, Rewrite, inputVars
  <2>2. Priced(table, rates, bill)
    BY <1>1, <1>6 DEF ToBePriced
  <2>3. Priced(table', rates', bill')
    BY <2>1, <2>2, <1>2, OutlierGatePriced
  <2>4. QED
    BY <2>3, <1>3
<1>7. todo # <<>> /\ OutlierGate => todo[1] # "validate_fix"
  BY DEF OutlierGate, Rewrite, At, IInv, PlanOrdered, Ordered
<1>8. QED
  BY <1>3, <1>4, <1>5, <1>6, <1>7

LEMMA PriceKeeps ==
    ASSUME IInv, IInv', [Next]_vars, ToBePriced
    PROVE  ToBePriced'
<1>1. CASE RunScript
  BY <1>1, PriceStep
<1>2. CASE ~RunScript
  <2>1. UNCHANGED <<bill, table, rates, faults>>
        /\ (UNCHANGED flowVars \/ \E changed : RecalculateWith(changed))
    BY <1>2, ChangedElsewhere DEF inputVars, tableVars
  <2>2. CASE UNCHANGED flowVars
    BY <2>1, <2>2 DEF flowVars, ToBePriced
  <2>3. ASSUME NEW changed, RecalculateWith(changed) PROVE recalcs' # 0
    BY <2>3 DEF RecalculateWith, IInv, FlowTyped
  <2>4. QED
    BY <2>1, <2>2, <2>3 DEF ToBePriced
<1>3. QED
  BY <1>1, <1>2

-----------------------------------------------------------------------------
(* The theorems.                                                           *)

\* Unless a script or an agent failed, no row of a report is priced a multiple
\* above what its line costs today: whatever the agents answered, whatever the
\* catalogue asks for, outlier_gate.py has seen the row as it is in the report.
THEOREM ReportIsClamped == Spec => []ClampedAfterGate
<1>1. Init => ToBeClamped
  <2> SUFFICES ASSUME Init PROVE ToBeClamped
    OBVIOUS
  <2>1. layer \in BOOLEAN /\ todo = Pipeline(layer)
    BY InitIInv DEF Init, IInv, FlowTyped
  <2>2. QED
    BY <2>1, PipelineEnds DEF ToBeClamped
<1>2. IInv /\ IInv' /\ DataTyped /\ [Next]_vars /\ ToBeClamped => ToBeClamped'
  BY ClampKeeps
<1>3. Spec => []ToBeClamped
  BY <1>1, <1>2, InvariantData, PTL DEF Spec
<1>4. IInv /\ ToBeClamped => ClampedAfterGate
  <2>1. IInv /\ Report => ~Has(todo, "outlier_gate")
    BY DEF IInv, PlanOrdered, Report, Has
  <2>2. QED
    BY <2>1 DEF ToBeClamped, Clamped, ClampedAfterGate, Report
<1>5. QED
  BY <1>3, <1>4, InvariantData, PTL
=============================================================================
