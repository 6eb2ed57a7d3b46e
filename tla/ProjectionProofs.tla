-------------------------- MODULE ProjectionProofs --------------------------
(***************************************************************************)
(* Proofs about Projection, for any bill, catalogue and answers of the     *)
(* agents, any number of failing scripts and of recalculations, with and   *)
(* without the directive layer: a run fails for a fault only, and no gap   *)
(* in its report is silent.                                                *)
(***************************************************************************)
EXTENDS Projection, TableProofs

ScriptNames ==
    {"classify_mechanics", "apply_commitment_ignores", "apply_static_mappings", "mapping_agent",
     "merge_mappings", "service_classifier", "fix_storage_misroute", "directives_from_legacy",
     "apply_directives", "reconcile_capacity", "mapping_coverage", "mapping_coverage_after_retry",
     "ensure_full_coverage", "mapping_coverage_at_last", "auto_review", "review_agent",
     "apply_review_fixes", "no_illegal_passthroughs", "apply_rates", "validate_fix",
     "no_null_projected_cost", "detect_outliers", "auto_triage", "incremental_rerate",
     "triage_agent", "apply_outlier_fixes", "outlier_gate", "over_and_under_projection"}

LaterAgents   == {"review_agent", "triage_agent"}
Special       == CoverageGates \cup LaterAgents \cup {"merge_mappings", "ensure_full_coverage"}

Free(s, S) == \A i \in 1 .. Len(s) : s[i] \notin S
Has(s, x)  == \E i \in 1 .. Len(s) : s[i] = x

\* The agents of phases 3 and 5 come after every coverage gate.
AgentsAfterGates(s) ==
    \A i, j \in 1 .. Len(s) : s[i] \in LaterAgents /\ s[j] \in CoverageGates => j < i

\* What the merge leaves open is looked at by a gate that is still to come.
MergeGated(s) ==
    \A i \in 1 .. Len(s) :
        s[i] = "merge_mappings" => \E j \in i + 1 .. Len(s) : s[j] \in CoverageGates

\* The gate that may end the run is reached through the backstop only.
LastAfterBackstop(s) ==
    \A i \in 1 .. Len(s) :
        s[i] = "mapping_coverage_at_last" => i = 1 \/ (i = 2 /\ s[1] = "ensure_full_coverage")

Ordered(s) == s \in Seq(ScriptNames) /\ AgentsAfterGates(s) /\ LastAfterBackstop(s)

\* t may be what is left to do after the first step of s.
Follows(t, s) ==
    /\ Ordered(t)
    /\ MergeGated(s) => MergeGated(t)
    /\ Has(t, "ensure_full_coverage") => Has(s, "ensure_full_coverage")
    /\ Free(t, CoverageGates) => Free(s, CoverageGates) \/ s[1] \in CoverageGates
    /\ t # <<>> /\ t[1] = "mapping_coverage_at_last" => s[1] = "ensure_full_coverage"

-----------------------------------------------------------------------------
(* Sequences of scripts.                                                   *)

LEMMA TailOf ==
    ASSUME NEW s \in Seq(ScriptNames), s # <<>>
    PROVE  /\ Tail(s) \in Seq(ScriptNames) /\ Len(Tail(s)) = Len(s) - 1 /\ Len(s) \in Nat \ {0}
           /\ \A i \in 1 .. Len(s) - 1 : Tail(s)[i] = s[i + 1]
           /\ Head(s) = s[1]
OBVIOUS

LEMMA ConcatOf ==
    ASSUME NEW s \in Seq(ScriptNames), NEW t \in Seq(ScriptNames)
    PROVE  /\ s \o t \in Seq(ScriptNames) /\ Len(s) \in Nat /\ Len(t) \in Nat
           /\ Len(s \o t) = Len(s) + Len(t)
           /\ \A i \in 1 .. Len(s) : (s \o t)[i] = s[i]
           /\ \A i \in 1 .. Len(t) : (s \o t)[Len(s) + i] = t[i]
           /\ \A i \in Len(s) + 1 .. Len(s) + Len(t) : (s \o t)[i] = t[i - Len(s)]
OBVIOUS

LEMMA SuffixOf ==
    ASSUME NEW s \in Seq(ScriptNames), NEW n \in Nat \ {0}
    PROVE  /\ SubSeq(s, n, Len(s)) \in Seq(ScriptNames) /\ Len(SubSeq(s, n, Len(s))) \in Nat
           /\ \A i \in 1 .. Len(SubSeq(s, n, Len(s))) :
                SubSeq(s, n, Len(s))[i] = s[n - 1 + i] /\ n - 1 + i \in 1 .. Len(s)
<1>1. CASE n <= Len(s)
  BY <1>1
<1>2. CASE n > Len(s)
  <2>1. SubSeq(s, n, Len(s)) = <<>>
    BY <1>2
  <2>2. QED
    BY <2>1
<1>3. QED
  BY <1>1, <1>2

LEMMA FreeConcat ==
    ASSUME NEW S, NEW s \in Seq(ScriptNames), NEW t \in Seq(ScriptNames), Free(s, S), Free(t, S)
    PROVE  s \o t \in Seq(ScriptNames) /\ Free(s \o t, S)
<1>1. ASSUME NEW i \in 1 .. Len(s \o t) PROVE (s \o t)[i] \notin S
  <2>1. CASE i <= Len(s)
    BY <2>1, ConcatOf DEF Free
  <2>2. CASE i > Len(s)
    <3>1. i - Len(s) \in 1 .. Len(t)
      BY <2>2, ConcatOf
    <3>2. QED
      BY <3>1, <2>2, ConcatOf DEF Free
  <2>3. QED
    BY <2>1, <2>2, ConcatOf
<1>2. QED
  BY <1>1, ConcatOf DEF Free

LEMMA TailFollows ==
    ASSUME NEW s, Ordered(s), s # <<>>
    PROVE  Follows(Tail(s), s)
<1>0. s \in Seq(ScriptNames)
  BY DEF Ordered
<1> SUFFICES ASSUME NEW t \in Seq(ScriptNames), Len(t) \in Nat, Len(t) = Len(s) - 1, Len(s) \in Nat \ {0},
                    \A i \in 1 .. Len(s) - 1 : t[i] = s[i + 1]
             PROVE  Follows(t, s)
  BY <1>0, TailOf
<1>1. /\ t \in Seq(ScriptNames) /\ Len(t) = Len(s) - 1 /\ Len(s) \in Nat \ {0}
      /\ \A i \in 1 .. Len(s) - 1 : t[i] = s[i + 1]
  OBVIOUS
<1>a. ASSUME NEW i \in 1 .. Len(t) PROVE i + 1 \in 1 .. Len(s) /\ t[i] = s[i + 1]
  BY <1>1
<1>b. AgentsAfterGates(t)
  <2> SUFFICES ASSUME NEW i \in 1 .. Len(t), NEW j \in 1 .. Len(t),
                      t[i] \in LaterAgents, t[j] \in CoverageGates
               PROVE  j < i
    BY DEF AgentsAfterGates
  <2>1. j + 1 < i + 1
    BY <1>a DEF Ordered, AgentsAfterGates
  <2>2. QED
    BY <2>1
<1>c. LastAfterBackstop(t)
  <2> SUFFICES ASSUME NEW i \in 1 .. Len(t), t[i] = "mapping_coverage_at_last" PROVE i = 1
    BY DEF LastAfterBackstop
  <2>1. i + 1 = 1 \/ i + 1 = 2
    BY <1>a DEF Ordered, LastAfterBackstop
  <2>2. QED
    BY <2>1
<1>2. Ordered(t)
  BY <1>b, <1>c DEF Ordered
<1>3. MergeGated(s) => MergeGated(t)
  <2> SUFFICES ASSUME MergeGated(s), NEW i \in 1 .. Len(t), t[i] = "merge_mappings"
               PROVE  \E j \in i + 1 .. Len(t) : t[j] \in CoverageGates
    BY DEF MergeGated
  <2>1. PICK j \in i + 2 .. Len(s) : s[j] \in CoverageGates
    BY <1>1 DEF MergeGated
  <2>2. j - 1 \in i + 1 .. Len(t) /\ t[j - 1] = s[j]
    BY <1>1, <2>1
  <2>3. QED
    BY <2>1, <2>2
<1>4. Has(t, "ensure_full_coverage") => Has(s, "ensure_full_coverage")
  BY <1>1 DEF Has
<1>5. Free(t, CoverageGates) => Free(s, CoverageGates) \/ s[1] \in CoverageGates
  <2> SUFFICES ASSUME Free(t, CoverageGates), s[1] \notin CoverageGates, NEW i \in 1 .. Len(s)
               PROVE  s[i] \notin CoverageGates
    BY DEF Free
  <2>1. CASE i = 1
    BY <2>1
  <2>2. CASE i # 1
    <3>1. i - 1 \in 1 .. Len(t) /\ t[i - 1] = s[i]
      BY <1>1, <2>2
    <3>2. QED
      BY <3>1 DEF Free
  <2>3. QED
    BY <2>1, <2>2
<1>6. t # <<>> /\ t[1] = "mapping_coverage_at_last" => s[1] = "ensure_full_coverage"
  <2> SUFFICES ASSUME t # <<>>, t[1] = "mapping_coverage_at_last"
               PROVE  s[1] = "ensure_full_coverage"
    OBVIOUS
  <2>1. 2 \in 1 .. Len(s) /\ s[2] = "mapping_coverage_at_last"
    BY <1>1
  <2>2. QED
    BY <2>1 DEF Ordered, LastAfterBackstop
<1>7. QED
  BY <1>2, <1>3, <1>4, <1>5, <1>6 DEF Follows

\* What a phase without its agent leaves to do has no gate.
LEMMA SuffixFollows ==
    ASSUME NEW s, Ordered(s), s # <<>>, s[1] \in LaterAgents, NEW n \in Nat \ {0}
    PROVE  Follows(SubSeq(s, n, Len(s)), s)
<1>0. s \in Seq(ScriptNames) /\ Len(s) \in Nat \ {0}
  BY DEF Ordered
<1>1. Free(s, CoverageGates)
  BY <1>0 DEF Ordered, AgentsAfterGates, Free
<1> SUFFICES ASSUME NEW t \in Seq(ScriptNames), Len(t) \in Nat,
                    \A i \in 1 .. Len(t) : t[i] = s[n - 1 + i] /\ n - 1 + i \in 1 .. Len(s)
             PROVE  Follows(t, s)
  BY <1>0, SuffixOf
<1>2. \A i \in 1 .. Len(t) : t[i] = s[n - 1 + i] /\ n - 1 + i \in 1 .. Len(s)
  OBVIOUS
<1>3. Free(t, CoverageGates)
  BY <1>1, <1>2 DEF Free
<1>4. Ordered(t)
  BY <1>2, <1>3 DEF Ordered, AgentsAfterGates, LastAfterBackstop, Free, CoverageGates
<1>5. MergeGated(s) => MergeGated(t)
  <2>1. ASSUME MergeGated(s), NEW i \in 1 .. Len(s) PROVE s[i] # "merge_mappings"
    BY <1>0, <1>1, <2>1 DEF MergeGated, Free
  <2>2. QED
    BY <1>2, <2>1 DEF MergeGated
<1>6. Has(t, "ensure_full_coverage") => Has(s, "ensure_full_coverage")
  BY <1>2 DEF Has
<1>7. t # <<>> => t[1] # "mapping_coverage_at_last"
  BY <1>2, <1>3 DEF Free, CoverageGates
<1>8. QED
  BY <1>1, <1>4, <1>5, <1>6, <1>7 DEF Follows

LEMMA PrependFollows ==
    ASSUME NEW s, Ordered(s), s # <<>>, s[1] # "ensure_full_coverage",
           NEW p \in Seq(ScriptNames), MergeGated(p),
           Free(p, LaterAgents \cup {"mapping_coverage_at_last", "ensure_full_coverage"})
    PROVE  Follows(p \o Tail(s), s)
<1> DEFINE Joined(t, u) ==
        /\ Len(p) \in Nat /\ Len(u) \in Nat /\ Len(t) = Len(p) + Len(u)
        /\ \A i \in 1 .. Len(p) : t[i] = p[i]
        /\ \A i \in 1 .. Len(u) : t[Len(p) + i] = u[i]
        /\ \A i \in Len(p) + 1 .. Len(p) + Len(u) : t[i] = u[i - Len(p)]
<1> SUFFICES ASSUME NEW u \in Seq(ScriptNames), Follows(u, s), Len(s) = Len(u) + 1,
                    \A i \in 1 .. Len(u) : u[i] = s[i + 1],
                    NEW t \in Seq(ScriptNames), Len(t) \in Nat, Joined(t, u)
             PROVE  Follows(t, s)
  <2>1. s \in Seq(ScriptNames)
    BY DEF Ordered
  <2>2. Follows(Tail(s), s)
    BY TailFollows
  <2>3. /\ Tail(s) \in Seq(ScriptNames) /\ Len(s) = Len(Tail(s)) + 1
        /\ \A i \in 1 .. Len(Tail(s)) : Tail(s)[i] = s[i + 1]
    BY <2>1, TailOf
  <2>4. /\ p \o Tail(s) \in Seq(ScriptNames) /\ Len(p \o Tail(s)) \in Nat
        /\ Joined(p \o Tail(s), Tail(s))
    BY <2>3, ConcatOf
  <2> HIDE DEF Joined
  <2>5. QED
    BY <2>2, <2>3, <2>4
<1>0. Follows(u, s)
  OBVIOUS
<1>2. Joined(t, u)
  OBVIOUS
<1>3. ASSUME NEW i \in 1 .. Len(t)
      PROVE  \/ i \in 1 .. Len(p) /\ t[i] = p[i]
             \/ i - Len(p) \in 1 .. Len(u) /\ t[i] = u[i - Len(p)]
  BY <1>2
<1>4. ASSUME NEW i \in 1 .. Len(u) PROVE u[i] # "mapping_coverage_at_last"
  <2>1. Ordered(u) /\ (u # <<>> => u[1] # "mapping_coverage_at_last")
    BY <1>0 DEF Follows
  <2>2. CASE i = 1
    BY <2>1, <2>2
  <2>3. CASE i # 1
    <3>1. Len(s) = Len(u) + 1 /\ u[i] = s[i + 1]
      OBVIOUS
    <3>2. QED
      BY <3>1, <2>3 DEF Ordered, LastAfterBackstop
  <2>4. QED
    BY <2>2, <2>3
<1>5. AgentsAfterGates(t)
  <2> SUFFICES ASSUME NEW i \in 1 .. Len(t), NEW j \in 1 .. Len(t),
                      t[i] \in LaterAgents, t[j] \in CoverageGates
               PROVE  j < i
    BY DEF AgentsAfterGates
  <2>1. i - Len(p) \in 1 .. Len(u) /\ t[i] = u[i - Len(p)]
    BY <1>3 DEF Free
  <2>2. CASE j \in 1 .. Len(p)
    BY <2>1, <2>2, <1>2
  <2>3. CASE j - Len(p) \in 1 .. Len(u) /\ t[j] = u[j - Len(p)]
    <3>1. j - Len(p) < i - Len(p)
      BY <2>1, <2>3, <1>0 DEF Follows, Ordered, AgentsAfterGates
    <3>2. QED
      BY <3>1, <1>2
  <2>4. QED
    BY <2>2, <2>3, <1>3
<1>6. ASSUME NEW i \in 1 .. Len(t) PROVE t[i] # "mapping_coverage_at_last"
  <2>1. CASE i \in 1 .. Len(p) /\ t[i] = p[i]
    BY <2>1 DEF Free
  <2>2. CASE i - Len(p) \in 1 .. Len(u) /\ t[i] = u[i - Len(p)]
    BY <2>2, <1>4
  <2>3. QED
    BY <2>1, <2>2, <1>3
<1>7. MergeGated(s) => MergeGated(t)
  <2> SUFFICES ASSUME MergeGated(s), NEW i \in 1 .. Len(t), t[i] = "merge_mappings"
               PROVE  \E j \in i + 1 .. Len(t) : t[j] \in CoverageGates
    BY DEF MergeGated
  <2>1. CASE i \in 1 .. Len(p) /\ t[i] = p[i]
    <3>1. PICK j \in i + 1 .. Len(p) : p[j] \in CoverageGates
      BY <2>1 DEF MergeGated
    <3>2. QED
      BY <3>1, <2>1, <1>2
  <2>2. CASE i - Len(p) \in 1 .. Len(u) /\ t[i] = u[i - Len(p)]
    <3>1. PICK j \in i - Len(p) + 1 .. Len(u) : u[j] \in CoverageGates
      BY <2>2, <1>0 DEF Follows, MergeGated
    <3>2. Len(p) + j \in i + 1 .. Len(t) /\ t[Len(p) + j] = u[j]
      BY <3>1, <2>2, <1>2
    <3>3. QED
      BY <3>1, <3>2
  <2>3. QED
    BY <2>1, <2>2, <1>3
<1>8. Has(t, "ensure_full_coverage") => Has(s, "ensure_full_coverage")
  <2>1. Has(t, "ensure_full_coverage") => Has(u, "ensure_full_coverage")
    <3> SUFFICES ASSUME NEW i \in 1 .. Len(t), t[i] = "ensure_full_coverage"
                 PROVE  Has(u, "ensure_full_coverage")
      BY DEF Has
    <3>1. ~(i \in 1 .. Len(p) /\ t[i] = p[i])
      BY DEF Free
    <3>2. i - Len(p) \in 1 .. Len(u) /\ u[i - Len(p)] = "ensure_full_coverage"
      BY <3>1, <1>3
    <3>3. QED
      BY <3>2 DEF Has
  <2>2. QED
    BY <2>1, <1>0 DEF Follows
<1>9. Free(t, CoverageGates) => Free(u, CoverageGates)
  <2> SUFFICES ASSUME Free(t, CoverageGates), NEW i \in 1 .. Len(u) PROVE u[i] \notin CoverageGates
    BY DEF Free
  <2>1. Len(p) + i \in 1 .. Len(t) /\ t[Len(p) + i] = u[i]
    BY <1>2
  <2>2. QED
    BY <2>1 DEF Free
<1>10. LastAfterBackstop(t) /\ (t # <<>> => t[1] # "mapping_coverage_at_last")
  BY <1>2, <1>6 DEF LastAfterBackstop
<1>11. QED
  BY <1>0, <1>2, <1>5, <1>7, <1>8, <1>9, <1>10 DEF Follows, Ordered

\* A plan so far: it has a gate, its merges are gated, and the backstop is not
\* yet in it.
Planned(s) ==
    /\ s \in Seq(ScriptNames) /\ AgentsAfterGates(s) /\ MergeGated(s) /\ ~Free(s, CoverageGates)
    /\ Free(s, {"mapping_coverage_at_last", "ensure_full_coverage"})

LEMMA PlanGoesOn ==
    ASSUME NEW s, Planned(s), NEW t \in Seq(ScriptNames),
           Free(t, CoverageGates \cup {"merge_mappings", "ensure_full_coverage"})
    PROVE  Planned(s \o t)
<1>0. s \in Seq(ScriptNames)
  BY DEF Planned
<1> SUFFICES ASSUME NEW u \in Seq(ScriptNames), Len(u) \in Nat, Len(s) \in Nat, Len(t) \in Nat,
                    Len(u) = Len(s) + Len(t),
                    \A i \in 1 .. Len(s) : u[i] = s[i],
                    \A i \in Len(s) + 1 .. Len(s) + Len(t) : u[i] = t[i - Len(s)]
             PROVE  Planned(u)
  BY <1>0, ConcatOf
<1>1. ASSUME NEW i \in 1 .. Len(u)
      PROVE  \/ i \in 1 .. Len(s) /\ u[i] = s[i]
             \/ i - Len(s) \in 1 .. Len(t) /\ u[i] = t[i - Len(s)] /\ i > Len(s)
  OBVIOUS
<1>2. AgentsAfterGates(u)
  <2> SUFFICES ASSUME NEW i \in 1 .. Len(u), NEW j \in 1 .. Len(u),
                      u[i] \in LaterAgents, u[j] \in CoverageGates
               PROVE  j < i
    BY DEF AgentsAfterGates
  <2>1. j \in 1 .. Len(s) /\ u[j] = s[j]
    BY <1>1 DEF Free
  <2>2. CASE i \in 1 .. Len(s) /\ u[i] = s[i]
    BY <2>1, <2>2 DEF Planned, AgentsAfterGates
  <2>3. CASE i > Len(s)
    BY <2>1, <2>3
  <2>4. QED
    BY <2>2, <2>3, <1>1
<1>3. MergeGated(u)
  <2> SUFFICES ASSUME NEW i \in 1 .. Len(u), u[i] = "merge_mappings"
               PROVE  \E j \in i + 1 .. Len(u) : u[j] \in CoverageGates
    BY DEF MergeGated
  <2>1. i \in 1 .. Len(s) /\ u[i] = s[i]
    BY <1>1 DEF Free
  <2>2. PICK j \in i + 1 .. Len(s) : s[j] \in CoverageGates
    BY <2>1 DEF Planned, MergeGated
  <2>3. j \in i + 1 .. Len(u) /\ u[j] = s[j]
    BY <2>1, <2>2
  <2>4. QED
    BY <2>2, <2>3
<1>4. Free(u, {"mapping_coverage_at_last", "ensure_full_coverage"})
  <2> SUFFICES ASSUME NEW i \in 1 .. Len(u)
               PROVE  u[i] \notin {"mapping_coverage_at_last", "ensure_full_coverage"}
    BY DEF Free
  <2>1. CASE i \in 1 .. Len(s) /\ u[i] = s[i]
    BY <2>1 DEF Planned, Free
  <2>2. CASE i - Len(s) \in 1 .. Len(t) /\ u[i] = t[i - Len(s)]
    BY <2>2 DEF Free, CoverageGates
  <2>3. QED
    BY <2>1, <2>2, <1>1
<1>5. ~Free(u, CoverageGates)
  <2>1. PICK i \in 1 .. Len(s) : s[i] \in CoverageGates
    BY DEF Planned, Free
  <2>2. i \in 1 .. Len(u) /\ u[i] = s[i]
    BY <2>1
  <2>3. QED
    BY <2>1, <2>2 DEF Free
<1>6. QED
  BY <1>2, <1>3, <1>4, <1>5 DEF Planned

LEMMA Tuples ==
    ASSUME NEW S
    PROVE  /\ <<>> \in Seq(S)
           /\ \A a \in S : <<a>> \in Seq(S)
           /\ \A a, b \in S : <<a, b>> \in Seq(S)
           /\ \A a, b, c \in S : <<a, b, c>> \in Seq(S)
           /\ \A a, b, c, d \in S : <<a, b, c, d>> \in Seq(S)
           /\ \A a, b, c, d, e \in S : <<a, b, c, d, e>> \in Seq(S)
           /\ \A a, b, c, d, e, f \in S : <<a, b, c, d, e, f>> \in Seq(S)
OBVIOUS

\* What follows an agent in each phase.
LEMMA PostSteps ==
    ASSUME NEW on \in BOOLEAN
    PROVE  /\ PostMapping(on) \in Seq(ScriptNames)
           /\ Free(PostMapping(on), CoverageGates \cup LaterAgents \cup {"ensure_full_coverage"})
           /\ PostReview(on) \in Seq(ScriptNames) /\ Free(PostReview(on), Special)
           /\ PostRates \in Seq(ScriptNames) /\ Free(PostRates, Special)
           /\ PostTriage(on) \in Seq(ScriptNames) /\ Free(PostTriage(on), Special)
<1> DEFINE Known == CoverageGates \cup LaterAgents \cup {"ensure_full_coverage"}
           merged == <<"merge_mappings", "service_classifier", "fix_storage_misroute">>
           rerated == <<"incremental_rerate", "validate_fix", "outlier_gate">>
<1>1. \A s : Free(s, Special) => Free(s, Known)
  BY DEF Special, Free
<1>2. /\ ByDirectives \in Seq(ScriptNames) /\ <<>> \in Seq(ScriptNames)
      /\ merged \in Seq(ScriptNames) /\ <<"reconcile_capacity">> \in Seq(ScriptNames)
      /\ <<"apply_review_fixes">> \in Seq(ScriptNames)
      /\ <<"apply_outlier_fixes">> \in Seq(ScriptNames)
      /\ rerated \in Seq(ScriptNames) /\ PostRates \in Seq(ScriptNames)
  BY Tuples DEF ByDirectives, PostRates, ScriptNames
<1>3. /\ Free(ByDirectives, Special) /\ Free(<<"reconcile_capacity">>, Special)
      /\ Free(<<>>, Special) /\ Free(PostRates, Special) /\ Free(rerated, Special)
      /\ Free(<<"apply_review_fixes">>, Special) /\ Free(<<"apply_outlier_fixes">>, Special)
  BY DEF ByDirectives, PostRates, Free, Special, CoverageGates, LaterAgents
<1>4. Free(merged, Known)
  BY DEF Free, CoverageGates, LaterAgents
<1> HIDE DEF Known, merged, rerated
<1>5. PostMapping(on) \in Seq(ScriptNames) /\ Free(PostMapping(on), Known)
  <2>1. CASE on
    <3>1. PostMapping(on) = (merged \o ByDirectives) \o <<"reconcile_capacity">>
      BY <2>1 DEF PostMapping, merged
    <3>2. Free(ByDirectives, Known) /\ Free(<<"reconcile_capacity">>, Known)
      BY <1>1, <1>3
    <3>3. merged \o ByDirectives \in Seq(ScriptNames) /\ Free(merged \o ByDirectives, Known)
      BY <3>2, <1>2, <1>4, FreeConcat
    <3>4. /\ (merged \o ByDirectives) \o <<"reconcile_capacity">> \in Seq(ScriptNames)
          /\ Free((merged \o ByDirectives) \o <<"reconcile_capacity">>, Known)
      BY <3>2, <3>3, <1>2, FreeConcat
    <3>5. QED
      BY <3>1, <3>4, Zenon
  <2>2. CASE ~on
    <3>1. PostMapping(on) = (merged \o <<>>) \o <<"reconcile_capacity">>
      BY <2>2 DEF PostMapping, merged
    <3>2. Free(<<>>, Known) /\ Free(<<"reconcile_capacity">>, Known)
      BY <1>1, <1>3
    <3>3. merged \o <<>> \in Seq(ScriptNames) /\ Free(merged \o <<>>, Known)
      BY <3>2, <1>2, <1>4, FreeConcat
    <3>4. /\ (merged \o <<>>) \o <<"reconcile_capacity">> \in Seq(ScriptNames)
          /\ Free((merged \o <<>>) \o <<"reconcile_capacity">>, Known)
      BY <3>2, <3>3, <1>2, FreeConcat
    <3>5. QED
      BY <3>1, <3>4, Zenon
  <2>3. QED
    BY <2>1, <2>2
<1>6. PostReview(on) \in Seq(ScriptNames) /\ Free(PostReview(on), Special)
  BY <1>2, <1>3 DEF PostReview
<1>7. PostTriage(on) \in Seq(ScriptNames) /\ Free(PostTriage(on), Special)
  <2>1. CASE on
    <3>1. PostTriage(on) = ByDirectives \o rerated
      BY <2>1 DEF PostTriage, rerated
    <3>2. ByDirectives \o rerated \in Seq(ScriptNames) /\ Free(ByDirectives \o rerated, Special)
      BY <1>2, <1>3, FreeConcat
    <3>3. QED
      BY <3>1, <3>2, Zenon
  <2>2. CASE ~on
    <3>1. PostTriage(on) = <<"apply_outlier_fixes">> \o rerated
      BY <2>2 DEF PostTriage, rerated
    <3>2. /\ <<"apply_outlier_fixes">> \o rerated \in Seq(ScriptNames)
          /\ Free(<<"apply_outlier_fixes">> \o rerated, Special)
      BY <1>2, <1>3, FreeConcat
    <3>3. QED
      BY <3>1, <3>2, Zenon
  <2>3. QED
    BY <2>1, <2>2
<1>8. QED
  BY <1>2, <1>3, <1>5, <1>6, <1>7 DEF Known

\* The plan of run_all.py up to the first agent behind the gate ...
LEMMA GateReached ==
    ASSUME NEW p \in Seq(ScriptNames),
           Free(p, CoverageGates \cup LaterAgents \cup {"ensure_full_coverage"})
    PROVE  Planned(p \o <<"mapping_coverage", "auto_review", "review_agent">>)
<1> DEFINE q == <<"mapping_coverage", "auto_review", "review_agent">>
<1>1. q \in Seq(ScriptNames) /\ Len(q) = 3
  BY Tuples DEF ScriptNames
<1>2. q[1] = "mapping_coverage" /\ q[2] = "auto_review" /\ q[3] = "review_agent"
  OBVIOUS
<1> HIDE DEF q
<1> SUFFICES ASSUME NEW u \in Seq(ScriptNames), Len(u) \in Nat, Len(p) \in Nat, Len(u) = Len(p) + 3,
                    \A i \in 1 .. Len(p) : u[i] = p[i],
                    u[Len(p) + 1] = "mapping_coverage", u[Len(p) + 2] = "auto_review",
                    u[Len(p) + 3] = "review_agent"
             PROVE  Planned(u)
  <2>0. /\ p \o q \in Seq(ScriptNames) /\ Len(p) \in Nat /\ Len(p \o q) = Len(p) + Len(q)
        /\ \A i \in 1 .. Len(p) : (p \o q)[i] = p[i]
        /\ \A i \in 1 .. Len(q) : (p \o q)[Len(p) + i] = q[i]
    BY <1>1, ConcatOf
  <2>1. /\ p \o q \in Seq(ScriptNames) /\ Len(p) \in Nat /\ Len(p \o q) = Len(p) + 3
        /\ Len(p \o q) \in Nat
        /\ \A i \in 1 .. Len(p) : (p \o q)[i] = p[i]
        /\ \A i \in 1 .. 3 : (p \o q)[Len(p) + i] = q[i]
    BY <2>0, <1>1
  <2>2. /\ (p \o q)[Len(p) + 1] = q[1] /\ (p \o q)[Len(p) + 2] = q[2]
        /\ (p \o q)[Len(p) + 3] = q[3]
    BY <2>1
  <2>3. Planned(p \o q)
    BY <2>1, <2>2, <1>2
  <2>4. QED
    BY <2>3 DEF q
<1>3. ASSUME NEW i \in 1 .. Len(u)
      PROVE  i \in 1 .. Len(p) \/ i = Len(p) + 1 \/ i = Len(p) + 2 \/ i = Len(p) + 3
  OBVIOUS
<1>4. ASSUME NEW i \in 1 .. Len(p)
      PROVE  u[i] \notin CoverageGates /\ u[i] \notin LaterAgents /\ u[i] # "ensure_full_coverage"
  BY DEF Free
<1>5. AgentsAfterGates(u)
  <2> SUFFICES ASSUME NEW i \in 1 .. Len(u), NEW j \in 1 .. Len(u),
                      u[i] \in LaterAgents, u[j] \in CoverageGates
               PROVE  j < i
    BY DEF AgentsAfterGates
  <2>1. i = Len(p) + 3
    BY <1>3, <1>4 DEF LaterAgents
  <2>2. j = Len(p) + 1
    BY <1>3, <1>4 DEF CoverageGates
  <2>3. QED
    BY <2>1, <2>2
<1>6. MergeGated(u)
  <2> SUFFICES ASSUME NEW i \in 1 .. Len(u), u[i] = "merge_mappings"
               PROVE  \E j \in i + 1 .. Len(u) : u[j] \in CoverageGates
    BY DEF MergeGated
  <2>1. i \in 1 .. Len(p)
    BY <1>3
  <2>2. Len(p) + 1 \in i + 1 .. Len(u)
    BY <2>1
  <2>3. QED
    BY <2>2 DEF CoverageGates
<1>7. Free(u, {"mapping_coverage_at_last", "ensure_full_coverage"})
  <2> SUFFICES ASSUME NEW i \in 1 .. Len(u)
               PROVE  u[i] \notin {"mapping_coverage_at_last", "ensure_full_coverage"}
    BY DEF Free
  <2>1. QED
    BY <1>3, <1>4 DEF CoverageGates
<1>8. ~Free(u, CoverageGates)
  <2>1. Len(p) + 1 \in 1 .. Len(u)
    OBVIOUS
  <2>2. QED
    BY <2>1 DEF Free, CoverageGates
<1>9. QED
  BY <1>5, <1>6, <1>7, <1>8 DEF Planned

\* ... and to its end.
LEMMA PipelinePlanned ==
    ASSUME NEW on \in BOOLEAN
    PROVE  Planned(Pipeline(on))
<1> DEFINE Known == CoverageGates \cup LaterAgents \cup {"ensure_full_coverage"}
           Later == CoverageGates \cup {"merge_mappings", "ensure_full_coverage"}
           a == <<"classify_mechanics", "apply_commitment_ignores", "apply_static_mappings",
                  "mapping_agent">>
           b == <<"mapping_coverage", "auto_review", "review_agent">>
           c == <<"no_illegal_passthroughs", "apply_rates">>
           d == <<"no_null_projected_cost", "detect_outliers", "auto_triage",
                  "incremental_rerate", "triage_agent">>
           e == <<"over_and_under_projection">>
<1>1. /\ a \in Seq(ScriptNames) /\ c \in Seq(ScriptNames)
      /\ d \in Seq(ScriptNames) /\ e \in Seq(ScriptNames)
  BY Tuples DEF ScriptNames
<1>2. Free(a, Known)
  BY DEF Free, CoverageGates, LaterAgents
<1>3. Free(c, Later) /\ Free(d, Later) /\ Free(e, Later)
  BY DEF Free, CoverageGates
<1>4. Pipeline(on) = (((((((a \o PostMapping(on)) \o b) \o PostReview(on)) \o c) \o PostRates)
                        \o d) \o PostTriage(on)) \o e
  BY DEF Pipeline
<1>5. \A s : Free(s, Special) => Free(s, Later)
  BY DEF Special, Free
<1>6. /\ PostMapping(on) \in Seq(ScriptNames) /\ Free(PostMapping(on), Known)
      /\ PostReview(on) \in Seq(ScriptNames) /\ Free(PostReview(on), Later)
      /\ PostRates \in Seq(ScriptNames) /\ Free(PostRates, Later)
      /\ PostTriage(on) \in Seq(ScriptNames) /\ Free(PostTriage(on), Later)
  BY <1>5, PostSteps
<1> HIDE DEF a, c, d, e
<1>7. a \o PostMapping(on) \in Seq(ScriptNames) /\ Free(a \o PostMapping(on), Known)
  BY <1>1, <1>2, <1>6, FreeConcat
<1> DEFINE p == a \o PostMapping(on)
           p1 == p \o b
           p2 == p1 \o PostReview(on)
           p3 == p2 \o c
           p4 == p3 \o PostRates
           p5 == p4 \o d
           p6 == p5 \o PostTriage(on)
           p7 == p6 \o e
<1>8. Planned(p1)
  BY <1>7, GateReached
<1> HIDE DEF p1
<1>9. Planned(p2)
  BY <1>8, <1>6, PlanGoesOn
<1> HIDE DEF p2
<1>10. Planned(p3)
  BY <1>9, <1>1, <1>3, PlanGoesOn
<1> HIDE DEF p3
<1>11. Planned(p4)
  BY <1>10, <1>6, PlanGoesOn
<1> HIDE DEF p4
<1>12. Planned(p5)
  BY <1>11, <1>1, <1>3, PlanGoesOn
<1> HIDE DEF p5
<1>13. Planned(p6)
  BY <1>12, <1>6, PlanGoesOn
<1> HIDE DEF p6
<1>14. Planned(p7)
  BY <1>13, <1>1, <1>3, PlanGoesOn
<1>15. QED
  BY <1>4, <1>14, Zenon DEF p1, p2, p3, p4, p5, p6

-----------------------------------------------------------------------------
(* The inductive invariant.  The two properties speak of the end of a run; *)
(* it says what the scripts still to run have to find and will do.         *)

FlowTyped ==
    /\ layer \in BOOLEAN /\ exists \in BOOLEAN
    /\ unchecked \in BOOLEAN /\ faults \in Nat /\ recalcs \in Nat
    /\ Named(table)

PlanOrdered ==
    /\ Ordered(todo)
    /\ recalcs = 0 => MergeGated(todo)
    /\ status # "running" => todo = <<>>

\* The rows are in a table; the backstop finds one, and the gate after it only
\* what it has covered or a fault.
TableThere ==
    /\ exists \/ table = {}
    /\ Has(todo, "ensure_full_coverage") => exists

LastGateMet ==
    todo # <<>> /\ todo[1] = "mapping_coverage_at_last" => Gaps = {} \/ faults > 0

\* Behind the gates every line has a row, or one of them was not evaluated.
BehindGates ==
    recalcs = 0 /\ status # "failed" /\ Free(todo, CoverageGates)
        => unchecked \/ Lines \subseteq Covered

IInv == FlowTyped /\ PlanOrdered /\ TableThere /\ LastGateMet /\ BehindGates /\ OnlyFaultsFail

LEMMA CoveredLines == Covered = LinesOf(table) /\ Covered' = LinesOf(table')
BY DEF Covered, LinesOf

LEMMA SameLinesEmpty ==
    ASSUME NEW new, NEW old, SameLines(new, old), old = {}
    PROVE  new = {}
BY DEF SameLines, LinesOf

LEMMA EmptyPlan == Ordered(<<>>) /\ MergeGated(<<>>) /\ ~Has(<<>>, "ensure_full_coverage")
<1>1. <<>> \in Seq(ScriptNames) /\ Len(<<>>) = 0
  BY Tuples
<1>2. QED
  BY <1>1 DEF Ordered, MergeGated, Has, AgentsAfterGates, LastAfterBackstop

\* The first script to run.
LEMMA AtFirst ==
    ASSUME IInv, NEW s, At(s)
    PROVE  status = "running" /\ todo # <<>> /\ todo[1] = s /\ Ordered(todo)
<1>1. todo \in Seq(ScriptNames) /\ todo # <<>> /\ Head(todo) = s
  BY DEF IInv, PlanOrdered, Ordered, At
<1>2. QED
  BY <1>1, TailOf DEF IInv, PlanOrdered, At

LEMMA InitIInv == ASSUME Init PROVE IInv
<1>1. layer \in BOOLEAN
  BY BoundsAssumption DEF Init
<1>2. Planned(todo)
  BY <1>1, PipelinePlanned DEF Init
<1>3. PlanOrdered
  <2>1. status = "running"
    BY DEF Init
  <2>2. QED
    BY <1>2, <2>1 DEF PlanOrdered, Ordered, Planned, LastAfterBackstop, Free
<1>4. ~Has(todo, "ensure_full_coverage")
  BY <1>2 DEF Planned, Has, Free
<1>5. todo # <<>> => todo[1] # "mapping_coverage_at_last"
  BY <1>2 DEF Planned, Free
<1>6. FlowTyped /\ TableThere
  BY <1>1, <1>4 DEF Init, FlowTyped, TableThere, Named
<1>7. ~Free(todo, CoverageGates) /\ status # "failed"
  BY <1>2 DEF Init, Planned
<1>8. QED
  BY <1>3, <1>5, <1>6, <1>7 DEF IInv, LastGateMet, BehindGates, OnlyFaultsFail

-----------------------------------------------------------------------------
(* Steps by kind.                                                          *)

\* A step at no gate: the table keeps its lines or covers every line, or is
\* written by a merge, and a backstop covers every line.
LEMMA Proceeds ==
    ASSUME IInv, status = "running", status' = "running", todo # <<>>,
           todo[1] \notin CoverageGates, Follows(todo', todo),
           recalcs' = recalcs, unchecked' = unchecked, faults' \in Nat, bill' = bill, layer' = layer,
           exists' \in BOOLEAN, exists => exists', exists' \/ table' = {}, Named(table'),
           todo[1] = "ensure_full_coverage" => Gaps' = {} \/ faults' > 0,
           \/ todo[1] = "merge_mappings"
           \/ SameLines(table', table)
           \/ Lines \subseteq LinesOf(table')
    PROVE  IInv'
<1>1. FlowTyped'
  BY DEF IInv, FlowTyped
<1>2. PlanOrdered'
  BY DEF IInv, PlanOrdered, Follows
<1>3. TableThere'
  BY DEF IInv, TableThere, Follows
<1>4. LastGateMet'
  BY DEF LastGateMet, Follows
<1>5. BehindGates'
  <2> SUFFICES ASSUME recalcs = 0, Free(todo', CoverageGates), ~unchecked
               PROVE  Lines \subseteq LinesOf(table')
    BY CoveredLines DEF BehindGates, Lines
  <2>1. Free(todo, CoverageGates)
    BY DEF Follows
  <2>2. Lines \subseteq LinesOf(table)
    BY <2>1, CoveredLines DEF IInv, BehindGates
  <2>3. todo[1] # "merge_mappings"
    <3>1. 1 \in 1 .. Len(todo)
      BY DEF IInv, PlanOrdered, Ordered
    <3>2. ASSUME todo[1] = "merge_mappings" PROVE FALSE
      <4>1. PICK j \in 1 + 1 .. Len(todo) : todo[j] \in CoverageGates
        BY <3>1, <3>2 DEF IInv, PlanOrdered, MergeGated
      <4>2. j \in 1 .. Len(todo)
        BY <4>1
      <4>3. QED
        BY <4>1, <4>2, <2>1 DEF Free
    <3>3. QED
      BY <3>2
  <2>4. CASE SameLines(table', table)
    BY <2>2, <2>4 DEF SameLines
  <2>5. QED
    BY <2>3, <2>4
<1>6. OnlyFaultsFail'
  BY DEF OnlyFaultsFail
<1>7. QED
  BY <1>1, <1>2, <1>3, <1>4, <1>5, <1>6 DEF IInv

\* A script of no interest to the plan, done.
LEMMA Ordinary ==
    ASSUME IInv, NEW s, At(s), Continue, s \notin Special, UNCHANGED inputVars,
           exists' \in BOOLEAN, exists => exists', SameLines(table', table)
    PROVE  IInv'
<1>1. status = "running" /\ todo # <<>> /\ todo[1] = s /\ Ordered(todo)
  BY AtFirst
<1>2. Follows(todo', todo)
  BY <1>1, TailFollows DEF Continue
<1>3. exists' \/ table' = {}
  BY SameLinesEmpty DEF IInv, TableThere
<1>4. QED
  BY <1>1, <1>2, <1>3, Proceeds DEF Continue, inputVars, Special, SameLines, IInv, FlowTyped

\* A script that fails without stopping the run, wherever it left the table.
LEMMA Skipped ==
    ASSUME IInv, status = "running", todo # <<>>, todo[1] \notin CoverageGates, Skip,
           UNCHANGED inputVars, exists' \in BOOLEAN, exists => exists', SameLines(table', table)
    PROVE  IInv'
<1>1. faults' \in Nat /\ faults' > 0
  BY DEF IInv, FlowTyped, Skip, Fault
<1>2. Follows(todo', todo)
  BY TailFollows DEF Skip, IInv, PlanOrdered
<1>3. exists' \/ table' = {}
  BY SameLinesEmpty DEF IInv, TableThere
<1>4. QED
  BY <1>1, <1>2, <1>3, Proceeds DEF Skip, inputVars, SameLines

\* The run ends without a report.
LEMMA Fails ==
    ASSUME IInv, Fail, faults' \in Nat, faults' > 0,
           UNCHANGED <<inputVars, exists, table>>
    PROVE  IInv'
BY EmptyPlan DEF Fail, IInv, FlowTyped, PlanOrdered, TableThere, LastGateMet, BehindGates,
                 OnlyFaultsFail, inputVars, Named

\* A coverage gate that is passed.
LEMMA GatePassed ==
    ASSUME IInv, NEW s, CoverageGate(s), s \in CoverageGates, Gaps = {}, Continue,
           UNCHANGED <<inputVars, exists, table>>
    PROVE  IInv'
<1>1. status = "running" /\ todo # <<>> /\ todo[1] = s /\ Ordered(todo)
  BY AtFirst DEF CoverageGate
<1>2. Follows(todo', todo)
  BY <1>1, TailFollows DEF Continue
<1>3. Lines \subseteq Covered
  BY DEF Gaps
<1>4. FlowTyped' /\ PlanOrdered' /\ TableThere'
  BY <1>2 DEF IInv, FlowTyped, PlanOrdered, TableThere, Follows, Continue, inputVars, Named
<1>5. LastGateMet'
  BY <1>1, <1>2 DEF LastGateMet, Follows, CoverageGates
<1>6. BehindGates'
  BY <1>3 DEF BehindGates, Lines, Covered, inputVars
<1>7. OnlyFaultsFail'
  BY <1>1 DEF OnlyFaultsFail, Continue
<1>8. QED
  BY <1>4, <1>5, <1>6, <1>7 DEF IInv

\* A gate that is not evaluated: one of phase 2 leaves the record of it behind.
LEMMA GateSkipped ==
    ASSUME IInv, GateNotEvaluated
    PROVE  IInv'
<1>1. PICK gate \in Gates : At(gate) /\ unchecked' = (unchecked \/ gate \in CoverageGates)
  BY DEF GateNotEvaluated
<1>2. status = "running" /\ todo # <<>> /\ todo[1] = gate /\ Ordered(todo)
  BY <1>1, AtFirst
<1>3. Follows(todo', todo)
  BY <1>2, TailFollows DEF GateNotEvaluated
<1>4. faults' \in Nat /\ UNCHANGED <<status, recalcs, inputVars, exists, table>>
  BY DEF GateNotEvaluated, Fault, tableVars, IInv, FlowTyped
<1>5. gate # "ensure_full_coverage" /\ gate # "merge_mappings"
  BY DEF Gates, CoverageGates
<1>6. CASE gate \in CoverageGates
  <2>1. unchecked'
    BY <1>1, <1>6 DEF IInv, FlowTyped
  <2>2. FlowTyped' /\ PlanOrdered' /\ TableThere'
    BY <1>2, <1>3, <1>4, <2>1
       DEF IInv, FlowTyped, PlanOrdered, TableThere, Follows, inputVars, Named
  <2>3. LastGateMet'
    BY <1>2, <1>3, <1>5 DEF LastGateMet, Follows
  <2>4. BehindGates' /\ OnlyFaultsFail'
    BY <1>2, <1>4, <2>1 DEF BehindGates, OnlyFaultsFail
  <2>5. QED
    BY <2>2, <2>3, <2>4 DEF IInv
<1>7. CASE gate \notin CoverageGates
  <2>1. unchecked' = unchecked
    BY <1>1, <1>7 DEF IInv, FlowTyped
  <2>2. SameLines(table', table)
    BY <1>4, SameLinesReflexive DEF IInv, FlowTyped
  <2>3. QED
    BY <1>2, <1>3, <1>4, <1>5, <1>7, <2>1, <2>2, Proceeds DEF inputVars, IInv, FlowTyped, TableThere
<1>8. QED
  BY <1>6, <1>7

\* A gate of the later phases: its agent may edit the rows of a line.
LEMMA SoftGates ==
    ASSUME IInv, NEW gate, NEW bad, NEW post \in Seq(ScriptNames), Free(post, Special),
           gate \notin Special, SoftGate(gate, bad, post)
    PROVE  IInv'
<1>1. At(gate) /\ UNCHANGED inputVars /\ exists' = exists
  BY DEF SoftGate
<1>2. status = "running" /\ todo # <<>> /\ todo[1] = gate /\ Ordered(todo)
  BY <1>1, AtFirst
<1>3. Named(table)
  BY DEF IInv, FlowTyped
<1>4. SameLines(table', table)
  <2>1. CASE table' = table
    BY <2>1, <1>3, SameLinesReflexive
  <2>2. CASE \E k \in bad, edit \in Answers :
                table' = {IF row.key = k THEN apply_override(row, edit) ELSE row : row \in table}
    <3>1. PICK k \in bad, edit \in Answers :
              table' = {IF row.key = k THEN apply_override(row, edit) ELSE row : row \in table}
      BY <2>2
    <3>2. QED
      BY <3>1, <1>3, EditLines
  <2>3. QED
    BY <2>1, <2>2 DEF SoftGate
<1>5. MergeGated(post) /\ Free(post, LaterAgents \cup {"mapping_coverage_at_last", "ensure_full_coverage"})
  BY DEF Free, Special, MergeGated, CoverageGates
<1>6. Follows(post \o Tail(todo), todo) /\ Follows(Tail(todo), todo)
  BY <1>2, <1>5, TailFollows, PrependFollows DEF Special
<1>7. (Continue \/ Then(post))
  BY DEF SoftGate
<1>8. Follows(todo', todo) /\ status' = "running" /\ UNCHANGED <<unchecked, faults, recalcs>>
  BY <1>2, <1>6, <1>7 DEF Continue, Then
<1>9. exists' \/ table' = {}
  BY <1>1, <1>4, SameLinesEmpty DEF IInv, TableThere
<1>10. QED
  BY <1>1, <1>2, <1>4, <1>8, <1>9, Proceeds DEF inputVars, Special, SameLines, IInv, FlowTyped

\* The API refuses an agent of phase 3 or 5.
LEMMA LaterAgentBlocked ==
    ASSUME IInv, NEW agent \in LaterAgents, NEW post \in Seq(ScriptNames), AgentBlocked(agent, post)
    PROVE  IInv'
<1>1. status = "running" /\ todo # <<>> /\ todo[1] = agent /\ Ordered(todo)
  BY AtFirst DEF AgentBlocked
<1>2. Len(post) + 3 \in Nat \ {0}
  OBVIOUS
<1>3. Follows(todo', todo)
  BY <1>1, <1>2, SuffixFollows DEF AgentBlocked
<1>4. agent \notin CoverageGates /\ agent # "ensure_full_coverage"
  BY DEF LaterAgents, CoverageGates
<1>5. faults' \in Nat /\ status' = status /\ UNCHANGED <<unchecked, recalcs, bill, layer>>
      /\ exists' = exists /\ table' = table
  BY DEF AgentBlocked, Fault, inputVars, tableVars, IInv, FlowTyped
<1>6. SameLines(table', table)
  BY <1>5, SameLinesReflexive DEF IInv, FlowTyped
<1>7. QED
  BY <1>1, <1>3, <1>4, <1>5, <1>6, Proceeds DEF IInv, FlowTyped, TableThere

\* A script or agent that touches neither the table nor the plan.
LEMMA Elsewhere ==
    ASSUME IInv, NEW s, At(s), Continue, s \notin Special, UNCHANGED <<inputVars, exists, table>>
    PROVE  IInv'
<1>1. SameLines(table', table)
  BY SameLinesReflexive DEF IInv, FlowTyped
<1>2. QED
  BY <1>1, Ordinary DEF IInv, FlowTyped

LEMMA Rewritten ==
    ASSUME IInv, NEW s, NEW rows, Rewrite(s, rows), s \notin Special, SameLines(rows, table)
    PROVE  IInv'
BY Ordinary DEF Rewrite, IInv, FlowTyped

LEMMA Repriced ==
    ASSUME IInv, NEW s, NEW priced, Reprice(s, priced), s \notin Special,
           SameLines(priced.table, table), exists' \in {exists, TRUE}
    PROVE  IInv'
BY Ordinary DEF Reprice, IInv, FlowTyped

-----------------------------------------------------------------------------
(* The merge, the gates of phase 2 and the backstop.                       *)

LEMMA MergeStep ==
    ASSUME IInv, MergeMappings \/ MergeMappingsRollsBack
    PROVE  IInv'
<1>1. status = "running" /\ todo # <<>> /\ todo[1] = "merge_mappings" /\ Ordered(todo)
  BY AtFirst DEF MergeMappings, MergeMappingsRollsBack
<1>2. Follows(Tail(todo), todo)
  BY <1>1, TailFollows
<1>3. /\ todo' = Tail(todo) /\ status' = "running" /\ faults' \in Nat /\ UNCHANGED <<unchecked, recalcs>>
      /\ bill' = bill /\ layer' = layer /\ exists' = TRUE
  BY <1>1 DEF MergeMappings, MergeMappingsRollsBack, Continue, Skip, Fault, inputVars, IInv, FlowTyped
<1>4. Named(merge_mappings(files, bill, group, skus))
  <2>1. \E rows : merge_mappings(files, bill, group, skus) = {Record(row) : row \in rows}
    BY DEF merge_mappings
  <2>2. PICK rows : merge_mappings(files, bill, group, skus) = {Record(row) : row \in rows}
    BY <2>1
  <2>3. ASSUME NEW row PROVE DOMAIN Record(row) = RowColumns
    BY DEF Record, RowColumns
  <2>4. QED
    BY <2>2, <2>3 DEF Named
<1>5. Named(table')
  BY <1>4 DEF MergeMappings, MergeMappingsRollsBack, IInv, FlowTyped
<1>6. todo[1] \notin CoverageGates /\ todo[1] # "ensure_full_coverage"
  BY <1>1 DEF CoverageGates
<1>7. QED
  BY <1>1, <1>2, <1>3, <1>5, <1>6, Proceeds

LEMMA RetryStep ==
    ASSUME IInv, RetryAgent
    PROVE  IInv'
<1> DEFINE gate == <<"mapping_coverage_after_retry">>
           p == PostMapping(layer) \o gate
<1>1. status = "running" /\ todo # <<>> /\ todo[1] = "mapping_coverage" /\ Ordered(todo)
  BY AtFirst DEF RetryAgent, CoverageGate
<1>2. gate \in Seq(ScriptNames) /\ Len(gate) = 1 /\ gate[1] = "mapping_coverage_after_retry"
  BY Tuples DEF ScriptNames
<1>3. /\ PostMapping(layer) \in Seq(ScriptNames)
      /\ Free(PostMapping(layer), CoverageGates \cup LaterAgents \cup {"ensure_full_coverage"})
  BY PostSteps DEF IInv, FlowTyped
<1> HIDE DEF gate
<1>4. /\ p \in Seq(ScriptNames) /\ Len(p) \in Nat /\ Len(p) = Len(PostMapping(layer)) + 1
      /\ Len(PostMapping(layer)) \in Nat
      /\ \A i \in 1 .. Len(PostMapping(layer)) : p[i] = PostMapping(layer)[i]
      /\ p[Len(p)] = "mapping_coverage_after_retry"
  <2>1. /\ p \in Seq(ScriptNames) /\ Len(p) = Len(PostMapping(layer)) + Len(gate)
        /\ Len(PostMapping(layer)) \in Nat
        /\ \A i \in 1 .. Len(PostMapping(layer)) : p[i] = PostMapping(layer)[i]
        /\ \A i \in 1 .. Len(gate) : p[Len(PostMapping(layer)) + i] = gate[i]
    BY <1>2, <1>3, ConcatOf
  <2> HIDE DEF p
  <2>2. Len(p) = Len(PostMapping(layer)) + 1 /\ p[Len(PostMapping(layer)) + 1] = gate[1]
    BY <2>1, <1>2
  <2>3. QED
    BY <2>1, <2>2, <1>2
<1> HIDE DEF p
<1>5. Free(p, LaterAgents \cup {"mapping_coverage_at_last", "ensure_full_coverage"})
  <2> SUFFICES ASSUME NEW i \in 1 .. Len(p)
               PROVE  p[i] \notin LaterAgents \cup {"mapping_coverage_at_last", "ensure_full_coverage"}
    BY DEF Free
  <2>1. CASE i \in 1 .. Len(PostMapping(layer))
    BY <2>1, <1>3, <1>4 DEF Free, CoverageGates
  <2>2. CASE i = Len(p)
    BY <2>2, <1>4 DEF LaterAgents
  <2>3. QED
    BY <2>1, <2>2, <1>4
<1>6. MergeGated(p)
  <2> SUFFICES ASSUME NEW i \in 1 .. Len(p), p[i] = "merge_mappings"
               PROVE  \E j \in i + 1 .. Len(p) : p[j] \in CoverageGates
    BY DEF MergeGated
  <2>1. Len(p) \in i + 1 .. Len(p)
    BY <1>4
  <2>2. QED
    BY <2>1, <1>4 DEF CoverageGates
<1>7. Follows(p \o Tail(todo), todo)
  BY <1>1, <1>4, <1>5, <1>6, PrependFollows
<1>8. /\ todo' = p \o Tail(todo) /\ UNCHANGED <<status, unchecked, faults, recalcs>>
      /\ UNCHANGED <<inputVars, exists>>
  BY DEF RetryAgent, Then, p, gate
<1>9. exists
  BY DEF RetryAgent, CoverageGate
<1>10. Named(table')
  <2>1. PICK drafts : table' = table \cup UNION {{Record(Keyed(k, d)) : d \in drafts[k]} : k \in Gaps}
    BY DEF RetryAgent
  <2>2. QED
    BY <2>1 DEF Record, RowColumns, Named, IInv, FlowTyped
<1>11. ~Free(todo', CoverageGates)
  <2>1. Tail(todo) \in Seq(ScriptNames)
    BY <1>1, TailOf DEF Ordered
  <2>2. Len(p) \in 1 .. Len(todo') /\ todo'[Len(p)] = "mapping_coverage_after_retry"
    BY <2>1, <1>4, <1>8, ConcatOf
  <2>3. QED
    BY <2>2 DEF Free, CoverageGates
<1>12. FlowTyped' /\ TableThere'
  BY <1>7, <1>8, <1>9, <1>10 DEF IInv, FlowTyped, TableThere, inputVars
<1>13. PlanOrdered'
  BY <1>1, <1>7, <1>8 DEF IInv, PlanOrdered, Follows
<1>14. LastGateMet'
  BY <1>1, <1>7, <1>8 DEF LastGateMet, Follows
<1>15. QED
  BY <1>1, <1>8, <1>11, <1>12, <1>13, <1>14 DEF IInv, BehindGates, OnlyFaultsFail

LEMMA AfterRetryStep ==
    ASSUME IInv, CoverageAfterRetry
    PROVE  IInv'
<1> DEFINE p == <<"ensure_full_coverage", "mapping_coverage_at_last">>
<1>0. /\ At("mapping_coverage_after_retry") /\ CoverageGate("mapping_coverage_after_retry")
      /\ UNCHANGED <<inputVars, exists, table>>
  BY DEF CoverageAfterRetry, CoverageGate, tableVars
<1>1. status = "running" /\ todo # <<>> /\ todo[1] = "mapping_coverage_after_retry" /\ Ordered(todo)
  BY <1>0, AtFirst
<1>2. CASE Gaps = {}
  BY <1>0, <1>2, GatePassed DEF CoverageAfterRetry, CoverageGates
<1>3. CASE Gaps # {}
  <2>1. /\ todo' = p \o Tail(todo) /\ UNCHANGED <<status, unchecked, faults, recalcs>>
    BY <1>3 DEF CoverageAfterRetry, Then
  <2>2. p \in Seq(ScriptNames) /\ Len(p) = 2 /\ p[1] = "ensure_full_coverage" /\ p[2] = "mapping_coverage_at_last"
    BY Tuples DEF ScriptNames
  <2> HIDE DEF p
  <2>3. Follows(Tail(todo), todo)
    BY <1>1, TailFollows
  <2>4. PICK u : /\ u \in Seq(ScriptNames) /\ Len(u) \in Nat /\ Follows(u, todo)
                 /\ todo' = p \o u /\ \A i \in 1 .. Len(u) : u[i] # "mapping_coverage_at_last"
    <3>1. Tail(todo) \in Seq(ScriptNames) /\ Len(Tail(todo)) \in Nat
      BY <2>3, TailOf DEF Follows, Ordered
    <3>2. ASSUME NEW i \in 1 .. Len(Tail(todo)) PROVE Tail(todo)[i] # "mapping_coverage_at_last"
      <4>1. /\ todo \in Seq(ScriptNames) /\ i + 1 \in 1 .. Len(todo) /\ Tail(todo)[i] = todo[i + 1]
            /\ i + 1 # 1
        BY <1>1, TailOf DEF Ordered
      <4>2. QED
        BY <4>1, <1>1 DEF Ordered, LastAfterBackstop
    <3>3. QED
      BY <2>1, <2>3, <3>1, <3>2
  <2>5. /\ todo' \in Seq(ScriptNames) /\ Len(todo') = 2 + Len(u) /\ Len(todo') \in Nat
        /\ todo'[1] = "ensure_full_coverage" /\ todo'[2] = "mapping_coverage_at_last"
        /\ \A i \in 3 .. Len(todo') : todo'[i] = u[i - 2] /\ i - 2 \in 1 .. Len(u)
    <3>1. /\ todo' \in Seq(ScriptNames) /\ Len(todo') = 2 + Len(u)
          /\ \A i \in 1 .. Len(p) : todo'[i] = p[i]
          /\ \A i \in Len(p) + 1 .. Len(p) + Len(u) : todo'[i] = u[i - Len(p)]
      <4>1. /\ p \o u \in Seq(ScriptNames) /\ Len(p \o u) = Len(p) + Len(u)
            /\ \A i \in 1 .. Len(p) : (p \o u)[i] = p[i]
            /\ \A i \in Len(p) + 1 .. Len(p) + Len(u) : (p \o u)[i] = u[i - Len(p)]
        BY <2>2, <2>4, ConcatOf
      <4>2. todo' = p \o u
        BY <2>4
      <4>3. QED
        BY <4>1, <4>2, <2>2, Zenon
    <3>2. QED
      BY <3>1, <2>2, <2>4
  <2>6. AgentsAfterGates(todo')
    <3> SUFFICES ASSUME NEW i \in 1 .. Len(todo'), NEW j \in 1 .. Len(todo'),
                        todo'[i] \in LaterAgents, todo'[j] \in CoverageGates
                 PROVE  j < i
      BY DEF AgentsAfterGates
    <3>1. i \in 3 .. Len(todo') /\ todo'[i] = u[i - 2] /\ i - 2 \in 1 .. Len(u)
      BY <2>5 DEF LaterAgents
    <3>2. CASE j \in 3 .. Len(todo')
      <4>1. todo'[j] = u[j - 2] /\ j - 2 \in 1 .. Len(u)
        BY <3>2, <2>5
      <4>2. j - 2 < i - 2
        BY <3>1, <4>1, <2>4 DEF Follows, Ordered, AgentsAfterGates
      <4>3. QED
        BY <4>2
    <3>3. CASE j \notin 3 .. Len(todo')
      BY <3>1, <3>3
    <3>4. QED
      BY <3>2, <3>3
  <2>7. LastAfterBackstop(todo')
    BY <2>4, <2>5 DEF LastAfterBackstop
  <2>8. recalcs = 0 => MergeGated(todo')
    <3> SUFFICES ASSUME recalcs = 0, NEW i \in 1 .. Len(todo'), todo'[i] = "merge_mappings"
                 PROVE  \E j \in i + 1 .. Len(todo') : todo'[j] \in CoverageGates
      BY DEF MergeGated
    <3>1. i \in 3 .. Len(todo') /\ u[i - 2] = "merge_mappings" /\ i - 2 \in 1 .. Len(u)
      BY <2>5
    <3>2. MergeGated(u)
      BY <2>4 DEF Follows, IInv, PlanOrdered
    <3>3. PICK j \in i - 2 + 1 .. Len(u) : u[j] \in CoverageGates
      BY <3>1, <3>2 DEF MergeGated
    <3>4. j + 2 \in i + 1 .. Len(todo') /\ todo'[j + 2] = u[j]
      BY <3>1, <3>3, <2>4, <2>5
    <3>5. QED
      BY <3>3, <3>4
  <2>9. exists /\ exists' = exists
    BY <1>0 DEF CoverageGate
  <2>10. ~Free(todo', CoverageGates)
    BY <2>4, <2>5 DEF Free, CoverageGates
  <2>11. FlowTyped' /\ PlanOrdered' /\ TableThere'
    BY <1>0, <2>1, <2>5, <2>6, <2>7, <2>8, <2>9
       DEF IInv, FlowTyped, PlanOrdered, TableThere, Ordered, Named, inputVars
  <2>12. LastGateMet' /\ BehindGates' /\ OnlyFaultsFail'
    BY <1>1, <2>1, <2>5, <2>10 DEF LastGateMet, BehindGates, OnlyFaultsFail
  <2>13. QED
    BY <2>11, <2>12 DEF IInv
<1>4. QED
  BY <1>2, <1>3

LEMMA BackstopStep ==
    ASSUME IInv, EnsureFullCoverage
    PROVE  IInv'
<1>1. status = "running" /\ todo # <<>> /\ todo[1] = "ensure_full_coverage" /\ Ordered(todo)
  BY AtFirst DEF EnsureFullCoverage, Rewrite
<1>2. Follows(todo', todo)
  BY <1>1, TailFollows DEF EnsureFullCoverage, Rewrite, Continue
<1>3. exists /\ UNCHANGED <<inputVars, exists, status, unchecked, faults, recalcs>>
  <2>1. Has(todo, "ensure_full_coverage")
    <3>1. 1 \in 1 .. Len(todo)
      BY <1>1 DEF Ordered
    <3>2. QED
      BY <1>1, <3>1 DEF Has
  <2>2. QED
    BY <2>1 DEF IInv, TableThere, EnsureFullCoverage, Rewrite, Continue
<1>4. table' = table \cup {Backstop(k) : k \in Lines \ Covered}
  BY DEF EnsureFullCoverage, Rewrite
<1>5. ASSUME NEW k PROVE DOMAIN Backstop(k) = RowColumns /\ Backstop(k).key = k
  BY DEF Backstop, Record, IgnoreRow, RowColumns
<1>6. Named(table')
  BY <1>4, <1>5 DEF Named, IInv, FlowTyped
<1>7. Lines \subseteq LinesOf(table')
  <2> SUFFICES ASSUME NEW k \in Lines PROVE k \in LinesOf(table')
    OBVIOUS
  <2>1. CASE k \in Covered
    BY <2>1, <1>4 DEF Covered, LinesOf
  <2>2. CASE k \notin Covered
    <3>1. Backstop(k) \in table'
      BY <2>2, <1>4
    <3>2. QED
      BY <3>1, <1>5 DEF LinesOf
  <2>3. QED
    BY <2>1, <2>2
<1>8. Gaps' = {}
  BY <1>3, <1>7, CoveredLines DEF Gaps, Lines, inputVars
<1>9. QED
  BY <1>1, <1>2, <1>3, <1>6, <1>7, <1>8, Proceeds DEF inputVars, IInv, FlowTyped, CoverageGates

-----------------------------------------------------------------------------
(* Every step keeps the invariant.                                         *)

LEMMA LaterAgentDone ==
    ASSUME IInv, NEW agent \in LaterAgents, At(agent), Continue, UNCHANGED <<inputVars, exists, table>>
    PROVE  IInv'
<1>1. status = "running" /\ todo # <<>> /\ todo[1] = agent /\ Ordered(todo)
  BY AtFirst
<1>2. Follows(todo', todo)
  BY <1>1, TailFollows DEF Continue
<1>3. SameLines(table', table)
  BY SameLinesReflexive DEF IInv, FlowTyped
<1>4. agent \notin CoverageGates /\ agent # "ensure_full_coverage"
  BY DEF LaterAgents, CoverageGates
<1>5. QED
  BY <1>1, <1>2, <1>3, <1>4, Proceeds DEF Continue, inputVars, IInv, FlowTyped, TableThere

LEMMA SkippedAt ==
    ASSUME IInv, NEW s, At(s), s \notin CoverageGates, Skip, UNCHANGED <<inputVars, exists, table>>
    PROVE  IInv'
<1>1. status = "running" /\ todo # <<>> /\ todo[1] = s
  BY AtFirst
<1>2. SameLines(table', table)
  BY SameLinesReflexive DEF IInv, FlowTyped
<1>3. QED
  BY <1>1, <1>2, Skipped DEF IInv, FlowTyped

LEMMA RunKeeps == ASSUME IInv, RunScript PROVE IInv'
<1>1. CASE ScriptFails
  <2>1. status = "running" /\ todo # <<>> /\ Head(todo) \in Scripts /\ UNCHANGED <<inputVars, exists, table>>
    BY <1>1 DEF ScriptFails, tableVars
  <2>2. At(Head(todo))
    BY <2>1 DEF At
  <2>3. todo[1] = Head(todo)
    BY <2>2, AtFirst
  <2>4. todo[1] \notin CoverageGates
    BY <2>1, <2>3 DEF Scripts, Gates, CoverageGates
  <2>5. CASE Fault /\ Fail
    BY <2>1, <2>5, Fails DEF Fault, IInv, FlowTyped
  <2>6. CASE Skip
    <3>1. SameLines(table', table)
      BY <2>1, SameLinesReflexive DEF IInv, FlowTyped
    <3>2. QED
      BY <2>1, <2>4, <2>6, <3>1, Skipped DEF IInv, FlowTyped
  <2>7. QED
    BY <2>5, <2>6, <1>1 DEF ScriptFails
<1>2. CASE Classify
  <2>1. At("classify_mechanics") /\ Continue /\ UNCHANGED <<inputVars, exists, table>>
    BY <1>2 DEF Classify, tableVars
  <2>2. QED
    BY <2>1, Elsewhere DEF Special, CoverageGates, LaterAgents
<1>3. CASE ApplyCommitmentIgnores
  <2>1. At("apply_commitment_ignores") /\ Continue /\ UNCHANGED <<inputVars, exists, table>>
    BY <1>3 DEF ApplyCommitmentIgnores, tableVars
  <2>2. QED
    BY <2>1, Elsewhere DEF Special, CoverageGates, LaterAgents
<1>4. CASE MappingAgent
  <2>1. At("mapping_agent") /\ Continue /\ UNCHANGED <<inputVars, exists, table>>
    BY <1>4 DEF MappingAgent, tableVars
  <2>2. QED
    BY <2>1, Elsewhere DEF Special, CoverageGates, LaterAgents
<1>5. CASE AutoReview
  <2>1. At("auto_review") /\ Continue /\ UNCHANGED <<inputVars, exists, table>>
    BY <1>5 DEF AutoReview, tableVars
  <2>2. QED
    BY <2>1, Elsewhere DEF Special, CoverageGates, LaterAgents
<1>6. CASE DetectOutliers
  <2>1. At("detect_outliers") /\ Continue /\ UNCHANGED <<inputVars, exists, table>>
    BY <1>6 DEF DetectOutliers, tableVars
  <2>2. QED
    BY <2>1, Elsewhere DEF Special, CoverageGates, LaterAgents
<1>7. CASE AutoTriage
  <2>1. At("auto_triage") /\ Continue /\ UNCHANGED <<inputVars, exists, table>>
    BY <1>7 DEF AutoTriage, tableVars
  <2>2. QED
    BY <2>1, Elsewhere DEF Special, CoverageGates, LaterAgents
<1>8. CASE DirectivesFromLegacy
  <2>1. At("directives_from_legacy") /\ Continue /\ UNCHANGED <<inputVars, exists, table>>
    BY <1>8 DEF DirectivesFromLegacy, tableVars
  <2>2. QED
    BY <2>1, Elsewhere DEF Special, CoverageGates, LaterAgents
<1>9. CASE ApplyStaticMappings
  <2>1. /\ At("apply_static_mappings") /\ UNCHANGED <<inputVars, exists, table>>
        /\ Continue \/ Skip
    BY <1>9 DEF ApplyStaticMappings, tableVars
  <2>2. status = "running" /\ todo # <<>> /\ todo[1] = "apply_static_mappings"
    BY <2>1, AtFirst
  <2>3. SameLines(table', table)
    BY <2>1, SameLinesReflexive DEF IInv, FlowTyped
  <2>4. CASE Continue
    BY <2>1, <2>4, Elsewhere DEF Special, CoverageGates, LaterAgents
  <2>5. CASE Skip
    BY <2>1, <2>2, <2>3, <2>5, Skipped DEF IInv, FlowTyped, CoverageGates
  <2>6. QED
    BY <2>1, <2>4, <2>5
<1>10. CASE MappingAgentBlocked
  BY <1>10, Fails DEF MappingAgentBlocked, tableVars, Fault, IInv, FlowTyped
<1>11. CASE RetryAgentBlocked
  BY <1>11, Fails DEF RetryAgentBlocked, tableVars, Fault, IInv, FlowTyped
<1>12. CASE MergeMappings \/ MergeMappingsRollsBack
  BY <1>12, MergeStep
<1>13. CASE ServiceClassifier
  BY <1>13, Rewritten, ServiceClassifierLines DEF ServiceClassifier, IInv, FlowTyped, Special, CoverageGates, LaterAgents
<1>14. CASE FixStorageMisroute
  BY <1>14, Rewritten, FixStorageMisrouteLines DEF FixStorageMisroute, IInv, FlowTyped, Special, CoverageGates, LaterAgents
<1>15. CASE ReconcileCapacity
  BY <1>15, Rewritten, ReconcileCapacityLines DEF ReconcileCapacity, IInv, FlowTyped, Special, CoverageGates, LaterAgents
<1>16. CASE ApplyReviewFixes
  BY <1>16, Rewritten, ApplyReviewFixesLines DEF ApplyReviewFixes, IInv, FlowTyped, Special, CoverageGates, LaterAgents
<1>17. CASE OutlierGate
  BY <1>17, Rewritten, OutlierGateLines DEF OutlierGate, IInv, FlowTyped, Special, CoverageGates, LaterAgents
<1>18. CASE ApplyDirectives
  <2>1. At("apply_directives") /\ Continue /\ UNCHANGED <<inputVars, exists>>
    BY <1>18 DEF ApplyDirectives
  <2>2. SameLines(table', table)
    BY <1>18, ApplyDirectivesLines DEF ApplyDirectives, IInv, FlowTyped
  <2>3. QED
    BY <2>1, <2>2, Ordinary DEF Special, CoverageGates, LaterAgents, IInv, FlowTyped
<1>19. CASE CoveragePasses
  BY <1>19, GatePassed DEF CoveragePasses, tableVars, CoverageGates
<1>20. CASE RetryAgent
  BY <1>20, RetryStep
<1>21. CASE CoverageAfterRetry
  BY <1>21, AfterRetryStep
<1>22. CASE EnsureFullCoverage
  BY <1>22, BackstopStep
<1>23. CASE CoverageAtLast
  <2>1. /\ At("mapping_coverage_at_last") /\ CoverageGate("mapping_coverage_at_last")
        /\ UNCHANGED <<inputVars, exists, table>>
    BY <1>23 DEF CoverageAtLast, CoverageGate, tableVars
  <2>2. todo # <<>> /\ todo[1] = "mapping_coverage_at_last"
    BY <2>1, AtFirst
  <2>3. CASE Gaps = {}
    BY <1>23, <2>1, <2>3, GatePassed DEF CoverageAtLast, CoverageGates
  <2>4. CASE Gaps # {}
    <3>1. Fail /\ faults' = faults
      BY <1>23, <2>4 DEF CoverageAtLast
    <3>2. faults > 0
      BY <2>2, <2>4 DEF IInv, LastGateMet
    <3>3. QED
      BY <2>1, <3>1, <3>2, Fails DEF IInv, FlowTyped
  <2>5. QED
    BY <2>3, <2>4
<1>24. CASE ReviewAgent
  <2>1. At("review_agent") /\ Continue /\ UNCHANGED <<inputVars, exists, table>>
    BY <1>24 DEF ReviewAgent, tableVars
  <2>2. QED
    BY <2>1, LaterAgentDone DEF LaterAgents
<1>25. CASE TriageAgent
  <2>1. At("triage_agent") /\ Continue /\ UNCHANGED <<inputVars, exists, table>>
    BY <1>25 DEF TriageAgent, tableVars
  <2>2. QED
    BY <2>1, LaterAgentDone DEF LaterAgents
<1>26. CASE ReviewAgentBlocked
  BY <1>26, LaterAgentBlocked, PostSteps DEF ReviewAgentBlocked, LaterAgents, IInv, FlowTyped
<1>27. CASE TriageAgentBlocked
  BY <1>27, LaterAgentBlocked, PostSteps DEF TriageAgentBlocked, LaterAgents, IInv, FlowTyped
<1>28. CASE NoIllegalPassthroughs
  BY <1>28, SoftGates, PostSteps DEF NoIllegalPassthroughs, Special, CoverageGates, LaterAgents, IInv, FlowTyped
<1>29. CASE NoNullProjectedCost
  <2>1. PICK bad : SoftGate("no_null_projected_cost", bad, PostRates)
    BY <1>29 DEF NoNullProjectedCost
  <2>2. QED
    BY <2>1, SoftGates, PostSteps DEF Special, CoverageGates, LaterAgents, IInv, FlowTyped
<1>30. CASE OverAndUnderProjection
  BY <1>30, SoftGates, PostSteps DEF OverAndUnderProjection, Special, CoverageGates, LaterAgents, IInv, FlowTyped
<1>31. CASE NoIllegalPassthroughsBlocked
  <2>1. At("no_illegal_passthroughs") /\ Skip /\ UNCHANGED <<inputVars, exists, table>>
    BY <1>31 DEF NoIllegalPassthroughsBlocked, SoftGateBlocked, tableVars
  <2>2. QED
    BY <2>1, SkippedAt DEF CoverageGates
<1>32. CASE NoNullProjectedCostBlocked
  <2>1. At("no_null_projected_cost") /\ Skip /\ UNCHANGED <<inputVars, exists, table>>
    BY <1>32 DEF NoNullProjectedCostBlocked, SoftGateBlocked, tableVars
  <2>2. QED
    BY <2>1, SkippedAt DEF CoverageGates
<1>33. CASE OverAndUnderProjectionBlocked
  <2>1. At("over_and_under_projection") /\ Skip /\ UNCHANGED <<inputVars, exists, table>>
    BY <1>33 DEF OverAndUnderProjectionBlocked, SoftGateBlocked, tableVars
  <2>2. QED
    BY <2>1, SkippedAt DEF CoverageGates
<1>34. CASE ApplyRates
  BY <1>34, Repriced, ApplyRatesLines DEF ApplyRates, IInv, FlowTyped, Special, CoverageGates, LaterAgents
<1>35. CASE IncrementalRerate
  BY <1>35, Repriced, IncrementalRerateLines DEF IncrementalRerate, IInv, FlowTyped, Special, CoverageGates, LaterAgents
<1>36. CASE ValidateFix
  BY <1>36, Repriced, ValidateFixLines DEF ValidateFix, IInv, FlowTyped, Special, CoverageGates, LaterAgents
<1>37. CASE ApplyOutlierFixes
  BY <1>37, Repriced, ApplyOutlierFixesLines DEF ApplyOutlierFixes, IInv, FlowTyped, Special, CoverageGates, LaterAgents
<1>38. CASE ValidateFixDies
  <2>1. At("validate_fix") /\ Skip /\ UNCHANGED <<inputVars, exists>>
    BY <1>38 DEF ValidateFixDies
  <2>2. status = "running" /\ todo # <<>> /\ todo[1] = "validate_fix"
    BY <2>1, AtFirst
  <2>3. SameLines(table', table)
    BY <1>38, FirstRepairsLines DEF ValidateFixDies, IInv, FlowTyped
  <2>4. QED
    BY <2>1, <2>2, <2>3, Skipped DEF IInv, FlowTyped, CoverageGates
<1>39. CASE Finish
  BY <1>39 DEF Finish, IInv, FlowTyped, PlanOrdered, TableThere, LastGateMet, BehindGates,
               OnlyFaultsFail, Gaps, Lines, Covered, inputVars, tableVars
<1>40. CASE GateNotEvaluated
  BY <1>40, GateSkipped
<1>41. QED
  BY <1>1, <1>2, <1>3, <1>4, <1>5, <1>6, <1>7, <1>8, <1>9, <1>10, <1>11, <1>12, <1>13, <1>14, <1>15, <1>16, <1>17, <1>18, <1>19, <1>20, <1>21, <1>22, <1>23, <1>24, <1>25, <1>26, <1>27, <1>28, <1>29, <1>30, <1>31, <1>32, <1>33, <1>34, <1>35, <1>36, <1>37, <1>38, <1>39, <1>40
     DEF RunScript

LEMMA RecalculationKeeps ==
    ASSUME IInv, NEW changed, RecalculateWith(changed)
    PROVE  IInv'
<1> DEFINE Known == CoverageGates \cup LaterAgents \cup {"ensure_full_coverage"}
           r == <<"classify_mechanics", "apply_commitment_ignores", "apply_static_mappings",
                  "merge_mappings", "service_classifier", "apply_rates">>
<1>1. r \in Seq(ScriptNames) /\ ByDirectives \in Seq(ScriptNames)
  BY Tuples DEF ScriptNames, ByDirectives
<1>2. Free(r, Known) /\ Free(ByDirectives, Known)
  BY DEF ByDirectives, Free, CoverageGates, LaterAgents
<1>3. RecalculateScripts = r \o ByDirectives
  BY DEF RecalculateScripts
<1> HIDE DEF r, Known
<1>4. r \o ByDirectives \in Seq(ScriptNames) /\ Free(r \o ByDirectives, Known)
  BY <1>1, <1>2, FreeConcat
<1>5. todo' = r \o ByDirectives
  BY <1>3 DEF RecalculateWith
<1>6. todo' \in Seq(ScriptNames) /\ Free(todo', Known)
  BY <1>4, <1>5, Zenon
<1>7. /\ recalcs' \in Nat /\ recalcs' > 0 /\ status' = "running" /\ faults' = faults
      /\ UNCHANGED <<inputVars, tableVars, unchecked>>
  BY DEF RecalculateWith, IInv, FlowTyped
<1>8. PlanOrdered'
  BY <1>6, <1>7 DEF PlanOrdered, Ordered, AgentsAfterGates, LastAfterBackstop, Free, Known, CoverageGates
<1>9. ~Has(todo', "ensure_full_coverage")
  BY <1>6 DEF Has, Free, Known
<1>10. todo' # <<>> => todo'[1] # "mapping_coverage_at_last"
  <2> SUFFICES ASSUME todo' # <<>> PROVE todo'[1] # "mapping_coverage_at_last"
    OBVIOUS
  <2>1. 1 \in 1 .. Len(todo')
    BY <1>6
  <2>2. QED
    BY <2>1, <1>6 DEF Free, Known, CoverageGates
<1>11. QED
  BY <1>7, <1>8, <1>9, <1>10 DEF IInv, FlowTyped, TableThere, LastGateMet, BehindGates,
                                 OnlyFaultsFail, inputVars, tableVars, Named

LEMMA StepKeeps == IInv /\ [Next]_vars => IInv'
<1> SUFFICES ASSUME IInv, [Next]_vars PROVE IInv'
  OBVIOUS
<1>1. CASE RunScript
  BY <1>1, RunKeeps
<1>2. ASSUME UNCHANGED <<inputVars, flowVars, tableVars>> PROVE IInv'
  BY <1>2 DEF IInv, FlowTyped, PlanOrdered, TableThere, LastGateMet, BehindGates, OnlyFaultsFail,
              Gaps, Lines, Covered, inputVars, flowVars, tableVars
<1>3. CASE PromoteFinding
  BY <1>2, <1>3 DEF PromoteFinding
<1>4. CASE OverrideLineItem
  BY <1>4, RecalculationKeeps DEF OverrideLineItem
<1>5. CASE DeleteLineItemOverride
  BY <1>5, RecalculationKeeps DEF DeleteLineItemOverride
<1>6. CASE Stopped \/ UNCHANGED vars
  BY <1>2, <1>6 DEF Stopped, vars
<1>7. QED
  BY <1>1, <1>3, <1>4, <1>5, <1>6 DEF Next

-----------------------------------------------------------------------------
(* The theorems.                                                           *)

\* A run of run_all.py, or a recalculation after it, fails for a script or an
\* agent that failed and for nothing else: the gate that ends a run is reached
\* only through the backstop, which leaves it nothing to find.
THEOREM FailuresAreFaults == Spec => []OnlyFaultsFail
<1>1. Spec => []IInv
  BY InitIInv, StepKeeps, PTL DEF Spec
<1>2. IInv => OnlyFaultsFail
  BY DEF IInv
<1>3. QED
  BY <1>1, <1>2, PTL

\* No gap in a report is silent, whatever the agents leave out and whichever
\* scripts and gates fail on the way: it has a row for every line of the bill, or
\* the run has recorded that the gate which counts them was not evaluated.
THEOREM ReportsCoverTheBill == Spec => []EveryLineCovered
<1>1. Spec => []IInv
  BY InitIInv, StepKeeps, PTL DEF Spec
<1>2. IInv => EveryLineCovered
  <2> SUFFICES ASSUME IInv, Report, ~unchecked PROVE Lines \subseteq Covered
    BY DEF EveryLineCovered
  <2>1. todo = <<>>
    BY DEF IInv, PlanOrdered, Report
  <2>2. Free(todo, CoverageGates)
    BY <2>1 DEF Free
  <2>3. QED
    BY <2>2 DEF IInv, BehindGates, Report
<1>3. QED
  BY <1>1, <1>2, PTL
=============================================================================
