------------------------- MODULE ProjectionDataProofs -------------------------
(***************************************************************************)
(* Proofs about the data that the scripts of a projection share, for any   *)
(* bill, catalogue and answers, any number of failing scripts and of       *)
(* recalculations: the files, the table, the ledger and the overrides      *)
(* speak of lines of the bill only, and the bounds of the model hold.      *)
(***************************************************************************)
EXTENDS ProjectionProofs, FiniteSetTheorems, WellFoundedInduction

-----------------------------------------------------------------------------
(* Numbers and sequences.                                                  *)

LEMMA Least ==
    ASSUME NEW S, S \subseteq Nat, S # {}
    PROVE  \E n \in S : \A m \in S : n <= m
<1>1. \E n \in S : \A m \in S : <<m, n>> \notin OpToRel(<, Nat)
  BY NatLessThanWellFounded, WFMin
<1>2. PICK n \in S : \A m \in S : <<m, n>> \notin OpToRel(<, Nat)
  BY <1>1
<1>3. ASSUME NEW m \in S PROVE n <= m
  <2>1. ~(m < n)
    BY <1>2 DEF OpToRel
  <2>2. QED
    BY <2>1
<1>4. QED
  BY <1>3

LEMMA MinOf ==
    ASSUME NEW S, S \subseteq Nat, S # {}
    PROVE  Min(S) \in S /\ \A m \in S : Min(S) <= m
<1>1. \E x \in S : \A y \in S : x <= y
  BY Least
<1>2. QED
  BY <1>1 DEF Min

LEMMA MaxOf ==
    ASSUME NEW n \in Nat, NEW S, S \subseteq 0 .. n, S # {}
    PROVE  Max(S) \in S /\ \A m \in S : m <= Max(S)
<1> DEFINE T == {n - m : m \in S}
<1>1. T \subseteq Nat /\ T # {}
  <2>1. \A m \in S : n - m \in Nat
    OBVIOUS
  <2>2. QED
    BY <2>1
<1>2. PICK t \in T : \A u \in T : t <= u
  BY <1>1, Least
<1>3. PICK m \in S : t = n - m
  OBVIOUS
<1>4. ASSUME NEW q \in S PROVE m >= q
  <2>1. n - q \in T /\ q \in Int /\ m \in Int
    OBVIOUS
  <2>2. t <= n - q
    BY <1>2, <2>1
  <2>3. QED
    BY <1>3, <2>1, <2>2
<1>5. \E x \in S : \A y \in S : x >= y
  BY <1>4
<1>6. Max(S) \in S /\ \A y \in S : Max(S) >= y
  BY <1>5 DEF Max
<1>7. QED
  BY <1>6

\* SetToSeq enumerates a finite set.
LEMMA SetToSeqOf ==
    ASSUME NEW S, IsFiniteSet(S)
    PROVE  /\ SetToSeq(S) \in [1 .. Cardinality(S) -> S] /\ SetToSeq(S) \in Seq(S)
           /\ Cardinality(S) \in Nat
<1>1. Cardinality(S) \in Nat /\ ExistsBijection(1 .. Cardinality(S), S)
  BY FS_CardinalityType
<1>2. \E f \in [1 .. Cardinality(S) -> S] : IsInjective(f)
  BY <1>1 DEF ExistsBijection, Bijection, Injection
<1>3. SetToSeq(S) \in [1 .. Cardinality(S) -> S]
  BY <1>2 DEF SetToSeq
<1>4. QED
  BY <1>1, <1>3

\* A function defined by recursion on 0 .. n is there: consider the least n for
\* which it is not.
LEMMA PrefixesExist ==
    ASSUME NEW len \in Nat, NEW Kept
    PROVE  \E h : h = [i \in 0 .. len |-> IF i = 0 THEN <<>> ELSE h[i - 1] \o Kept[i]]
<1> DEFINE Good(f, n) == f = [i \in 0 .. n |-> IF i = 0 THEN <<>> ELSE f[i - 1] \o Kept[i]]
           Bad == {n \in 0 .. len : ~\E f : Good(f, n)}
<1>1. ASSUME NEW n \in 0 .. len, n - 1 \in 0 .. len, NEW f, Good(f, n - 1)
      PROVE  \E g : Good(g, n)
  <2> DEFINE g == [i \in 0 .. n |-> IF i < n THEN f[i] ELSE f[n - 1] \o Kept[n]]
  <2>1. /\ \A i \in 0 .. n : i < n => g[i] = f[i]
        /\ g[n] = f[n - 1] \o Kept[n]
        /\ g = [i \in 0 .. n |-> g[i]]
    <3>1. n \in 0 .. n /\ ~(n < n)
      OBVIOUS
    <3>2. g[n] = f[n - 1] \o Kept[n]
      BY <3>1
    <3>3. QED
      BY <3>2
  <2>2. /\ f[0] = <<>> /\ n > 0
        /\ \A i \in 0 .. n - 1 : i # 0 => f[i] = f[i - 1] \o Kept[i]
    BY <1>1
  <2> HIDE DEF g
  <2>3. ASSUME NEW i \in 0 .. n, i # 0 PROVE g[i] = g[i - 1] \o Kept[i]
    <3>1. g[i - 1] = f[i - 1]
      BY <2>1, <2>3
    <3>2. CASE i < n
      <4>1. i \in 0 .. n - 1 /\ g[i] = f[i]
        BY <2>1, <3>2
      <4>2. QED
        BY <2>2, <2>3, <3>1, <4>1
    <3>3. CASE i = n
      <4>1. g[n] = f[n - 1] \o Kept[n] /\ g[n - 1] = f[n - 1]
        BY <2>1, <3>1, <3>3
      <4>2. g[n] = g[n - 1] \o Kept[n]
        BY <4>1, Zenon
      <4>3. QED
        BY <3>3, <4>2, Zenon
    <3>4. i < n \/ i = n
      OBVIOUS
    <3>5. QED
      BY <3>2, <3>3, <3>4
  <2>4. g[0] = <<>>
    BY <2>1, <2>2
  <2>5. Good(g, n)
    BY <2>1, <2>3, <2>4
  <2>6. QED
    BY <2>5
<1>2. Good([i \in 0 .. 0 |-> <<>>], 0)
  OBVIOUS
<1>3. \A n \in 0 .. len : n \in Bad <=> ~\E f : Good(f, n)
  OBVIOUS
<1>4. Bad \subseteq Nat /\ Bad \subseteq 0 .. len
  <2> HIDE DEF Good
  <2>1. QED
    OBVIOUS
<1> HIDE DEF Good, Bad
<1>5. ASSUME NEW n \in Bad, \A m \in Bad : n <= m PROVE FALSE
  <2>1. n \in 0 .. len /\ 0 \in 0 .. len /\ n # 0
    BY <1>2, <1>3, <1>4
  <2>2. n - 1 \in 0 .. len /\ ~(n <= n - 1)
    BY <2>1
  <2>3. n - 1 \notin Bad
    BY <1>5, <2>2
  <2>4. PICK f : Good(f, n - 1)
    BY <1>3, <2>2, <2>3
  <2>5. \E g : Good(g, n)
    BY <1>1, <2>1, <2>2, <2>4
  <2>6. QED
    BY <1>3, <2>1, <2>5
<1>6. Bad = {}
  BY <1>4, <1>5, Least
<1>7. \E h : Good(h, len)
  BY <1>3, <1>6
<1>8. QED
  BY <1>7 DEF Good

\* What is left of a sequence of members of S is one of members of S.
LEMMA WithoutOf ==
    ASSUME NEW S, NEW s \in Seq(S), NEW gone
    PROVE  Without(s, gone) \in Seq(S)
<1> DEFINE kept == [i \in 1 .. Len(s) |-> IF s[i] \in gone THEN <<>> ELSE <<s[i]>>]
           upTo == CHOOSE h : h = [i \in 0 .. Len(s) |->
                                      IF i = 0 THEN <<>> ELSE h[i - 1] \o kept[i]]
           Bad == {n \in 0 .. Len(s) : upTo[n] \notin Seq(S)}
<1>1. Len(s) \in Nat /\ DOMAIN s = 1 .. Len(s)
  OBVIOUS
<1>2. Without(s, gone) = upTo[Len(s)]
  BY <1>1 DEF Without
<1>3. \A n \in 1 .. Len(s) : kept[n] \in Seq(S)
  OBVIOUS
<1> HIDE DEF kept
<1>4. upTo = [i \in 0 .. Len(s) |-> IF i = 0 THEN <<>> ELSE upTo[i - 1] \o kept[i]]
  BY <1>1, PrefixesExist
<1> HIDE DEF upTo
<1>5. upTo[0] = <<>> /\ \A n \in 1 .. Len(s) : upTo[n] = upTo[n - 1] \o kept[n]
  BY <1>1, <1>4
<1>6. Bad \subseteq Nat
  OBVIOUS
<1>7. \A n \in 0 .. Len(s) : n \in Bad <=> upTo[n] \notin Seq(S)
  OBVIOUS
<1>8. \A n \in Bad : n \in 0 .. Len(s)
  OBVIOUS
<1> HIDE DEF Bad
<1>9. ASSUME NEW n \in Bad, \A m \in Bad : n <= m PROVE FALSE
  <2>1. n # 0 /\ n \in 0 .. Len(s)
    <3>1. upTo[0] \in Seq(S) /\ 0 \in 0 .. Len(s)
      BY <1>1, <1>5
    <3>2. QED
      BY <1>7, <1>8, <3>1
  <2>2. n \in 1 .. Len(s) /\ n - 1 \in 0 .. Len(s) /\ ~(n <= n - 1)
    BY <1>1, <2>1
  <2>3. upTo[n - 1] \in Seq(S)
    <3>1. n - 1 \notin Bad
      BY <1>9, <2>2
    <3>2. QED
      BY <1>7, <2>2, <3>1
  <2>4. upTo[n] \in Seq(S)
    <3>1. kept[n] \in Seq(S) /\ upTo[n] = upTo[n - 1] \o kept[n]
      BY <1>3, <1>5, <2>2
    <3>2. \A t, u \in Seq(S) : t \o u \in Seq(S)
      OBVIOUS
    <3>3. QED
      BY <2>3, <3>1, <3>2, Zenon
  <2>5. QED
    BY <1>7, <2>1, <2>4
<1>10. Bad = {}
  BY <1>6, <1>9, Least
<1>11. QED
  BY <1>1, <1>2, <1>7, <1>10

-----------------------------------------------------------------------------
(* The mapping files and the merge.                                        *)

FilesNamed(rows) == \A row \in rows : DOMAIN row = MappingColumns

LEMMA DowngradeKeeps ==
    ASSUME NEW row, DOMAIN row = MappingColumns
    PROVE  Keeps(Downgrade(row), row)
BY DEF Downgrade, CapConf, Keeps, MappingColumns

LEMMA MergeRowKeeps ==
    ASSUME NEW row, DOMAIN row = MappingColumns, NEW catalog, NEW region, NEW g
    PROVE  Keeps(merge_row(row, catalog, region, g), row)
<1> DEFINE checked == IF Mapped(row) /\ ~row.svcOk THEN Downgrade(row) ELSE row
           capped  == IF catalog = {} /\ Mapped(checked) /\ checked.sku # None
                      THEN CapConf(checked, 50) ELSE checked
           found   == resolve_intent_to_sku(catalog, capped.name, region, g, capped.comp)
           looked  == IF found = None THEN Downgrade(capped) ELSE [capped EXCEPT !.sku = found]
           kept    == IF catalog # {} /\ capped.sku \notin valid_skus(catalog) \cup Synthetic
                      THEN Downgrade(capped) ELSE capped
<1>1. Keeps(checked, row)
  BY DowngradeKeeps DEF Keeps
<1>2. Keeps(capped, row)
  <2> HIDE DEF checked
  <2>1. Keeps(CapConf(checked, 50), checked)
    BY <1>1 DEF CapConf, Keeps, MappingColumns
  <2>2. QED
    BY <1>1, <2>1 DEF Keeps
<1>3. merge_row(row, catalog, region, g) \in {capped, looked, kept}
  BY DEF merge_row
<1> HIDE DEF checked, capped, found
<1>4. Keeps(Downgrade(capped), capped)
  BY <1>2, DowngradeKeeps DEF Keeps
<1>5. Keeps([capped EXCEPT !.sku = found], capped)
  BY <1>2 DEF Keeps, MappingColumns
<1>6. QED
  BY <1>2, <1>3, <1>4, <1>5 DEF Keeps

\* The merge writes rows for lines of the bill only.
LEMMA MergeLines ==
    ASSUME NEW given, DOMAIN given = Files, \A f \in Files : FilesNamed(given[f]),
           NEW lines, NEW groups, NEW catalog
    PROVE  LinesOf(merge_mappings(given, lines, groups, catalog)) \subseteq DOMAIN lines
<1> DEFINE Clean(rows) == {merge_row(clean_row(row), catalog, lines[row.key].region, groups[row.key]) :
                              row \in {q \in rows : valid_row(q, DOMAIN lines)}}
           clean == [f \in Files |-> Clean(given[f])]
           Good(row) == DOMAIN row = MappingColumns /\ row.key \in DOMAIN lines
<1>1. ASSUME NEW f \in Files, NEW r \in clean[f] PROVE Good(r)
  <2>1. PICK row \in given[f] :
            /\ valid_row(row, DOMAIN lines)
            /\ r = merge_row(clean_row(row), catalog, lines[row.key].region, groups[row.key])
    BY <1>1
  <2>2. DOMAIN row = MappingColumns
    BY DEF FilesNamed
  <2>3. Keeps(clean_row(row), row)
    BY <2>2 DEF clean_row, Keeps, MappingColumns
  <2>4. Keeps(r, clean_row(row))
    BY <2>1, <2>2, <2>3, MergeRowKeeps DEF Keeps
  <2>5. QED
    BY <2>1, <2>2, <2>3, <2>4 DEF Keeps, valid_row
<1>2. merge_mappings(given, lines, groups, catalog) = {Record(row) : row \in collapse(dedup(clean))}
  BY DEF merge_mappings
<1> HIDE DEF clean
<1>3. \A row \in dedup(clean) : Good(row)
  BY <1>1 DEF dedup, Files
<1> DEFINE rows == dedup(clean)
<1> HIDE DEF rows
<1>4. ASSUME NEW row \in rows PROVE row.key \in DOMAIN lines /\ DOMAIN row = MappingColumns
  BY <1>3 DEF rows
<1>5. ASSUME NEW q \in collapse(rows) PROVE q.key \in DOMAIN lines
  <2> DEFINE Of(k) == {row \in rows : row.key = k}
  <2>1. PICK row \in rows :
            q \in {row, [(CHOOSE first \in Of(row.key) : TRUE)
                             EXCEPT !.comp = None, !.mult = 1, !.bd = FALSE]}
    BY DEF collapse
  <2>2. (CHOOSE first \in Of(row.key) : TRUE) \in Of(row.key)
    OBVIOUS
  <2>3. PICK chosen \in rows :
            chosen.key = row.key /\ chosen = (CHOOSE first \in Of(row.key) : TRUE)
    BY <2>2
  <2>4. [chosen EXCEPT !.comp = None, !.mult = 1, !.bd = FALSE].key = chosen.key
    BY <1>4 DEF MappingColumns
  <2>5. QED
    BY <1>4, <2>1, <2>3, <2>4
<1>6. QED
  BY <1>2, <1>5 DEF LinesOf, Record, rows

-----------------------------------------------------------------------------
(* The ledger.                                                             *)

Sources == {"commitment", "negative", "review", "outlier", "override", "manual"}
Fields  == {"strategy", "override_rate"}
Values  == ALLOWED_STRATEGIES \cup {"rate"}

\* Directives about these lines.  Those about the strategy of a line leave it out,
\* unless an agent has answered about it.
DirectivesOf(lines, told) ==
    {d \in [source : Sources, key : lines, field : Fields, value : Values] :
        d.field = "strategy" /\ d.key \notin told => d.value = "ignore"}

LEMMA EnlistOf ==
    ASSUME NEW lines, IsFiniteSet(lines), NEW told, NEW values, DOMAIN values \subseteq lines,
           \A k \in DOMAIN values : values[k] \in Values,
           NEW source \in Sources, NEW field \in Fields,
           \A k \in DOMAIN values : field = "strategy" /\ k \notin told => values[k] = "ignore"
    PROVE  Enlist(source, field, values) \in Seq(DirectivesOf(lines, told))
<1> DEFINE keys == SetToSeq(DOMAIN values)
           n == Cardinality(DOMAIN values)
<1>1. IsFiniteSet(DOMAIN values)
  BY FS_Subset
<1>2. keys \in [1 .. n -> DOMAIN values] /\ n \in Nat
  BY <1>1, SetToSeqOf
<1> HIDE DEF keys, n
<1>3. Enlist(source, field, values)
          = [i \in 1 .. n |-> [source |-> source, key |-> keys[i], field |-> field,
                               value |-> values[keys[i]]]]
  BY <1>2 DEF Enlist, keys
<1>4. ASSUME NEW i \in 1 .. n
      PROVE  [source |-> source, key |-> keys[i], field |-> field, value |-> values[keys[i]]]
                 \in DirectivesOf(lines, told)
  BY <1>2 DEF DirectivesOf
<1>5. Enlist(source, field, values) \in [1 .. n -> DirectivesOf(lines, told)]
  BY <1>3, <1>4
<1>6. QED
  BY <1>2, <1>5

LEMMA SeqConcat == \A S : \A s, t \in Seq(S) : s \o t \in Seq(S)
OBVIOUS

LEMMA SeqConcats ==
    ASSUME NEW S, NEW a \in Seq(S), NEW b \in Seq(S), NEW c \in Seq(S), NEW d \in Seq(S),
           NEW e \in Seq(S)
    PROVE  a \o b \o c \o d \o e \in Seq(S)
<1>1. a \o b \in Seq(S)
  BY SeqConcat
<1>2. (a \o b) \o c \in Seq(S)
  BY <1>1, SeqConcat
<1>3. ((a \o b) \o c) \o d \in Seq(S)
  BY <1>2, SeqConcat
<1>4. QED
  BY <1>3, SeqConcat

LEMMA OverriddenOf ==
    ASSUME NEW lines, IsFiniteSet(lines), NEW told, NEW given, DOMAIN given \subseteq lines,
           NEW source \in Sources
    PROVE  Overridden(source, given) \in Seq(DirectivesOf(lines, told))
<1> DEFINE Kept(kind) == [k \in {q \in DOMAIN given : given[q] = kind} |-> kind]
<1>1. Enlist(source, "strategy", Kept("ignore")) \in Seq(DirectivesOf(lines, told))
  BY EnlistOf DEF Fields, Values, ALLOWED_STRATEGIES
<1>2. Enlist(source, "override_rate", Kept("rate")) \in Seq(DirectivesOf(lines, told))
  BY EnlistOf DEF Fields, Values
<1>3. QED
  BY <1>1, <1>2, SeqConcat, Zenon DEF Overridden

LEMMA LegacyOf ==
    ASSUME NEW lines, IsFiniteSet(lines), NEW groups, DOMAIN groups \subseteq lines,
           NEW told, NEW reviewed, DOMAIN reviewed \subseteq lines \cap told,
           NEW triaged, DOMAIN triaged \subseteq lines \cap told,
           NEW given, DOMAIN given \subseteq lines
    PROVE  convert_legacy_to_directives(groups, reviewed, triaged, given) \in Seq(DirectivesOf(lines, told))
<1> DEFINE Ignored(g)     == [k \in {q \in DOMAIN groups : groups[q] = g} |-> "ignore"]
           Decided(fixes) == [k \in {q \in DOMAIN fixes : Strategic(fixes[q])} |-> fixes[k].strategy]
<1>1. \A g : /\ DOMAIN Ignored(g) \subseteq lines
             /\ \A k \in DOMAIN Ignored(g) : Ignored(g)[k] = "ignore" /\ Ignored(g)[k] \in Values
  BY DEF Values, ALLOWED_STRATEGIES
<1>2. ASSUME NEW fixes, DOMAIN fixes \subseteq lines \cap told
      PROVE  /\ DOMAIN Decided(fixes) \subseteq lines \cap told
             /\ \A k \in DOMAIN Decided(fixes) : Decided(fixes)[k] \in Values
  BY <1>2 DEF Values, Strategic
<1>3. /\ DOMAIN Decided(reviewed) \subseteq lines \cap told
      /\ DOMAIN Decided(triaged) \subseteq lines \cap told
      /\ \A k \in DOMAIN Decided(reviewed) : Decided(reviewed)[k] \in Values
      /\ \A k \in DOMAIN Decided(triaged) : Decided(triaged)[k] \in Values
  BY <1>2
<1>4. /\ "commitment" \in Sources /\ "negative" \in Sources /\ "review" \in Sources
      /\ "outlier" \in Sources /\ "override" \in Sources /\ "strategy" \in Fields
  BY DEF Sources, Fields
<1>5. convert_legacy_to_directives(groups, reviewed, triaged, given) =
          Enlist("commitment", "strategy", Ignored("commitment_discount"))
          \o Enlist("negative", "strategy", Ignored("negative_cost"))
          \o Enlist("review", "strategy", Decided(reviewed))
          \o Enlist("outlier", "strategy", Decided(triaged))
          \o Overridden("override", given)
  BY DEF convert_legacy_to_directives
<1> HIDE DEF Ignored, Decided
<1>6. /\ Enlist("commitment", "strategy", Ignored("commitment_discount")) \in Seq(DirectivesOf(lines, told))
      /\ Enlist("negative", "strategy", Ignored("negative_cost")) \in Seq(DirectivesOf(lines, told))
  BY <1>1, <1>4, EnlistOf
<1>7. /\ Enlist("review", "strategy", Decided(reviewed)) \in Seq(DirectivesOf(lines, told))
      /\ Enlist("outlier", "strategy", Decided(triaged)) \in Seq(DirectivesOf(lines, told))
  BY <1>3, <1>4, EnlistOf
<1>8. Overridden("override", given) \in Seq(DirectivesOf(lines, told))
  BY <1>4, OverriddenOf
<1> DEFINE D == DirectivesOf(lines, told)
           c == Enlist("commitment", "strategy", Ignored("commitment_discount"))
           n == Enlist("negative", "strategy", Ignored("negative_cost"))
           r == Enlist("review", "strategy", Decided(reviewed))
           t == Enlist("outlier", "strategy", Decided(triaged))
           o == Overridden("override", given)
<1>9. c \in Seq(D) /\ n \in Seq(D) /\ r \in Seq(D) /\ t \in Seq(D) /\ o \in Seq(D)
  BY <1>6, <1>7, <1>8
<1>10. convert_legacy_to_directives(groups, reviewed, triaged, given) = c \o n \o r \o t \o o
  BY <1>5
<1> HIDE DEF D, c, n, r, t, o
<1>11. c \o n \o r \o t \o o \in Seq(D)
  BY <1>9, SeqConcats
<1>12. QED
  BY <1>10, <1>11 DEF D

LEMMA FromLegacyOf ==
    ASSUME NEW lines, NEW told, NEW s \in Seq(DirectivesOf(lines, told)), NEW legacy \in Seq(DirectivesOf(lines, told))
    PROVE  directives_from_legacy(s, legacy) \in Seq(DirectivesOf(lines, told))
BY WithoutOf, SeqConcat, Zenon DEF directives_from_legacy

LEMMA SyncedOf ==
    ASSUME NEW lines, IsFiniteSet(lines), NEW told, NEW s \in Seq(DirectivesOf(lines, told)),
           NEW given, DOMAIN given \subseteq lines
    PROVE  syncDirectivesFromOverrides(s, given) \in Seq(DirectivesOf(lines, told))
<1>1. Overridden("manual", given) \in Seq(DirectivesOf(lines, told))
  BY OverriddenOf DEF Sources
<1>2. QED
  BY <1>1, WithoutOf, SeqConcat, Zenon DEF syncDirectivesFromOverrides

-----------------------------------------------------------------------------
(* The invariant.                                                          *)

\* Bill, groups, manifest and files, and what the refresh store trusts.
PlanTyped ==
    /\ bill \in Bills /\ DOMAIN group = Lines /\ manifest \in [LLM_GROUPS -> SUBSET Lines]
    /\ DOMAIN files = Files /\ \A f \in Files : FilesNamed(files[f])
    /\ \A c \in DOMAIN trusted : DOMAIN trusted[c] = MappingColumns

RowsTyped == Covered \subseteq Lines /\ added \subseteq Lines

\* What is decided about the lines, and where it is kept.
FixColumns == {"flagged", "candidates", "fixes"}

DecisionsTyped ==
    /\ DOMAIN review = FixColumns /\ DOMAIN review.fixes \subseteq Lines
    /\ DOMAIN triage = FixColumns /\ DOMAIN triage.fixes \subseteq Lines
    /\ DOMAIN overrides \subseteq Lines
    /\ ledger \in Seq(DirectivesOf(Lines, Lines))

Counted ==
    /\ status \in {"running", "done", "failed"}
    /\ faults \in 0 .. MaxFaults /\ answers \in 0 .. MaxExtras /\ recalcs \in 0 .. MaxExtras

DataTyped == PlanTyped /\ RowsTyped /\ DecisionsTyped /\ Counted

LEMMA LinesFinite == ASSUME bill \in Bills PROVE IsFiniteSet(Lines)
<1>1. PICK n \in Nat : Lines = 1 .. n
  BY BillsAssumption DEF Lines
<1>2. QED
  BY <1>1, FS_Interval

\* Which steps of a run change what.
LEMMA ChangedBy ==
    ASSUME RunScript
    PROVE  /\ UNCHANGED <<inputVars, trusted, overrides, recalcs>>
           /\ \/ Classify \/ ApplyCommitmentIgnores \/ ApplyStaticMappings \/ MappingAgent
              \/ UNCHANGED planVars
           /\ RetryAgent \/ UNCHANGED added
           /\ DirectivesFromLegacy \/ ApplyDirectives \/ UNCHANGED ledger
           /\ AutoReview \/ ReviewAgent \/ UNCHANGED review
           /\ DetectOutliers \/ AutoTriage \/ TriageAgent \/ UNCHANGED triage
           /\ \/ ReviewAgent \/ TriageAgent
              \/ NoIllegalPassthroughs \/ NoNullProjectedCost \/ OverAndUnderProjection
              \/ UNCHANGED answers
           /\ Fault \/ UNCHANGED faults
           /\ status' \in {status, "done", "failed"}
BY DEF RunScript, ScriptFails, Classify, ApplyCommitmentIgnores, ApplyStaticMappings, MappingAgent,
       MappingAgentBlocked, MergeMappings, MergeMappingsRollsBack, ServiceClassifier,
       FixStorageMisroute, ReconcileCapacity, DirectivesFromLegacy, ApplyDirectives, GateNotEvaluated,
       CoveragePasses, RetryAgent, RetryAgentBlocked, CoverageAfterRetry, EnsureFullCoverage, CoverageAtLast,
       AutoReview, ReviewAgent, ReviewAgentBlocked, ApplyReviewFixes, NoIllegalPassthroughs,
       NoIllegalPassthroughsBlocked, ApplyRates, ValidateFix, ValidateFixDies, NoNullProjectedCost,
       NoNullProjectedCostBlocked, DetectOutliers, AutoTriage, IncrementalRerate, TriageAgent,
       TriageAgentBlocked, ApplyOutlierFixes, OutlierGate, OverAndUnderProjection,
       OverAndUnderProjectionBlocked, Finish, Rewrite, Reprice, SoftGate, SoftGateBlocked,
       AgentBlocked, Continue, Then, Skip, Fail, planVars, storeVars, tableVars, fixVars

\* The other steps change neither bill nor groups, and no row.
LEMMA ChangedElsewhere ==
    ASSUME [Next]_vars, ~RunScript
    PROVE  /\ UNCHANGED <<inputVars, planVars, tableVars, fixVars, rates, faults>>
           /\ UNCHANGED <<overrides, ledger, flowVars>> \/ \E changed : RecalculateWith(changed)
           /\ UNCHANGED trusted \/ PromoteFinding
BY DEF Next, PromoteFinding, OverrideLineItem, DeleteLineItemOverride, RecalculateWith, Stopped,
       vars, flowVars, storeVars

LEMMA InitData == ASSUME Init PROVE DataTyped
<1>1. PlanTyped /\ RowsTyped
  BY DEF Init, PlanTyped, RowsTyped, Lines, Covered, FilesNamed, NoRates
<1>2. DecisionsTyped
  <2>1. DOMAIN NoFiles = FixColumns /\ DOMAIN NoFiles.fixes = {}
    BY DEF NoFiles, FixColumns
  <2>2. ledger = <<>> /\ <<>> \in Seq(DirectivesOf(Lines, Lines))
    BY Tuples DEF Init
  <2>3. QED
    BY <2>1, <2>2 DEF Init, DecisionsTyped, NoRates
<1>3. Counted
  BY BoundsAssumption DEF Init, Counted
<1>4. QED
  BY <1>1, <1>2, <1>3 DEF DataTyped

-----------------------------------------------------------------------------
(* Every step keeps it.                                                    *)

LEMMA KeyedNamed ==
    ASSUME NEW k, NEW draft, DOMAIN draft = MappingColumns
    PROVE  DOMAIN Keyed(k, draft) = MappingColumns /\ Keyed(k, draft).key = k
BY DEF Keyed, MappingColumns

LEMMA IgnoreRowNamed == ASSUME NEW k PROVE DOMAIN IgnoreRow(k) = MappingColumns
BY DEF IgnoreRow, MappingColumns

\* A handler maps lines of its group only, and leaves lines of it to the LLM.
LEMMA HandlerLines ==
    ASSUME NEW g, NEW h, h = run_handler(bill, group, g, Cats)
    PROVE  FilesNamed(h.rows) /\ h.llm \subseteq Lines
<1> DEFINE rows == Batch(bill, group, g)
           entries == BatchEntries(g, rows, Cats)
<1>1. h = HandlerResult(rows, g, entries)
  BY DEF run_handler
<1>2. DOMAIN rows \subseteq Lines
  BY DEF Batch, Lines
<1> HIDE DEF rows, entries
<1>3. /\ h.rows = UNION {{MappingRow(i, rows[i], g, e) : e \in entries[i]} : i \in DOMAIN rows}
      /\ h.llm = {i \in DOMAIN rows : entries[i] = Llm}
  BY <1>1 DEF HandlerResult
<1>4. ASSUME NEW i, NEW r, NEW e PROVE DOMAIN MappingRow(i, r, g, e) = MappingColumns
  BY DEF MappingRow, MappingColumns
<1>5. QED
  BY <1>2, <1>3, <1>4 DEF FilesNamed

LEMMA ClassifyPlan == ASSUME PlanTyped, Classify PROVE PlanTyped'
<1>1. PICK groups : DOMAIN groups = Lines /\ Grouped(groups, TrustedLines(groups))
  BY DEF Classify
<1> DEFINE known == TrustedLines(groups)
<1>2. known \subseteq Lines /\ \A k \in known : bill[k].canonical \in DOMAIN trusted
  BY DEF TrustedLines
<1> HIDE DEF known
<1>3. /\ group' = groups
      /\ manifest' = [g \in LLM_GROUPS |->
                         {k \in Lines : groups[k] = g} \ (IF g = "misc" THEN known ELSE {})]
      /\ files' = IF known = {} THEN files
                  ELSE [files EXCEPT !["refresh"] =
                           {Keyed(k, trusted[bill[k].canonical]) : k \in known}]
  BY <1>1 DEF Grouped, known
<1>4. bill' = bill /\ trusted' = trusted
  BY DEF Classify, inputVars, storeVars
<1>5. FilesNamed({Keyed(k, trusted[bill[k].canonical]) : k \in known})
  BY <1>2, KeyedNamed DEF PlanTyped, FilesNamed
<1>6. manifest' \in [LLM_GROUPS -> SUBSET Lines]
  BY <1>3
<1>7. DOMAIN files' = Files /\ \A f \in Files : FilesNamed(files'[f])
  BY <1>3, <1>5 DEF PlanTyped
<1>8. QED
  BY <1>1, <1>3, <1>4, <1>6, <1>7 DEF PlanTyped, Lines, FilesNamed

LEMMA IgnoresPlan == ASSUME PlanTyped, ApplyCommitmentIgnores PROVE PlanTyped'
<1>1. files' = [g \in Files |->
                   IF g \in {"commitment_discount", "negative_cost"}
                   THEN {IgnoreRow(k) : k \in {q \in Lines : group[q] = g}} ELSE files[g]]
  BY DEF ApplyCommitmentIgnores
<1>2. UNCHANGED <<bill, group, manifest, trusted>>
  BY DEF ApplyCommitmentIgnores, inputVars, storeVars
<1>3. \A g : FilesNamed({IgnoreRow(k) : k \in {q \in Lines : group[q] = g}})
  BY IgnoreRowNamed DEF FilesNamed
<1>4. DOMAIN files' = Files /\ \A f \in Files : FilesNamed(files'[f])
  BY <1>1, <1>3 DEF PlanTyped
<1>5. QED
  BY <1>2, <1>4 DEF PlanTyped, Lines, FilesNamed

LEMMA StaticPlan == ASSUME PlanTyped, ApplyStaticMappings PROVE PlanTyped'
<1>1. UNCHANGED <<bill, group, trusted>>
  BY DEF ApplyStaticMappings, inputVars, storeVars
<1>2. PICK groups : files' = StaticFiles(Handled, groups) /\ groups \subseteq DOMAIN Handled
  BY DEF ApplyStaticMappings
<1>3. ASSUME NEW g \in DOMAIN Handled
      PROVE  FilesNamed(Handled[g].rows) /\ Handled[g].llm \subseteq Lines
  BY HandlerLines DEF Handled
<1>4. DOMAIN files' = Files /\ \A f \in Files : FilesNamed(files'[f])
  BY <1>2, <1>3 DEF StaticFiles, PlanTyped
<1>5. manifest' \in {manifest, Pruned(Handled)}
  BY DEF ApplyStaticMappings
<1>6. Pruned(Handled) \in [LLM_GROUPS -> SUBSET Lines]
  <2>1. UNION {Handled[h].llm : h \in DOMAIN Handled} \subseteq Lines
    BY <1>3
  <2>2. manifest["misc"] \subseteq Lines
    BY DEF PlanTyped, LLM_GROUPS
  <2>3. QED
    BY <2>1, <2>2 DEF Pruned
<1>7. QED
  BY <1>1, <1>4, <1>5, <1>6 DEF PlanTyped, Lines, FilesNamed

LEMMA AgentPlan == ASSUME PlanTyped, MappingAgent PROVE PlanTyped'
<1>1. UNCHANGED <<bill, group, manifest, trusted>>
  BY DEF MappingAgent, inputVars, storeVars
<1>2. PICK drafts \in [UNION {manifest[g] : g \in LLM_GROUPS} -> Drafts] :
        \E cleared : files' = [g \in Files |->
            CASE g \in LLM_GROUPS /\ manifest[g] # {} ->
                     UNION {{Keyed(k, d) : d \in drafts[k]} : k \in manifest[g]}
              [] g \in cleared -> {}
              [] OTHER -> files[g]]
  BY DEF MappingAgent
<1>3. ASSUME NEW g \in LLM_GROUPS
      PROVE  FilesNamed(UNION {{Keyed(k, d) : d \in drafts[k]} : k \in manifest[g]})
  <2>1. \A k \in manifest[g] : \A d \in drafts[k] : DOMAIN d = MappingColumns
    BY DraftsAssumption
  <2>2. QED
    BY <2>1, KeyedNamed DEF FilesNamed
<1>4. FilesNamed({})
  BY DEF FilesNamed
<1>5. DOMAIN files' = Files /\ \A f \in Files : FilesNamed(files'[f])
  BY <1>2, <1>3, <1>4 DEF PlanTyped
<1>6. QED
  BY <1>1, <1>5 DEF PlanTyped, Lines, FilesNamed

LEMMA PlanStep == ASSUME PlanTyped, [Next]_vars PROVE PlanTyped'
<1>1. ASSUME UNCHANGED <<bill, planVars, trusted>> PROVE PlanTyped'
  BY <1>1 DEF PlanTyped, planVars, Lines, FilesNamed
<1>2. CASE RunScript
  <2>1. UNCHANGED <<bill, trusted>>
    BY <1>2, ChangedBy DEF inputVars
  <2>2. QED
    BY <1>1, <1>2, <2>1, ChangedBy, ClassifyPlan, IgnoresPlan, StaticPlan, AgentPlan
<1>3. CASE ~RunScript
  <2>1. UNCHANGED <<bill, planVars>>
    BY <1>3, ChangedElsewhere DEF inputVars
  <2>2. CASE UNCHANGED trusted
    BY <1>1, <2>1, <2>2
  <2>3. CASE PromoteFinding
    <3>1. PICK k \in Lines :
              trusted' = [c \in DOMAIN trusted \cup {bill[k].canonical} |->
                             IF c \in DOMAIN trusted THEN trusted[c] ELSE TrustedTarget]
      BY <2>3 DEF PromoteFinding
    <3>2. DOMAIN TrustedTarget = MappingColumns
      BY DraftsAssumption
    <3>3. \A c \in DOMAIN trusted' : DOMAIN trusted'[c] = MappingColumns
      BY <3>1, <3>2 DEF PlanTyped
    <3>4. QED
      BY <2>1, <3>3 DEF PlanTyped, planVars, Lines, FilesNamed
  <2>4. QED
    BY <1>3, <2>2, <2>3, ChangedElsewhere
<1>4. QED
  BY <1>2, <1>3

\* The steps that may add a line to the table.
LEMMA LinesKept ==
    ASSUME IInv, RunScript, ~MergeMappings, ~RetryAgent, ~EnsureFullCoverage
    PROVE  SameLines(table', table)
<1>0. Named(table)
  BY DEF IInv, FlowTyped
<1>1. ASSUME table' = table PROVE SameLines(table', table)
  BY <1>0, <1>1, SameLinesReflexive
<1>2. ASSUME NEW gate, NEW bad, NEW post, SoftGate(gate, bad, post)
      PROVE  SameLines(table', table)
  <2>1. CASE table' = table
    BY <1>1, <2>1
  <2>2. CASE \E k \in bad, edit \in Answers :
                table' = {IF row.key = k THEN apply_override(row, edit) ELSE row : row \in table}
    BY <1>0, <2>2, EditLines
  <2>3. QED
    BY <1>2, <2>1, <2>2 DEF SoftGate
<1>3. CASE \/ ScriptFails \/ Classify \/ ApplyCommitmentIgnores \/ ApplyStaticMappings
           \/ MappingAgent \/ MappingAgentBlocked \/ MergeMappingsRollsBack \/ DirectivesFromLegacy
           \/ GateNotEvaluated \/ CoveragePasses \/ RetryAgentBlocked \/ CoverageAfterRetry
           \/ CoverageAtLast
           \/ AutoReview \/ ReviewAgent \/ ReviewAgentBlocked \/ NoIllegalPassthroughsBlocked
           \/ NoNullProjectedCostBlocked \/ DetectOutliers \/ AutoTriage \/ TriageAgent
           \/ TriageAgentBlocked \/ OverAndUnderProjectionBlocked \/ Finish
  <2>1. table' = table
    BY <1>3 DEF ScriptFails, Classify, ApplyCommitmentIgnores, ApplyStaticMappings, MappingAgent,
                MappingAgentBlocked, MergeMappingsRollsBack, DirectivesFromLegacy, GateNotEvaluated,
                CoveragePasses, RetryAgentBlocked, CoverageAfterRetry, CoverageAtLast, AutoReview, ReviewAgent,
                ReviewAgentBlocked, NoIllegalPassthroughsBlocked, NoNullProjectedCostBlocked,
                DetectOutliers, AutoTriage, TriageAgent, TriageAgentBlocked,
                OverAndUnderProjectionBlocked, Finish, SoftGateBlocked, AgentBlocked, tableVars
  <2>2. QED
    BY <1>1, <2>1
<1>4. CASE NoIllegalPassthroughs \/ NoNullProjectedCost \/ OverAndUnderProjection
  BY <1>2, <1>4 DEF NoIllegalPassthroughs, NoNullProjectedCost, OverAndUnderProjection
<1>5. CASE ServiceClassifier \/ FixStorageMisroute \/ ReconcileCapacity
  BY <1>0, <1>5, ServiceClassifierLines, FixStorageMisrouteLines, ReconcileCapacityLines
     DEF ServiceClassifier, FixStorageMisroute, ReconcileCapacity, Rewrite
<1>6. CASE ApplyReviewFixes \/ OutlierGate
  BY <1>0, <1>6, ApplyReviewFixesLines, OutlierGateLines DEF ApplyReviewFixes, OutlierGate, Rewrite
<1>7. CASE ApplyDirectives
  BY <1>0, <1>7, ApplyDirectivesLines DEF ApplyDirectives
<1>8. CASE ApplyRates \/ IncrementalRerate
  BY <1>0, <1>8, ApplyRatesLines, IncrementalRerateLines DEF ApplyRates, IncrementalRerate, Reprice
<1>9. CASE ValidateFix \/ ValidateFixDies
  BY <1>0, <1>9, ValidateFixLines, FirstRepairsLines DEF ValidateFix, ValidateFixDies, Reprice
<1>10. CASE ApplyOutlierFixes
  BY <1>0, <1>10, ApplyOutlierFixesLines DEF ApplyOutlierFixes, Reprice
<1>11. QED
  BY <1>3, <1>4, <1>5, <1>6, <1>7, <1>8, <1>9, <1>10 DEF RunScript

LEMMA RowsStep == ASSUME IInv, PlanTyped, RowsTyped, [Next]_vars PROVE RowsTyped'
<1>0. Lines' = Lines
  BY ChangedBy, ChangedElsewhere DEF Lines, inputVars
<1>1. ASSUME added' = added, LinesOf(table') \subseteq Lines PROVE RowsTyped'
  BY <1>0, <1>1, CoveredLines DEF RowsTyped
<1>2. CASE ~RunScript
  BY <1>0, <1>2, ChangedElsewhere DEF tableVars, RowsTyped, Covered
<1>3. CASE MergeMappings
  <2>1. table' = merge_mappings(files, bill, group, skus) /\ added' = added
    BY <1>3 DEF MergeMappings
  <2>2. QED
    BY <1>1, <2>1, MergeLines DEF PlanTyped, Lines
<1>4. CASE EnsureFullCoverage
  <2>1. table' = table \cup {Backstop(k) : k \in Lines \ Covered} /\ added' = added
    BY <1>4 DEF EnsureFullCoverage, Rewrite
  <2>2. \A k : Backstop(k).key = k
    BY DEF Backstop, Record, IgnoreRow
  <2>3. LinesOf(table') \subseteq Lines
    BY <2>1, <2>2 DEF LinesOf, RowsTyped, Covered
  <2>4. QED
    BY <1>1, <2>1, <2>3
<1>5. CASE RetryAgent
  <2>1. PICK drafts \in [Gaps -> Drafts] :
          LET rows == UNION {{Record(Keyed(k, d)) : d \in drafts[k]} : k \in Gaps}
          IN  table' = table \cup rows /\ added' = {row.key : row \in rows}
    BY <1>5 DEF RetryAgent
  <2>2. \A k \in Gaps : \A d \in drafts[k] : Record(Keyed(k, d)).key = k
    BY <2>1, DraftsAssumption, KeyedNamed DEF Record
  <2>3. Gaps \subseteq Lines
    BY DEF Gaps
  <2>4. QED
    BY <1>0, <2>1, <2>2, <2>3 DEF RowsTyped, Covered
<1>6. CASE RunScript /\ ~MergeMappings /\ ~RetryAgent /\ ~EnsureFullCoverage
  <2>1. LinesOf(table') = LinesOf(table) /\ added' = added
    BY <1>6, LinesKept, ChangedBy DEF SameLines
  <2>2. QED
    BY <1>1, <2>1, CoveredLines DEF RowsTyped
<1>7. QED
  BY <1>2, <1>3, <1>4, <1>5, <1>6

\* What an agent may write is about lines of the bill, and within the bound.
LEMMA WrittenOf ==
    ASSUME PlanTyped, Counted, NEW fixes \in Written
    PROVE  /\ DOMAIN fixes \subseteq Lines
           /\ answers + Cardinality(DOMAIN fixes) \in 0 .. MaxExtras
<1>1. PICK asked \in SUBSET Lines :
          fixes \in [asked -> Answers] /\ Cardinality(asked) + answers <= MaxExtras
  BY DEF Written
<1>2. IsFiniteSet(asked)
  BY LinesFinite, FS_Subset DEF PlanTyped
<1>3. Cardinality(asked) \in Nat
  BY <1>2, FS_CardinalityType
<1>4. DOMAIN fixes = asked
  BY <1>1
<1>5. QED
  BY <1>1, <1>3, <1>4, BoundsAssumption DEF Counted

LEMMA DecisionsStep == ASSUME PlanTyped, DecisionsTyped, Counted, [Next]_vars PROVE DecisionsTyped'
<1>0. Lines' = Lines /\ IsFiniteSet(Lines)
  BY ChangedBy, ChangedElsewhere, LinesFinite DEF Lines, inputVars, PlanTyped
<1> DEFINE Kept == ledger' \in Seq(DirectivesOf(Lines, Lines))
<1>1. Legacy \in Seq(DirectivesOf(Lines, Lines))
  BY <1>0, LegacyOf DEF Legacy, DecisionsTyped, PlanTyped
<1>2. CASE RunScript
  <2>1. overrides' = overrides
    BY <1>2, ChangedBy
  <2>2. Kept
    <3>1. CASE ledger' = ledger
      BY <3>1 DEF DecisionsTyped
    <3>2. CASE DirectivesFromLegacy
      BY <1>1, <3>2, FromLegacyOf DEF DirectivesFromLegacy, DecisionsTyped
    <3>3. CASE ApplyDirectives
      <4>1. <<>> \in Seq(DirectivesOf(Lines, Lines))
        BY Tuples
      <4>2. QED
        BY <1>1, <3>3, <4>1, FromLegacyOf DEF ApplyDirectives, DecisionsTyped
    <3>4. QED
      BY <1>2, <3>1, <3>2, <3>3, ChangedBy
  <2>3. DOMAIN review' = FixColumns /\ DOMAIN review'.fixes \subseteq Lines
    <3>1. CASE review' = review
      BY <3>1 DEF DecisionsTyped
    <3>2. CASE AutoReview
      BY <3>2 DEF AutoReview, DecisionsTyped, FixColumns
    <3>3. CASE ReviewAgent
      <4>1. PICK fixes \in Written : review' = [review EXCEPT !.fixes = fixes]
        BY <3>3 DEF ReviewAgent
      <4>2. QED
        BY <4>1, WrittenOf DEF DecisionsTyped, FixColumns
    <3>4. QED
      BY <1>2, <3>1, <3>2, <3>3, ChangedBy
  <2>4. DOMAIN triage' = FixColumns /\ DOMAIN triage'.fixes \subseteq Lines
    <3>1. CASE triage' = triage
      BY <3>1 DEF DecisionsTyped
    <3>2. CASE DetectOutliers \/ AutoTriage
      BY <3>2 DEF DetectOutliers, AutoTriage, DecisionsTyped, FixColumns
    <3>3. CASE TriageAgent
      <4>1. PICK fixes \in Written : triage' = [triage EXCEPT !.fixes = fixes]
        BY <3>3 DEF TriageAgent
      <4>2. QED
        BY <4>1, WrittenOf DEF DecisionsTyped, FixColumns
    <3>4. QED
      BY <1>2, <3>1, <3>2, <3>3, ChangedBy
  <2>5. QED
    BY <1>0, <2>1, <2>2, <2>3, <2>4 DEF DecisionsTyped
<1>3. CASE ~RunScript
  <2>1. UNCHANGED <<review, triage>>
    BY <1>3, ChangedElsewhere DEF fixVars
  <2>2. DOMAIN overrides' \subseteq Lines /\ Kept
    <3>1. CASE UNCHANGED <<overrides, ledger>>
      BY <3>1 DEF DecisionsTyped
    <3>2. CASE ~UNCHANGED <<overrides, ledger>>
      <4>1. /\ ledger' = syncDirectivesFromOverrides(ledger, overrides')
            /\ DOMAIN overrides' \subseteq Lines
        <5>1. OverrideLineItem \/ DeleteLineItemOverride
          BY <1>3, <3>2 DEF Next, PromoteFinding, Stopped, vars, storeVars
        <5>2. CASE OverrideLineItem
          <6>1. PICK k \in Lines, kind \in {"ignore", "rate"} :
                    RecalculateWith([q \in DOMAIN overrides \cup {k} |->
                                        IF q = k THEN kind ELSE overrides[q]])
            BY <5>2 DEF OverrideLineItem
          <6>2. QED
            BY <6>1 DEF RecalculateWith, DecisionsTyped
        <5>3. CASE DeleteLineItemOverride
          <6>1. PICK k \in Lines : RecalculateWith(Restrict(overrides, DOMAIN overrides \ {k}))
            BY <5>3 DEF DeleteLineItemOverride
          <6>2. QED
            BY <6>1 DEF RecalculateWith, DecisionsTyped, Restrict
        <5>4. QED
          BY <5>1, <5>2, <5>3
      <4>2. QED
        BY <1>0, <4>1, SyncedOf DEF DecisionsTyped
    <3>3. QED
      BY <3>1, <3>2
  <2>3. QED
    BY <1>0, <2>1, <2>2 DEF DecisionsTyped
<1>4. QED
  BY <1>2, <1>3

LEMMA CountedStep == ASSUME PlanTyped, Counted, [Next]_vars PROVE Counted'
<1>1. CASE RunScript
  <2>1. /\ status' \in {status, "done", "failed"} /\ recalcs' = recalcs
        /\ Fault \/ UNCHANGED faults
    BY <1>1, ChangedBy
  <2>2. faults' \in 0 .. MaxFaults
    BY <2>1, BoundsAssumption DEF Fault, Counted
  <2>3. answers' \in 0 .. MaxExtras
    <3>1. CASE UNCHANGED answers
      BY <3>1 DEF Counted
    <3>2. CASE ReviewAgent \/ TriageAgent
      <4>1. \E fixes \in Written : answers' = answers + Cardinality(DOMAIN fixes)
        BY <3>2 DEF ReviewAgent, TriageAgent
      <4>2. QED
        BY <4>1, WrittenOf
    <3>3. CASE NoIllegalPassthroughs \/ NoNullProjectedCost \/ OverAndUnderProjection
      <4>1. answers' = answers \/ (answers < MaxExtras /\ answers' = answers + 1)
        BY <3>3 DEF NoIllegalPassthroughs, NoNullProjectedCost, OverAndUnderProjection, SoftGate
      <4>2. QED
        BY <4>1, BoundsAssumption DEF Counted
    <3>4. QED
      BY <1>1, <3>1, <3>2, <3>3, ChangedBy
  <2>4. QED
    BY <2>1, <2>2, <2>3 DEF Counted
<1>2. CASE ~RunScript
  <2>1. UNCHANGED <<answers, faults>>
    BY <1>2, ChangedElsewhere DEF fixVars
  <2>2. CASE UNCHANGED flowVars
    BY <2>1, <2>2 DEF Counted, flowVars
  <2>3. CASE \E changed : RecalculateWith(changed)
    <3>1. answers + recalcs < MaxExtras /\ recalcs' = recalcs + 1 /\ status' = "running"
      BY <2>3 DEF RecalculateWith
    <3>2. QED
      BY <2>1, <3>1, BoundsAssumption DEF Counted
  <2>4. QED
    BY <1>2, <2>2, <2>3, ChangedElsewhere
<1>3. QED
  BY <1>1, <1>2

LEMMA DataStep == ASSUME IInv, DataTyped, [Next]_vars PROVE DataTyped'
BY PlanStep, RowsStep, DecisionsStep, CountedStep DEF DataTyped

\* What else can be relied on where the data are typed.
LEMMA InvariantData == Spec => [](IInv /\ DataTyped)
<1>1. Init => IInv /\ DataTyped
  BY InitIInv, InitData
<1>2. IInv /\ DataTyped /\ [Next]_vars => (IInv /\ DataTyped)'
  BY StepKeeps, DataStep
<1>3. QED
  BY <1>1, <1>2, PTL DEF Spec

LEMMA ToSetConcat ==
    ASSUME NEW s \in Seq(ScriptNames), NEW t \in Seq(ScriptNames)
    PROVE  s \o t \in Seq(ScriptNames) /\ ToSet(s \o t) = ToSet(s) \cup ToSet(t)
<1> SUFFICES ASSUME NEW u \in Seq(ScriptNames), Len(s) \in Nat, Len(t) \in Nat,
                    Len(u) = Len(s) + Len(t),
                    \A i \in 1 .. Len(s) : u[i] = s[i],
                    \A i \in 1 .. Len(t) : u[Len(s) + i] = t[i]
             PROVE  ToSet(u) = ToSet(s) \cup ToSet(t)
  BY ConcatOf
<1>1. DOMAIN s = 1 .. Len(s) /\ DOMAIN t = 1 .. Len(t) /\ DOMAIN u = 1 .. Len(u)
  OBVIOUS
<1>2. ASSUME NEW i \in 1 .. Len(u) PROVE u[i] \in ToSet(s) \cup ToSet(t)
  <2>1. CASE i <= Len(s)
    BY <1>1, <2>1 DEF ToSet
  <2>2. CASE i > Len(s)
    <3>1. i - Len(s) \in 1 .. Len(t) /\ Len(s) + (i - Len(s)) = i
      BY <2>2
    <3>2. u[i] = t[i - Len(s)]
      BY <3>1
    <3>3. QED
      BY <1>1, <3>1, <3>2 DEF ToSet
  <2>3. QED
    BY <2>1, <2>2
<1>3. ASSUME NEW i \in 1 .. Len(s) PROVE s[i] \in ToSet(u)
  <2>1. i \in 1 .. Len(u) /\ u[i] = s[i]
    OBVIOUS
  <2>2. QED
    BY <1>1, <2>1 DEF ToSet
<1>4. ASSUME NEW i \in 1 .. Len(t) PROVE t[i] \in ToSet(u)
  <2>1. Len(s) + i \in 1 .. Len(u) /\ u[Len(s) + i] = t[i]
    OBVIOUS
  <2>2. QED
    BY <1>1, <2>1 DEF ToSet
<1>5. QED
  BY <1>1, <1>2, <1>3, <1>4 DEF ToSet

\* Every script that orchestrate.go names has its step.
LEMMA NamesAreSteps == ScriptNames \subseteq Steps
<1> DEFINE a == <<"classify_mechanics", "apply_commitment_ignores", "apply_static_mappings",
                  "mapping_agent">>
           b == <<"mapping_coverage", "auto_review", "review_agent">>
           c == <<"no_illegal_passthroughs", "apply_rates">>
           d == <<"no_null_projected_cost", "detect_outliers", "auto_triage",
                  "incremental_rerate", "triage_agent">>
           e == <<"over_and_under_projection">>
           m == <<"merge_mappings", "service_classifier", "fix_storage_misroute">>
           r == <<"incremental_rerate", "validate_fix", "outlier_gate">>
           k == <<"reconcile_capacity">>
           o(on) == IF on THEN ByDirectives ELSE <<>>
           z(on) == IF on THEN ByDirectives ELSE <<"apply_outlier_fixes">>
<1>1. /\ a \in Seq(ScriptNames) /\ b \in Seq(ScriptNames) /\ c \in Seq(ScriptNames)
      /\ d \in Seq(ScriptNames) /\ e \in Seq(ScriptNames) /\ m \in Seq(ScriptNames)
      /\ r \in Seq(ScriptNames) /\ k \in Seq(ScriptNames)
      /\ <<"apply_review_fixes">> \in Seq(ScriptNames) /\ PostRates \in Seq(ScriptNames)
  BY Tuples DEF ScriptNames, PostRates
<1>2. /\ ByDirectives \in Seq(ScriptNames) /\ <<"apply_outlier_fixes">> \in Seq(ScriptNames)
      /\ <<>> \in Seq(ScriptNames)
  BY Tuples DEF ScriptNames, ByDirectives
<1>3. \A on \in BOOLEAN : o(on) \in Seq(ScriptNames) /\ z(on) \in Seq(ScriptNames)
  BY <1>2
<1>4. /\ ToSet(a) = {"classify_mechanics", "apply_commitment_ignores", "apply_static_mappings",
                     "mapping_agent"}
      /\ ToSet(b) = {"mapping_coverage", "auto_review", "review_agent"}
      /\ ToSet(c) = {"no_illegal_passthroughs", "apply_rates"}
      /\ ToSet(e) = {"over_and_under_projection"}
      /\ ToSet(m) = {"merge_mappings", "service_classifier", "fix_storage_misroute"}
      /\ ToSet(r) = {"incremental_rerate", "validate_fix", "outlier_gate"}
      /\ ToSet(k) = {"reconcile_capacity"}
  BY DEF ToSet
<1>5. ToSet(d) = {"no_null_projected_cost", "detect_outliers", "auto_triage",
                  "incremental_rerate", "triage_agent"}
  BY DEF ToSet
<1>6. /\ ToSet(ByDirectives) = {"directives_from_legacy", "apply_directives"}
      /\ ToSet(<<"apply_review_fixes">>) = {"apply_review_fixes"}
      /\ ToSet(<<"apply_outlier_fixes">>) = {"apply_outlier_fixes"}
  BY DEF ToSet, ByDirectives
<1> HIDE DEF a, b, c, d, e, m, r, k
<1>7. ASSUME NEW on \in BOOLEAN
      PROVE  ToSet(Pipeline(on)) = ToSet(a) \cup ToSet(m) \cup ToSet(o(on)) \cup ToSet(k) \cup ToSet(b)
                 \cup ToSet(PostReview(on)) \cup ToSet(c) \cup ToSet(PostRates) \cup ToSet(d)
                 \cup ToSet(z(on)) \cup ToSet(r) \cup ToSet(e)
  <2> DEFINE p == (m \o o(on)) \o k
             q == z(on) \o r
             v == PostReview(on)
  <2>1. Pipeline(on) = (((((((a \o p) \o b) \o v) \o c) \o PostRates) \o d) \o q) \o e
    BY DEF Pipeline, PostMapping, PostTriage, a, b, c, d, e, m, r, k
  <2>2. o(on) \in Seq(ScriptNames) /\ z(on) \in Seq(ScriptNames) /\ v \in Seq(ScriptNames)
    BY <1>1, <1>2, <1>3 DEF PostReview
  <2> HIDE DEF o, z, v
  <2>3. m \o o(on) \in Seq(ScriptNames) /\ ToSet(m \o o(on)) = ToSet(m) \cup ToSet(o(on))
    BY <1>1, <2>2, ToSetConcat
  <2>4. /\ p \in Seq(ScriptNames) /\ ToSet(p) = ToSet(m) \cup ToSet(o(on)) \cup ToSet(k)
        /\ q \in Seq(ScriptNames) /\ ToSet(q) = ToSet(z(on)) \cup ToSet(r)
    BY <1>1, <2>2, <2>3, ToSetConcat
  <2> HIDE DEF p, q
  <2>5. a \o p \in Seq(ScriptNames) /\ ToSet(a \o p) = ToSet(a) \cup ToSet(p)
    BY <1>1, <2>4, ToSetConcat
  <2> DEFINE s1 == a \o p
             s2 == s1 \o b
             s3 == s2 \o v
             s4 == s3 \o c
             s5 == s4 \o PostRates
             s6 == s5 \o d
             s7 == s6 \o q
  <2> HIDE DEF s1
  <2>6. s2 \in Seq(ScriptNames) /\ ToSet(s2) = ToSet(s1) \cup ToSet(b)
    BY <1>1, <2>5, ToSetConcat DEF s1
  <2> HIDE DEF s2
  <2>7. s3 \in Seq(ScriptNames) /\ ToSet(s3) = ToSet(s2) \cup ToSet(v)
    BY <2>2, <2>6, ToSetConcat
  <2> HIDE DEF s3
  <2>8. s4 \in Seq(ScriptNames) /\ ToSet(s4) = ToSet(s3) \cup ToSet(c)
    BY <1>1, <2>7, ToSetConcat
  <2> HIDE DEF s4
  <2>9. s5 \in Seq(ScriptNames) /\ ToSet(s5) = ToSet(s4) \cup ToSet(PostRates)
    BY <1>1, <2>8, ToSetConcat
  <2> HIDE DEF s5
  <2>10. s6 \in Seq(ScriptNames) /\ ToSet(s6) = ToSet(s5) \cup ToSet(d)
    BY <1>1, <2>9, ToSetConcat
  <2> HIDE DEF s6
  <2>11. s7 \in Seq(ScriptNames) /\ ToSet(s7) = ToSet(s6) \cup ToSet(q)
    BY <2>4, <2>10, ToSetConcat
  <2> HIDE DEF s7
  <2>12. ToSet(s7 \o e) = ToSet(s7) \cup ToSet(e)
    BY <1>1, <2>11, ToSetConcat
  <2>13. Pipeline(on) = s7 \o e
    BY <2>1 DEF s1, s2, s3, s4, s5, s6, s7
  <2>14. QED
    BY <2>4, <2>5, <2>6, <2>7, <2>8, <2>9, <2>10, <2>11, <2>12, <2>13, Zenon DEF s1, v
<1>8. ToSet(PostRates) = {"validate_fix"} /\ ToSet(PostReview(FALSE)) = {"apply_review_fixes"}
  BY <1>6 DEF PostRates, PostReview, ToSet
<1>9. /\ ToSet(Pipeline(TRUE)) = ToSet(a) \cup ToSet(m) \cup ToSet(ByDirectives) \cup ToSet(k) \cup ToSet(b)
                 \cup ToSet(PostReview(TRUE)) \cup ToSet(c) \cup ToSet(PostRates) \cup ToSet(d)
                 \cup ToSet(ByDirectives) \cup ToSet(r) \cup ToSet(e)
      /\ {"apply_review_fixes", "apply_outlier_fixes"} \subseteq ToSet(Pipeline(FALSE))
  BY <1>6, <1>7, <1>8
<1>10. ASSUME NEW on \in BOOLEAN PROVE ToSet(Pipeline(on)) \subseteq Steps
  BY DEF Steps
<1>11. {"ensure_full_coverage", "mapping_coverage_after_retry", "mapping_coverage_at_last"} \subseteq Steps
  BY DEF Steps
<1>12. ToSet(Pipeline(TRUE)) \subseteq Steps /\ ToSet(Pipeline(FALSE)) \subseteq Steps
  BY <1>10, Zenon
<1>13. /\ ToSet(a) \subseteq Steps /\ ToSet(m) \subseteq Steps /\ ToSet(ByDirectives) \subseteq Steps
       /\ ToSet(k) \subseteq Steps /\ ToSet(b) \subseteq Steps /\ ToSet(c) \subseteq Steps
       /\ ToSet(PostRates) \subseteq Steps /\ ToSet(d) \subseteq Steps /\ ToSet(r) \subseteq Steps
       /\ ToSet(e) \subseteq Steps /\ {"apply_review_fixes", "apply_outlier_fixes"} \subseteq Steps
  BY <1>9, <1>12, Zenon
<1>14. QED
  BY <1>4, <1>5, <1>6, <1>8, <1>11, <1>13 DEF ScriptNames

-----------------------------------------------------------------------------
(* The theorem.                                                            *)

\* Every script still to run is one that orchestrate.go names, and the groups,
\* the manifest, the table, the overrides and the ledger speak of lines of the
\* bill only, however often scripts fail, agents answer and jobs are recalculated
\* within the bounds of the model.
THEOREM TypesHold == Spec => []TypeOK
<1>1. IInv /\ DataTyped => TypeOK
  <2> SUFFICES ASSUME IInv, DataTyped PROVE TypeOK
    OBVIOUS
  <2>1. todo \in Seq(ScriptNames)
    BY DEF IInv, PlanOrdered, Ordered
  <2>2. todo \in Seq(Steps)
    BY <2>1, NamesAreSteps
  <2>3. {ledger[i].key : i \in DOMAIN ledger} \subseteq Lines
    <3>1. \A i \in DOMAIN ledger : ledger[i] \in DirectivesOf(Lines, Lines)
      BY DEF DataTyped, DecisionsTyped
    <3>2. QED
      BY <3>1 DEF DirectivesOf
  <2>4. exists \in BOOLEAN /\ (exists \/ table = {}) /\ unchecked \in BOOLEAN
    BY DEF IInv, FlowTyped, TableThere
  <2>5. QED
    BY <2>2, <2>3, <2>4 DEF TypeOK, DataTyped, PlanTyped, RowsTyped, DecisionsTyped, Counted
<1>2. QED
  BY <1>1, InvariantData, PTL
=============================================================================
