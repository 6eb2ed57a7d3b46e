----------------------------- MODULE TableProofs -----------------------------
(***************************************************************************)
(* What the scripts after the merge have in common, for any table, bill,   *)
(* catalogue and rates: they rewrite rows, and neither add a bill line to  *)
(* the table nor drop one.                                                 *)
(***************************************************************************)
EXTENDS Directives, TLAPS

LinesOf(rows) == {row.key : row \in rows}

\* The columns of the mapping table.
RowColumns == {"key", "comp", "strategy", "sku", "name", "mult", "conf", "src", "basis",
               "license", "reason"}

\* Rows are records, or functions at least, with these columns.
Named(rows) == \A row \in rows : DOMAIN row = RowColumns

SameLines(new, old) == Named(new) /\ LinesOf(new) = LinesOf(old)

\* A change of a row that leaves its line alone.
Keeps(new, row) == DOMAIN new = DOMAIN row /\ new.key = row.key

LEMMA SameLinesReflexive == ASSUME NEW rows, Named(rows) PROVE SameLines(rows, rows)
BY DEF SameLines

LEMMA SameLinesTransitive ==
    ASSUME NEW a, NEW b, NEW c, SameLines(b, a), SameLines(c, b)
    PROVE  SameLines(c, a)
BY DEF SameLines

LEMMA RowByRow ==
    ASSUME NEW rows, Named(rows), NEW new,
           \A q \in new : \E row \in rows : Keeps(q, row),
           \A row \in rows : \E q \in new : Keeps(q, row)
    PROVE  SameLines(new, rows)
BY DEF SameLines, LinesOf, Named, RowColumns, Keeps

-----------------------------------------------------------------------------
(* The rewrites of phase 2 and the directives.                             *)

LEMMA ServiceClassifierLines ==
    ASSUME NEW rows, NEW bill, NEW group, Named(rows)
    PROVE  SameLines(service_classifier(rows, bill, group), rows)
<1> DEFINE new == service_classifier(rows, bill, group)
<1>1. \A q \in new : \E row \in rows : Keeps(q, row)
  BY DEF service_classifier, CapConf, Named, RowColumns, Keeps
<1>2. ASSUME NEW row \in rows PROVE \E q \in new : Keeps(q, row)
  <2>1. Keeps([row EXCEPT !.strategy = "passthrough", !.sku = None, !.name = None,
                   !.conf = policy(bill[row.key]).conf, !.reason = "service_policy_review"], row)
    BY DEF Named, RowColumns, Keeps
  <2>2. Keeps([row EXCEPT !.strategy = "ignore", !.sku = None, !.name = None, !.conf = policy(bill[row.key]).conf], row)
    BY DEF Named, RowColumns, Keeps
  <2>3. Keeps([row EXCEPT !.conf = Min2(row.conf, policy(bill[row.key]).conf)], row)
    BY DEF Named, RowColumns, Keeps
  <2>4. \/ row \in new
        \/ [row EXCEPT !.strategy = "passthrough", !.sku = None, !.name = None,
                   !.conf = policy(bill[row.key]).conf, !.reason = "service_policy_review"] \in new
        \/ [row EXCEPT !.strategy = "ignore", !.sku = None, !.name = None, !.conf = policy(bill[row.key]).conf] \in new
        \/ [row EXCEPT !.conf = Min2(row.conf, policy(bill[row.key]).conf)] \in new
    BY DEF service_classifier, CapConf
  <2>5. Keeps(row, row)
    BY DEF Named, RowColumns, Keeps
  <2>6. QED
    BY <2>1, <2>2, <2>3, <2>4, <2>5
<1>3. QED
  BY <1>1, <1>2, RowByRow

LEMMA FixStorageMisrouteLines ==
    ASSUME NEW rows, NEW bill, NEW group, Named(rows)
    PROVE  SameLines(fix_storage_misroute(rows, bill, group), rows)
<1> DEFINE new == fix_storage_misroute(rows, bill, group)
<1>1. \A q \in new : \E row \in rows : Keeps(q, row)
  BY DEF fix_storage_misroute, Named, RowColumns, Keeps
<1>2. ASSUME NEW row \in rows PROVE \E q \in new : Keeps(q, row)
  <2>1. Keeps([row EXCEPT !.strategy = "passthrough", !.sku = None, !.conf = 20,
                   !.reason = "storage_misroute_backstop"], row)
    BY DEF Named, RowColumns, Keeps
  <2>2. \/ row \in new
        \/ [row EXCEPT !.strategy = "passthrough", !.sku = None, !.conf = 20,
                   !.reason = "storage_misroute_backstop"] \in new
    BY DEF fix_storage_misroute
  <2>3. Keeps(row, row)
    BY DEF Named, RowColumns, Keeps
  <2>4. QED
    BY <2>1, <2>2, <2>3
<1>3. QED
  BY <1>1, <1>2, RowByRow

LEMMA ReconcileCapacityLines ==
    ASSUME NEW rows, NEW bill, Named(rows)
    PROVE  SameLines(reconcile_capacity(rows, bill), rows)
<1> DEFINE new == reconcile_capacity(rows, bill)
<1>1. \A q \in new : \E row \in rows : Keeps(q, row)
  BY DEF reconcile_capacity, Named, RowColumns, Keeps
<1>2. ASSUME NEW row \in rows PROVE \E q \in new : Keeps(q, row)
  <2>1. Keeps([row EXCEPT !.mult = Max2(row.mult, CASE row.comp = "core" -> Type(bill[row.key]).vcpu
                                          [] row.comp = "ram"  -> Type(bill[row.key]).ram
                                          [] OTHER -> 0)], row)
    BY DEF Named, RowColumns, Keeps
  <2>2. \/ row \in new
        \/ [row EXCEPT !.mult = Max2(row.mult, CASE row.comp = "core" -> Type(bill[row.key]).vcpu
                                          [] row.comp = "ram"  -> Type(bill[row.key]).ram
                                          [] OTHER -> 0)] \in new
    BY DEF reconcile_capacity
  <2>3. Keeps(row, row)
    BY DEF Named, RowColumns, Keeps
  <2>4. QED
    BY <2>1, <2>2, <2>3
<1>3. QED
  BY <1>1, <1>2, RowByRow

LEMMA SetStrategiesLines ==
    ASSUME NEW rows, NEW strategies, NEW keys, Named(rows)
    PROVE  SameLines(SetStrategies(rows, strategies, keys), rows)
<1> DEFINE new == SetStrategies(rows, strategies, keys)
<1>1. \A q \in new : \E row \in rows : Keeps(q, row)
  BY DEF SetStrategies, Named, RowColumns, Keeps
<1>2. ASSUME NEW row \in rows PROVE \E q \in new : Keeps(q, row)
  <2>1. Keeps([row EXCEPT !.strategy = strategies[row.key]], row)
    BY DEF Named, RowColumns, Keeps
  <2>2. \/ row \in new
        \/ [row EXCEPT !.strategy = strategies[row.key]] \in new
    BY DEF SetStrategies
  <2>3. Keeps(row, row)
    BY DEF Named, RowColumns, Keeps
  <2>4. QED
    BY <2>1, <2>2, <2>3
<1>3. QED
  BY <1>1, <1>2, RowByRow

LEMMA ApplyDirectivesLines ==
    ASSUME NEW rows, NEW ledger, NEW view, Named(rows),
           NEW new \in apply_directives(rows, ledger, view)
    PROVE  SameLines(new, rows)
<1> DEFINE strategies == resolve(ledger, "strategy")
<1>1. PICK keys : new = SetStrategies(rows, strategies, keys)
  <2> DEFINE fatal == {k \in {row.key : row \in rows} :
                          /\ view
                          /\ \/ k \in DOMAIN strategies /\ strategies[k] = "ignore"
                             \/ k \in DOMAIN resolve(ledger, "override_rate")}
  <2>1. CASE fatal = {}
    BY <2>1 DEF apply_directives
  <2>2. CASE fatal # {}
    <3> DEFINE reached == {keys \in SUBSET DOMAIN strategies :
                              \E last \in fatal : keys \cap fatal = {last} \cap DOMAIN strategies}
    <3>1. new \in {SetStrategies(rows, strategies, keys) : keys \in reached}
      BY <2>2 DEF apply_directives
    <3>2. QED
      BY <3>1
  <2>3. QED
    BY <2>1, <2>2
<1>2. QED
  BY <1>1, SetStrategiesLines

-----------------------------------------------------------------------------
(* Answers of the agents.                                                  *)

LEMMA SetSkuKeeps ==
    ASSUME NEW row, NEW sku, DOMAIN row = RowColumns
    PROVE  Keeps(SetSku(row, sku), row)
BY DEF Keeps, SetSku

LEMMA PenalizeKeeps ==
    ASSUME NEW row, NEW bill, DOMAIN row = RowColumns
    PROVE  Keeps(Penalize(row, bill), row)
BY DEF Keeps, Penalize

LEMMA ReviewCandidateKeeps ==
    ASSUME NEW row, NEW bill, NEW cand, DOMAIN row = RowColumns
    PROVE  Keeps(apply_review_candidate(row, bill, cand), row)
BY DEF Keeps, apply_review_candidate, SetSku, Penalize

LEMMA ReviewOverrideKeeps ==
    ASSUME NEW row, NEW fix, DOMAIN row = RowColumns
    PROVE  Keeps(apply_review_override(row, fix), row)
BY DEF Keeps, apply_review_override, SetSku

LEMMA CandidateKeeps ==
    ASSUME NEW row, NEW cand, DOMAIN row = RowColumns
    PROVE  Keeps(apply_candidate(row, cand), row)
BY DEF Keeps, apply_candidate, SetSku

LEMMA OverrideKeeps ==
    ASSUME NEW row, NEW fix, DOMAIN row = RowColumns
    PROVE  Keeps(apply_override(row, fix), row)
BY DEF Keeps, apply_override

-----------------------------------------------------------------------------
(* apply_rates.py and outlier_gate.py.                                     *)

LEMMA ResolveNullSkusLines ==
    ASSUME NEW rows, Named(rows)
    PROVE  SameLines(resolve_null_skus(rows), rows)
<1> DEFINE new == resolve_null_skus(rows)
<1>1. \A q \in new : \E row \in rows : Keeps(q, row)
  BY DEF resolve_null_skus, Named, RowColumns, Keeps
<1>2. ASSUME NEW row \in rows PROVE \E q \in new : Keeps(q, row)
  <2>1. Keeps([row EXCEPT !.strategy = "needs_reprice", !.src = "no_rate"], row)
    BY DEF Named, RowColumns, Keeps
  <2>2. \/ row \in new
        \/ [row EXCEPT !.strategy = "needs_reprice", !.src = "no_rate"] \in new
    BY DEF resolve_null_skus
  <2>3. Keeps(row, row)
    BY DEF Named, RowColumns, Keeps
  <2>4. QED
    BY <2>1, <2>2, <2>3
<1>3. QED
  BY <1>1, <1>2, RowByRow

LEMMA FlagLicenseLines ==
    ASSUME NEW rows, NEW bill, Named(rows)
    PROVE  SameLines(flag_license_exposure(rows, bill), rows)
<1> DEFINE new == flag_license_exposure(rows, bill)
<1>1. \A q \in new : \E row \in rows : Keeps(q, row)
  BY DEF flag_license_exposure, CapConf, Named, RowColumns, Keeps
<1>2. ASSUME NEW row \in rows PROVE \E q \in new : Keeps(q, row)
  <2>1. Keeps([[row EXCEPT !.conf = Min2(row.conf, 50)] EXCEPT !.license = TRUE], row)
    BY DEF Named, RowColumns, Keeps
  <2>2. \/ row \in new
        \/ [[row EXCEPT !.conf = Min2(row.conf, 50)] EXCEPT !.license = TRUE] \in new
    BY DEF flag_license_exposure, CapConf
  <2>3. Keeps(row, row)
    BY DEF Named, RowColumns, Keeps
  <2>4. QED
    BY <2>1, <2>2, <2>3
<1>3. QED
  BY <1>1, <1>2, RowByRow

LEMMA RouteUnreachableLines ==
    ASSUME NEW rows, NEW rates, NEW bill, Named(rows)
    PROVE  SameLines(route_unreachable(rows, rates, bill), rows)
<1> DEFINE new == route_unreachable(rows, rates, bill)
<1>1. \A q \in new : \E row \in rows : Keeps(q, row)
  BY DEF route_unreachable, Named, RowColumns, Keeps
<1>2. ASSUME NEW row \in rows PROVE \E q \in new : Keeps(q, row)
  <2>1. Keeps([row EXCEPT !.strategy = "outlier_triage"], row)
    BY DEF Named, RowColumns, Keeps
  <2>2. \/ row \in new
        \/ [row EXCEPT !.strategy = "outlier_triage"] \in new
    BY DEF route_unreachable
  <2>3. Keeps(row, row)
    BY DEF Named, RowColumns, Keeps
  <2>4. QED
    BY <2>1, <2>2, <2>3
<1>3. QED
  BY <1>1, <1>2, RowByRow

LEMMA RepriceNullCostsLines ==
    ASSUME NEW rows, NEW rates, NEW bill, Named(rows)
    PROVE  SameLines(reprice_null_costs(rows, rates, bill), rows)
<1> DEFINE new == reprice_null_costs(rows, rates, bill)
<1>1. \A q \in new : \E row \in rows : Keeps(q, row)
  BY DEF reprice_null_costs, Named, RowColumns, Keeps
<1>2. ASSUME NEW row \in rows PROVE \E q \in new : Keeps(q, row)
  <2>1. Keeps([row EXCEPT !.strategy = "needs_reprice", !.src = "no_rate"], row)
    BY DEF Named, RowColumns, Keeps
  <2>2. \/ row \in new
        \/ [row EXCEPT !.strategy = "needs_reprice", !.src = "no_rate"] \in new
    BY DEF reprice_null_costs
  <2>3. Keeps(row, row)
    BY DEF Named, RowColumns, Keeps
  <2>4. QED
    BY <2>1, <2>2, <2>3
<1>3. QED
  BY <1>1, <1>2, RowByRow

LEMMA RecordSourceLines ==
    ASSUME NEW rows, NEW pinned, Named(rows)
    PROVE  SameLines(record_source(rows, pinned), rows)
<1> DEFINE new == record_source(rows, pinned)
<1>1. \A q \in new : \E row \in rows : Keeps(q, row)
  BY DEF record_source, Named, RowColumns, Keeps
<1>2. ASSUME NEW row \in rows PROVE \E q \in new : Keeps(q, row)
  <2>1. Keeps([row EXCEPT !.src = CASE row.strategy = "passthrough" -> "passthrough"
                             [] row.strategy = "ignore"      -> "ignored"
                             [] Mapped(row) /\ row.key \in pinned -> "exact_sku"
                             [] OTHER                        -> "unknown"], row)
    BY DEF Named, RowColumns, Keeps
  <2>2. \/ row \in new
        \/ [row EXCEPT !.src = CASE row.strategy = "passthrough" -> "passthrough"
                             [] row.strategy = "ignore"      -> "ignored"
                             [] Mapped(row) /\ row.key \in pinned -> "exact_sku"
                             [] OTHER                        -> "unknown"] \in new
    BY DEF record_source
  <2>3. Keeps(row, row)
    BY DEF Named, RowColumns, Keeps
  <2>4. QED
    BY <2>1, <2>2, <2>3
<1>3. QED
  BY <1>1, <1>2, RowByRow

LEMMA RecordRegionBasisLines ==
    ASSUME NEW rows, NEW rates, NEW bill, NEW fallback, Named(rows)
    PROVE  SameLines(record_region_basis(rows, rates, bill, fallback), rows)
<1> DEFINE new == record_region_basis(rows, rates, bill, fallback)
<1>1. \A q \in new : \E row \in rows : Keeps(q, row)
  BY DEF record_region_basis, Named, RowColumns, Keeps
<1>2. ASSUME NEW row \in rows PROVE \E q \in new : Keeps(q, row)
  <2>1. Keeps([row EXCEPT !.basis = "global"], row)
    BY DEF Named, RowColumns, Keeps
  <2>2. Keeps([row EXCEPT !.basis = "dominant"], row)
    BY DEF Named, RowColumns, Keeps
  <2>3. \/ row \in new
        \/ [row EXCEPT !.basis = "global"] \in new
        \/ [row EXCEPT !.basis = "dominant"] \in new
    BY DEF record_region_basis
  <2>4. Keeps(row, row)
    BY DEF Named, RowColumns, Keeps
  <2>5. QED
    BY <2>1, <2>2, <2>3, <2>4
<1>3. QED
  BY <1>1, <1>2, RowByRow

LEMMA OutlierGateLines ==
    ASSUME NEW rows, NEW rates, NEW bill, Named(rows)
    PROVE  SameLines(outlier_gate(rows, rates, bill), rows)
<1> DEFINE new == outlier_gate(rows, rates, bill)
<1>1. \A q \in new : \E row \in rows : Keeps(q, row)
  BY DEF outlier_gate, Named, RowColumns, Keeps
<1>2. ASSUME NEW row \in rows PROVE \E q \in new : Keeps(q, row)
  <2>1. Keeps([row EXCEPT !.strategy = "needs_reprice", !.reason = "clamped_outlier"], row)
    BY DEF Named, RowColumns, Keeps
  <2>2. \/ row \in new
        \/ [row EXCEPT !.strategy = "needs_reprice", !.reason = "clamped_outlier"] \in new
    BY DEF outlier_gate
  <2>3. Keeps(row, row)
    BY DEF Named, RowColumns, Keeps
  <2>4. QED
    BY <2>1, <2>2, <2>3
<1>3. QED
  BY <1>1, <1>2, RowByRow

-----------------------------------------------------------------------------
(* validate_fix.py.                                                        *)

LEMMA NullSkuNamesLines ==
    ASSUME NEW rows, NEW bill, NEW group, Named(rows)
    PROVE  SameLines(repair_null_sku_names(rows, bill, group), rows)
<1> DEFINE new == repair_null_sku_names(rows, bill, group)
<1>1. \A q \in new : \E row \in rows : Keeps(q, row)
  BY DEF repair_null_sku_names, Named, RowColumns, Keeps
<1>2. ASSUME NEW row \in rows PROVE \E q \in new : Keeps(q, row)
  <2>1. Keeps([row EXCEPT !.name = IF s3_route_usage_type(bill[row.key].usage) = "unknown" THEN Standard
                                   ELSE s3_route_usage_type(bill[row.key].usage),
                   !.strategy = "map"], row)
    BY DEF Named, RowColumns, Keeps
  <2>2. \/ row \in new
        \/ [row EXCEPT !.name = IF s3_route_usage_type(bill[row.key].usage) = "unknown" THEN Standard
                                   ELSE s3_route_usage_type(bill[row.key].usage),
                   !.strategy = "map"] \in new
    BY DEF repair_null_sku_names
  <2>3. Keeps(row, row)
    BY DEF Named, RowColumns, Keeps
  <2>4. QED
    BY <2>1, <2>2, <2>3
<1>3. QED
  BY <1>1, <1>2, RowByRow

LEMMA IllegalPassthroughLines ==
    ASSUME NEW rows, NEW rates, NEW bill, Named(rows)
    PROVE  SameLines(repair_illegal_passthrough(rows, rates, bill), rows)
<1> DEFINE new == repair_illegal_passthrough(rows, rates, bill)
<1>1. \A q \in new : \E row \in rows : Keeps(q, row)
  BY DEF repair_illegal_passthrough, Named, RowColumns, Keeps
<1>2. ASSUME NEW row \in rows PROVE \E q \in new : Keeps(q, row)
  <2>1. Keeps([row EXCEPT !.strategy = "map"], row)
    BY DEF Named, RowColumns, Keeps
  <2>2. Keeps([row EXCEPT !.reason = "no_rate_in_region"], row)
    BY DEF Named, RowColumns, Keeps
  <2>3. \/ row \in new
        \/ [row EXCEPT !.strategy = "map"] \in new
        \/ [row EXCEPT !.reason = "no_rate_in_region"] \in new
    BY DEF repair_illegal_passthrough
  <2>4. Keeps(row, row)
    BY DEF Named, RowColumns, Keeps
  <2>5. QED
    BY <2>1, <2>2, <2>3, <2>4
<1>3. QED
  BY <1>1, <1>2, RowByRow

LEMMA EnterprisePlusLines ==
    ASSUME NEW rows, NEW bill, NEW skus, Named(rows)
    PROVE  SameLines(downgrade_enterprise_plus(rows, bill, skus), rows)
<1> DEFINE new == downgrade_enterprise_plus(rows, bill, skus)
<1>1. \A q \in new : \E row \in rows : Keeps(q, row)
  BY DEF downgrade_enterprise_plus, Named, RowColumns, Keeps
<1>2. ASSUME NEW row \in rows PROVE \E q \in new : Keeps(q, row)
  <2>1. Keeps([row EXCEPT !.sku = EnterpriseOf[row.name], !.name = EnterpriseOf[row.name]], row)
    BY DEF Named, RowColumns, Keeps
  <2>2. \/ row \in new
        \/ [row EXCEPT !.sku = EnterpriseOf[row.name], !.name = EnterpriseOf[row.name]] \in new
    BY DEF downgrade_enterprise_plus
  <2>3. Keeps(row, row)
    BY DEF Named, RowColumns, Keeps
  <2>4. QED
    BY <2>1, <2>2, <2>3
<1>3. QED
  BY <1>1, <1>2, RowByRow

LEMMA ClampPerNLines ==
    ASSUME NEW rows, NEW bill, Named(rows)
    PROVE  SameLines(clamp_per_n(rows, bill), rows)
<1> DEFINE new == clamp_per_n(rows, bill)
<1>1. \A q \in new : \E row \in rows : Keeps(q, row)
  BY DEF clamp_per_n, Named, RowColumns, Keeps
<1>2. ASSUME NEW row \in rows PROVE \E q \in new : Keeps(q, row)
  <2>1. Keeps([row EXCEPT !.mult = 1], row)
    BY DEF Named, RowColumns, Keeps
  <2>2. \/ row \in new
        \/ [row EXCEPT !.mult = 1] \in new
    BY DEF clamp_per_n
  <2>3. Keeps(row, row)
    BY DEF Named, RowColumns, Keeps
  <2>4. QED
    BY <2>1, <2>2, <2>3
<1>3. QED
  BY <1>1, <1>2, RowByRow

LEMMA IgnoreLinesLines ==
    ASSUME NEW rows, NEW keys, Named(rows)
    PROVE  SameLines(IgnoreLines(rows, keys), rows)
<1> DEFINE new == IgnoreLines(rows, keys)
<1>1. \A q \in new : \E row \in rows : Keeps(q, row)
  BY DEF IgnoreLines, Named, RowColumns, Keeps
<1>2. ASSUME NEW row \in rows PROVE \E q \in new : Keeps(q, row)
  <2>1. Keeps([row EXCEPT !.strategy = "ignore", !.sku = None, !.mult = 0], row)
    BY DEF Named, RowColumns, Keeps
  <2>2. \/ row \in new
        \/ [row EXCEPT !.strategy = "ignore", !.sku = None, !.mult = 0] \in new
    BY DEF IgnoreLines
  <2>3. Keeps(row, row)
    BY DEF Named, RowColumns, Keeps
  <2>4. QED
    BY <2>1, <2>2, <2>3
<1>3. QED
  BY <1>1, <1>2, RowByRow

LEMMA FamiliesLines ==
    ASSUME NEW rows, NEW rates, NEW bill, NEW skus, Named(rows)
    PROVE  SameLines(repair_families(rows, rates, bill, skus).table, rows)
<1> DEFINE new == repair_families(rows, rates, bill, skus).table
<1>1. \A q \in new : \E row \in rows : Keeps(q, row)
  BY DEF repair_families, Named, RowColumns, Keeps
<1>2. ASSUME NEW row \in rows PROVE \E q \in new : Keeps(q, row)
  <2>1. Keeps([row EXCEPT !.sku = IF "core" \in Words[row.sku] THEN Core(gcp_family_for(bill[row.key]))
                                  ELSE Ram(gcp_family_for(bill[row.key]))], row)
    BY DEF Named, RowColumns, Keeps
  <2>2. \/ row \in new
        \/ [row EXCEPT !.sku = IF "core" \in Words[row.sku] THEN Core(gcp_family_for(bill[row.key]))
                                  ELSE Ram(gcp_family_for(bill[row.key]))] \in new
    BY DEF repair_families
  <2>3. Keeps(row, row)
    BY DEF Named, RowColumns, Keeps
  <2>4. QED
    BY <2>1, <2>2, <2>3
<1>3. QED
  BY <1>1, <1>2, RowByRow

LEMMA RegionsLines ==
    ASSUME NEW rows, NEW rates, NEW bill, NEW skus, Named(rows)
    PROVE  SameLines(repair_regions(rows, rates, bill, skus).table, rows)
<1> DEFINE new == repair_regions(rows, rates, bill, skus).table
<1>1. \A q \in new : \E row \in rows : Keeps(q, row)
  BY DEF repair_regions, Named, RowColumns, Keeps
<1>2. ASSUME NEW row \in rows PROVE \E q \in new : Keeps(q, row)
  <2>1. Keeps([row EXCEPT !.sku = find_regional_sku(skus, row.sku, bill[row.key].region)], row)
    BY DEF Named, RowColumns, Keeps
  <2>2. \/ row \in new
        \/ [row EXCEPT !.sku = find_regional_sku(skus, row.sku, bill[row.key].region)] \in new
    BY DEF repair_regions
  <2>3. Keeps(row, row)
    BY DEF Named, RowColumns, Keeps
  <2>4. QED
    BY <2>1, <2>2, <2>3
<1>3. QED
  BY <1>1, <1>2, RowByRow

LEMMA UnpricedLines ==
    ASSUME NEW rows, NEW rates, NEW bill, Named(rows)
    PROVE  SameLines(downgrade_unpriced(rows, rates, bill), rows)
<1> DEFINE new == downgrade_unpriced(rows, rates, bill)
<1>1. \A q \in new : \E row \in rows : Keeps(q, row)
  BY DEF downgrade_unpriced, Named, RowColumns, Keeps
<1>2. ASSUME NEW row \in rows PROVE \E q \in new : Keeps(q, row)
  <2>1. Keeps([row EXCEPT !.strategy = "passthrough", !.reason = "unresolved_sku", !.sku = None], row)
    BY DEF Named, RowColumns, Keeps
  <2>2. \/ row \in new
        \/ [row EXCEPT !.strategy = "passthrough", !.reason = "unresolved_sku", !.sku = None] \in new
    BY DEF downgrade_unpriced
  <2>3. Keeps(row, row)
    BY DEF Named, RowColumns, Keeps
  <2>4. QED
    BY <2>1, <2>2, <2>3
<1>3. QED
  BY <1>1, <1>2, RowByRow

LEMMA DetailLessLines ==
    ASSUME NEW rows, NEW bill, Named(rows)
    PROVE  SameLines(downgrade_detail_less(rows, bill), rows)
<1> DEFINE new == downgrade_detail_less(rows, bill)
<1>1. \A q \in new : \E row \in rows : Keeps(q, row)
  BY DEF downgrade_detail_less, CapConf, Named, RowColumns, Keeps
<1>2. ASSUME NEW row \in rows PROVE \E q \in new : Keeps(q, row)
  <2>1. Keeps([[row EXCEPT !.strategy = "passthrough", !.reason = "detail_less_row", !.sku = None]
         EXCEPT !.conf = Min2([row EXCEPT !.strategy = "passthrough", !.reason = "detail_less_row",
                                          !.sku = None].conf, 20)], row)
    BY DEF Named, RowColumns, Keeps
  <2>2. \/ row \in new
        \/ [[row EXCEPT !.strategy = "passthrough", !.reason = "detail_less_row", !.sku = None]
         EXCEPT !.conf = Min2([row EXCEPT !.strategy = "passthrough", !.reason = "detail_less_row",
                                          !.sku = None].conf, 20)] \in new
    BY DEF downgrade_detail_less, CapConf
  <2>3. Keeps(row, row)
    BY DEF Named, RowColumns, Keeps
  <2>4. QED
    BY <2>1, <2>2, <2>3
<1>3. QED
  BY <1>1, <1>2, RowByRow

-----------------------------------------------------------------------------
(* The scripts as a whole.                                                 *)

LEMMA ApplyReviewFixesLines ==
    ASSUME NEW rows, NEW bill, NEW candidates, NEW fixes, Named(rows)
    PROVE  SameLines(apply_review_fixes(rows, bill, candidates, fixes), rows)
<1> DEFINE new == apply_review_fixes(rows, bill, candidates, fixes)
<1>1. ASSUME NEW row, DOMAIN row = RowColumns
      PROVE  Keeps(Answered(row, rows, bill, candidates, fixes), row)
  <2>1. Answered(row, rows, bill, candidates, fixes)
            \in {row, apply_review_candidate(row, bill, candidates[row.key]),
                apply_review_override(row, fixes[row.key])}
    BY DEF Answered
  <2>2. QED
    BY <1>1, <2>1, ReviewCandidateKeeps, ReviewOverrideKeeps DEF Keeps
<1>2. ASSUME NEW row, DOMAIN row = RowColumns
      PROVE  Keeps(Noted(row, bill, candidates), row)
  BY <1>2, PenalizeKeeps DEF Noted, Keeps
<1>3. \A row \in rows :
          Keeps(Answered(Noted(row, bill, candidates), rows, bill, candidates, fixes), row)
  BY <1>1, <1>2 DEF Keeps, Named
<1>4. QED
  BY <1>3, RowByRow DEF apply_review_fixes

LEMMA ApplyOutlierFixesLines ==
    ASSUME NEW rows, NEW rates, NEW bill, NEW skus, NEW candidates, NEW fixes, Named(rows)
    PROVE  SameLines(apply_outlier_fixes(rows, rates, bill, skus, candidates, fixes).table, rows)
<1>1. ASSUME NEW row, DOMAIN row = RowColumns, NEW found, NEW overridden
      PROVE  Keeps(Applied(row, found, overridden, fixes), row)
  BY <1>1, CandidateKeeps, OverrideKeeps DEF Applied, Keeps
<1>2. \E found, overridden : apply_outlier_fixes(rows, rates, bill, skus, candidates, fixes).table
          = {Applied(row, found, overridden, fixes) : row \in rows}
  BY DEF apply_outlier_fixes
<1>3. PICK found, overridden : apply_outlier_fixes(rows, rates, bill, skus, candidates, fixes).table
          = {Applied(row, found, overridden, fixes) : row \in rows}
  BY <1>2
<1>4. \A row \in rows : Keeps(Applied(row, found, overridden, fixes), row)
  BY <1>1 DEF Named
<1>5. QED
  BY <1>3, <1>4, RowByRow

\* What the agent of a retry does to the rows of one line.
LEMMA EditLines ==
    ASSUME NEW rows, NEW k, NEW edit, Named(rows)
    PROVE  SameLines({IF row.key = k THEN apply_override(row, edit) ELSE row : row \in rows}, rows)
<1> DEFINE new == {IF row.key = k THEN apply_override(row, edit) ELSE row : row \in rows}
<1>1. \A row \in rows : Keeps(row, row) /\ Keeps(apply_override(row, edit), row)
  BY OverrideKeeps DEF Named, RowColumns, Keeps
<1>2. \A q \in new : \E row \in rows : Keeps(q, row)
  BY <1>1
<1>3. \A row \in rows : \E q \in new : Keeps(q, row)
  BY <1>1
<1>4. QED
  BY <1>2, <1>3, RowByRow

LEMMA NoCatalogLines ==
    ASSUME NEW rows, Named(rows)
    PROVE  SameLines(NoCatalog(rows), rows)
<1> DEFINE new == NoCatalog(rows)
<1>1. \A q \in new : \E row \in rows : Keeps(q, row)
  BY DEF NoCatalog, Named, RowColumns, Keeps
<1>2. ASSUME NEW row \in rows PROVE \E q \in new : Keeps(q, row)
  <2>1. Keeps([row EXCEPT !.strategy = "passthrough", !.reason = "unresolved_sku",
                   !.src = "no_catalog"], row)
    BY DEF Named, RowColumns, Keeps
  <2>2. Keeps([row EXCEPT !.src = "no_catalog"], row)
    BY DEF Named, RowColumns, Keeps
  <2>3. \/ row \in new
        \/ [row EXCEPT !.strategy = "passthrough", !.reason = "unresolved_sku",
                   !.src = "no_catalog"] \in new
        \/ [row EXCEPT !.src = "no_catalog"] \in new
    BY DEF NoCatalog
  <2>4. Keeps(row, row)
    BY DEF Named, RowColumns, Keeps
  <2>5. QED
    BY <2>1, <2>2, <2>3, <2>4
<1>3. QED
  BY <1>1, <1>2, RowByRow

LEMMA ApplyRatesLines ==
    ASSUME NEW rows, NEW rates, NEW bill, NEW skus, Named(rows)
    PROVE  SameLines(apply_rates(rows, rates, bill, skus).table, rows)
<1> DEFINE resolved == resolve_null_skus(rows)
           pinned   == {row.key : row \in {q \in rows : Mapped(q) /\ q.sku # None}}
           new      == rate_table(resolved, bill, skus)
           known    == known_rates(resolved, skus)
           made     == DOMAIN with_global_fallback(known, compute_dominant_region(bill)) \ DOMAIN known
           flagged  == flag_license_exposure(resolved, bill)
           reached  == route_unreachable(flagged, new, bill)
           costed   == reprice_null_costs(reached, new, bill)
           sourced  == record_source(costed, pinned)
<1>1. SameLines(resolved, rows)
  BY ResolveNullSkusLines
<1>2. CASE skus_used(resolved) = {}
  <2>1. apply_rates(rows, rates, bill, skus).table = record_source(resolved, {})
    BY <1>2 DEF apply_rates
  <2>2. QED
    BY <1>1, <2>1, RecordSourceLines, SameLinesTransitive DEF SameLines
<1>3. CASE skus_used(resolved) # {} /\ skus = {}
  <2>1. apply_rates(rows, rates, bill, skus).table = NoCatalog(resolved)
    BY <1>3 DEF apply_rates
  <2>2. QED
    BY <1>1, <2>1, NoCatalogLines, SameLinesTransitive DEF SameLines
<1>4. CASE skus_used(resolved) # {} /\ skus # {}
  <2>1. apply_rates(rows, rates, bill, skus).table = record_region_basis(sourced, new, bill, made)
    BY <1>4 DEF apply_rates
  <2> HIDE DEF resolved, pinned, new, known, made
  <2>2. SameLines(flagged, rows)
    BY <1>1, FlagLicenseLines, SameLinesTransitive DEF SameLines
  <2>3. SameLines(reached, rows)
    <3> HIDE DEF flagged
    <3>1. QED
      BY <2>2, RouteUnreachableLines, SameLinesTransitive DEF SameLines
  <2>4. SameLines(costed, rows)
    <3> HIDE DEF reached
    <3>1. QED
      BY <2>3, RepriceNullCostsLines, SameLinesTransitive DEF SameLines
  <2>5. SameLines(sourced, rows)
    <3> HIDE DEF costed
    <3>1. QED
      BY <2>4, RecordSourceLines, SameLinesTransitive DEF SameLines
  <2> HIDE DEF sourced
  <2>6. QED
    BY <2>1, <2>5, RecordRegionBasisLines, SameLinesTransitive DEF SameLines
<1>5. QED
  BY <1>2, <1>3, <1>4

LEMMA IncrementalRerateLines ==
    ASSUME NEW rows, NEW rates, NEW bill, NEW skus, Named(rows)
    PROVE  SameLines(incremental_rerate(rows, rates, bill, skus).table, rows)
<1>1. incremental_rerate(rows, rates, bill, skus).table = flag_license_exposure(rows, bill)
  BY DEF incremental_rerate
<1>2. QED
  BY <1>1, FlagLicenseLines

\* The two repairs that a killed validate_fix.py leaves behind.
LEMMA FirstRepairsLines ==
    ASSUME NEW rows, NEW rates, NEW bill, NEW group, Named(rows)
    PROVE  SameLines(repair_illegal_passthrough(repair_null_sku_names(rows, bill, group), rates, bill), rows)
BY NullSkuNamesLines, IllegalPassthroughLines, SameLinesTransitive DEF SameLines

LEMMA RepairedMappingLines ==
    ASSUME NEW rows, NEW rates, NEW bill, NEW group, NEW skus, Named(rows)
    PROVE  SameLines(RepairedMapping(rows, rates, bill, group, skus), rows)
<1> DEFINE first   == repair_illegal_passthrough(repair_null_sku_names(rows, bill, group), rates, bill)
           plus    == downgrade_enterprise_plus(first, bill, skus)
           clamped == clamp_per_n(plus, bill)
<1>1. SameLines(first, rows)
  BY FirstRepairsLines
<1> HIDE DEF first
<1>2. SameLines(plus, rows)
  BY <1>1, EnterprisePlusLines, SameLinesTransitive DEF SameLines
<1> HIDE DEF plus
<1>3. SameLines(clamped, rows)
  BY <1>2, ClampPerNLines, SameLinesTransitive DEF SameLines
<1> HIDE DEF clamped
<1>4. SameLines(ignore_bundled_throughput(clamped, bill), rows)
  BY <1>3, IgnoreLinesLines, SameLinesTransitive DEF SameLines, ignore_bundled_throughput
<1>5. RepairedMapping(rows, rates, bill, group, skus) = ignore_bundled_throughput(clamped, bill)
  BY DEF RepairedMapping, clamped, plus, first
<1>6. QED
  BY <1>4, <1>5

LEMMA RepairedProjectionLines ==
    ASSUME NEW rows, NEW rates, NEW bill, Named(rows)
    PROVE  SameLines(RepairedProjection(rows, rates, bill).table, rows)
<1> DEFINE ignored == ignore_phantoms(rows, rates, bill)
           carried == downgrade_unpriced(ignored, rates, bill)
<1>1. SameLines(ignored, rows)
  BY IgnoreLinesLines DEF ignore_phantoms
<1> HIDE DEF ignored
<1>2. SameLines(carried, rows)
  BY <1>1, UnpricedLines, SameLinesTransitive DEF SameLines
<1> HIDE DEF carried
<1>3. SameLines(downgrade_detail_less(carried, bill), rows)
  BY <1>2, DetailLessLines, SameLinesTransitive DEF SameLines
<1>4. RepairedProjection(rows, rates, bill).table = downgrade_detail_less(carried, bill)
  BY DEF RepairedProjection, carried, ignored
<1>5. QED
  BY <1>3, <1>4

LEMMA ValidateFixLines ==
    ASSUME NEW rows, NEW rates, NEW bill, NEW group, NEW skus, Named(rows)
    PROVE  SameLines(validate_fix(rows, rates, bill, group, skus).table, rows)
<1> DEFINE mapped == RepairedMapping(rows, rates, bill, group, skus)
           moved  == repair_families(mapped, rates, bill, skus)
           found  == repair_regions(moved.table, moved.rates, bill, skus)
<1>1. SameLines(mapped, rows)
  BY RepairedMappingLines
<1> HIDE DEF mapped
<1>2. SameLines(moved.table, rows)
  BY <1>1, FamiliesLines, SameLinesTransitive DEF SameLines
<1> HIDE DEF moved
<1>3. SameLines(found.table, rows)
  BY <1>2, RegionsLines, SameLinesTransitive DEF SameLines
<1> HIDE DEF found
<1>4. SameLines(RepairedProjection(found.table, with_cud(found.rates), bill).table, rows)
  BY <1>3, RepairedProjectionLines, SameLinesTransitive DEF SameLines
<1>5. validate_fix(rows, rates, bill, group, skus) =
          RepairedProjection(found.table, with_cud(found.rates), bill)
  BY DEF validate_fix, Completed, RepairedSkus, found, moved, mapped
<1>6. QED
  BY <1>4, <1>5

=============================================================================
