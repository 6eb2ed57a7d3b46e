----------------------------- MODULE ReviewFixes -----------------------------
(***************************************************************************)
(* Phase 3: the rows auto_review.py holds against the mapping, with a      *)
(* candidate for each, and what apply_review_fixes.py makes of the agent's *)
(* answers to them; the guard that both fix scripts put in front of an     *)
(* override (llm_override_guard.py).                                       *)
(*                                                                         *)
(* candidates maps a line to its candidate, fixes maps a line to the       *)
(* answer of the agent.  gcp_service is set where gcp_sku_name is.         *)
(* Shared-core SKUs, and SKU ids that are no SKU ids, are left out.        *)
(***************************************************************************)
EXTENDS Pricing

CONSTANT FeaturePenalty     \* AWS instance types with no counterpart |-> penalty

\* classify_charge: is_workload.  Fees, credits and taxes are none.
WorkloadTypes == {"Usage", "DiscountedUsage", "SavingsPlanCoveredUsage"}
is_workload(r) ==
    /\ r.lit \in WorkloadTypes
    /\ r.cost >= 0
    /\ ~Hits(Text(r), {"marketplace", "support", "tax", "credit", "refund", "hourly commitment",
                       "recurring fee", "reserved instance fee", "enterprise discount program"})

\* passthrough_reasons.json: reasons that are the right final answer.
INTENTIONAL_REASONS ==
    {"no_gcp_equivalent", "unit_model_mismatch", "accelerator_manual_sizing",
     "service_policy_review", "family_not_available_in_region", "no_rate_in_region"}
Intentional(row) == row.reason \in INTENTIONAL_REASONS

Candidate(action, comp, sku, mult) == [action |-> action, comp |-> comp, sku |-> sku, mult |-> mult]
NoCandidate == Candidate(None, None, None, 0)

\* An answer: decision, and what an override wants changed (Unset: no mult).
Unset == -1
HasFields(fix) == fix.sku # None \/ fix.mult # Unset

\* _strict_resolve_sku, for a row's name.
strict_resolve_sku(cat, name) == IF Strict(cat, name) = None THEN None ELSE Sku(cat, name)

-----------------------------------------------------------------------------
(* auto_review.py: what is flagged, the later check over the earlier.      *)
Materiality == 5

illegal_rows(table, bill, k) ==
    {row \in Rows(table, k) : /\ Unpriced(row) /\ ~Intentional(row)
                              /\ is_workload(bill[k]) /\ bill[k].cost >= Materiality}

\* Which of several rows of a line speaks for it is not specified.
IllegalCandidate(rows, cat) ==
    LET row == CHOOSE q \in rows : TRUE
        sku == strict_resolve_sku(cat, row.name)
    IN  IF sku = None THEN NoCandidate ELSE Candidate("set_sku_and_map", None, sku, 0)

\* Less memory for each vCPU than the instance has.
spec_violation(table, bill, skus, k) ==
    LET part(comp) == {row \in Rows(table, k) : Mapped(row) /\ row.comp = comp}
        most(comp) == IF part(comp) = {} THEN 0 ELSE Max({row.mult : row \in part(comp)})
    IN  /\ HasSpecs(bill[k])
        /\ \E row \in part("core") : row.sku \in {s.desc : s \in skus}
        /\ most("core") > 0
        /\ most("ram") * Type(bill[k]).vcpu < Type(bill[k]).ram * most("core")

unpriceable(table, bill, k) ==
    /\ is_workload(bill[k]) /\ bill[k].cost >= Materiality
    /\ \E row \in Rows(table, k) : Mapped(row) /\ (row.sku = None \/ row.mult <= 0)

Penalized(bill, k) == bill[k].itype \in DOMAIN FeaturePenalty

auto_review(table, bill, skus, cats) ==
    LET Of(k) == CASE spec_violation(table, bill, skus, k) -> Candidate("fix_multipliers", None, None, 0)
                   [] ~spec_violation(table, bill, skus, k) /\ illegal_rows(table, bill, k) # {} ->
                          IllegalCandidate(illegal_rows(table, bill, k), cats[bill[k].region])
                   [] ~spec_violation(table, bill, skus, k) /\ illegal_rows(table, bill, k) = {}
                      /\ unpriceable(table, bill, k) -> NoCandidate
                   [] OTHER -> Candidate("penalize_confidence", None, None, 0)
        flagged == {k \in {row.key : row \in table} :
                       \/ spec_violation(table, bill, skus, k)
                       \/ illegal_rows(table, bill, k) # {}
                       \/ unpriceable(table, bill, k)
                       \/ Penalized(bill, k)}
    IN  [k \in flagged |-> Of(k)]

-----------------------------------------------------------------------------
\* validate_override: a multiplier within bounds, no mapping of a line whose
\* first row is carried for good, and, once there are rates, one for the SKU.
MaxMult(comp) == IF comp = "ram" THEN 8192 ELSE 512

validate_override(table, rates, rated, bill, k, fix) ==
    LET r == bill[k]
        mapping == fix.strategy = "map" \/ (fix.strategy = None /\ fix.sku # None)
        places  == {r.region, "global", compute_dominant_region(bill)}
    IN  /\ fix.mult # Unset => fix.mult > 0 /\ fix.mult <= MaxMult(fix.comp)
        /\ mapping /\ Rows(table, k) # {} => ~Intentional(CHOOSE row \in Rows(table, k) : TRUE)
        /\ rated /\ fix.sku # None => \E g \in places : <<fix.sku, "OnDemand", g>> \in DOMAIN rates

Penalize(row, bill) == [row EXCEPT !.conf = Max({10, @ - FeaturePenalty[bill[row.key].itype]})]

SetSku(row, sku) == [row EXCEPT !.sku = sku, !.name = sku, !.strategy = "map"]

\* apply_candidate: a SKU for every row of the line, whatever its component.
apply_review_candidate(row, bill, cand) ==
    CASE cand.action = "set_sku_and_map" -> SetSku(row, cand.sku)
      [] cand.action = "fix_multipliers" ->
             [row EXCEPT !.mult = CASE row.comp = "core" -> Type(bill[row.key]).vcpu
                                    [] row.comp = "ram"  -> Type(bill[row.key]).ram
                                    [] OTHER -> @]
      [] cand.action = "penalize_confidence" -> Penalize(row, bill)
      [] OTHER -> row

apply_review_override(row, fix) ==
    LET named == IF fix.sku # None /\ fix.comp \in {None, row.comp} THEN SetSku(row, fix.sku) ELSE row
        part  == IF fix.comp = None THEN "core" ELSE fix.comp
    IN  IF fix.mult # Unset /\ row.comp = part THEN [named EXCEPT !.mult = fix.mult] ELSE named

Noted(row, bill, candidates) ==
    IF row.key \in DOMAIN candidates /\ candidates[row.key].action = "penalize_confidence"
    THEN Penalize(row, bill) ELSE row

\* A veto writes a column the table does not have, and the error is swallowed:
\* it leaves everything as it is.
Answered(row, table, bill, candidates, fixes) ==
    LET k == row.key
        fix == fixes[k]
    IN  CASE k \in DOMAIN fixes /\ fix.decision = "confirm" /\ k \in DOMAIN candidates ->
                 apply_review_candidate(row, bill, candidates[k])
          [] /\ k \in DOMAIN fixes /\ fix.decision = "override"
             /\ candidates = <<>> \/ k \in DOMAIN candidates
             /\ HasFields(fix) /\ validate_override(table, <<>>, FALSE, bill, k, fix) ->
                 apply_review_override(row, fix)
          [] OTHER -> row

\* The penalties apply without any answer.
apply_review_fixes(table, bill, candidates, fixes) ==
    {Answered(Noted(row, bill, candidates), table, bill, candidates, fixes) : row \in table}
=============================================================================
