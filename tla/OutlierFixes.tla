---------------------------- MODULE OutlierFixes ----------------------------
(***************************************************************************)
(* Phase 5: the rows detect_outliers.py holds against the projection, the  *)
(* candidates auto_triage.py has for them, and what apply_outlier_fixes.py *)
(* makes of the agent's answers.                                           *)
(*                                                                         *)
(* A finding is a record [query, key, comp]; candidates maps <<line,       *)
(* component>> to a candidate, fixes maps a line to the answer to it.      *)
(* The queries A1, A2, D and F propose nothing, or a service name only;    *)
(* core and ram stand for the services with committed-use discounts; every *)
(* line has a region.                                                      *)
(***************************************************************************)
EXTENDS ReviewFixes

\* In the order in which auto_triage.py goes through them.
Queries == <<"B", "C", "E", "G", "H", "I">>

Part(row) == Mapped(row) /\ row.comp \in {"core", "ram"}
Settled(row) == row.src \in {"no_rate", "no_catalog"}
SpecOf(row, r) == IF row.comp = "core" THEN Type(r).vcpu ELSE Type(r).ram

SpecMismatch(row, r) ==
    /\ row.strategy = "break_down" /\ Part(row) /\ HasSpecs(r)
    /\ IF row.comp = "core" THEN row.mult # SpecOf(row, r)
       ELSE row.mult \notin SpecOf(row, r) - 1 .. SpecOf(row, r) + 1

PhantomCost(table, rates, bill, row) ==
    bill[row.key].cost <= 1 /\ RowCost(table, rates, bill, row, "OnDemand") > 10

\* detect_outliers.py: a rate of zero counts in whatever region it is.
outliers(table, rates, bill) ==
    LET dom == compute_dominant_region(bill)
        Rated(row, col) == {key \in DOMAIN rates : key[1] = row.sku /\ key[2] = col}
        Cost(row, col)  == RowCost(table, rates, bill, row, col)
        Flagged(query, row, r) ==
            \/ query = "B" /\ PhantomCost(table, rates, bill, row)
            \/ query = "C" /\ Mapped(row) /\ r.cost > 50
               /\ \E key \in Rated(row, "OnDemand") : rates[key] = 0
            \/ query = "E" /\ Part(row) /\ ~Settled(row) /\ Rated(row, "Commit1Yr") = {}
            \/ query = "G" /\ SpecMismatch(row, r)
            \/ query = "H" /\ Part(row) /\ r.pm # "Spot" /\ r.cost > 10
               /\ HasCost(row, rates, r, dom) /\ Cost(row, "Commit1Yr") = Cost(row, "OnDemand")
            \/ query = "I" /\ Mapped(row) /\ ~Settled(row) /\ r.cost > 1
               /\ ~HasCost(row, rates, r, dom)
        found == {p \in {Queries[i] : i \in DOMAIN Queries} \X table : Flagged(p[1], p[2], bill[p[2].key])}
    IN  {[query |-> p[1], key |-> p[2].key, comp |-> p[2].comp] : p \in found}

\* What a query proposes.  Several propose nothing and leave it to the agent.
TriageCandidate(query, row, r, cat) ==
    LET sku == strict_resolve_sku(cat, row.name)
    IN  CASE query = "B" -> Candidate("set_multiplier", row.comp, None, 0)
          [] query = "C" /\ row.name # None /\ sku \notin {None, row.sku} ->
                 Candidate("set_sku", row.comp, sku, 0)
          [] query = "G" -> Candidate("set_multiplier", row.comp, None, SpecOf(row, r))
          [] query = "I" /\ row.sku = None -> Candidate("needs_sku", row.comp, None, 0)
          [] OTHER -> NoCandidate

\* One entry for each component of a line: a later query replaces an earlier
\* one, with its candidate or with none.
auto_triage(findings, table, bill, cats) ==
    LET Last(place) == Queries[Max({i \in DOMAIN Queries :
                           [query |-> Queries[i], key |-> place[1], comp |-> place[2]] \in findings})]
        RowAt(place) == CHOOSE row \in Rows(table, place[1]) : row.comp = place[2]
    IN  [place \in {<<f.key, f.comp>> : f \in findings} |->
            TriageCandidate(Last(place), RowAt(place), bill[place[1]], cats[bill[place[1]].region])]

-----------------------------------------------------------------------------
ALLOWED_STRATEGIES == {"map", "break_down", "passthrough", "ignore"}

Concerns(comp, row) == comp \in {None, row.comp}

apply_candidate(row, cand) ==
    CASE cand.action = "set_multiplier" /\ Concerns(cand.comp, row) -> [row EXCEPT !.mult = cand.mult]
      [] cand.action = "set_sku" /\ Concerns(cand.comp, row)        -> SetSku(row, cand.sku)
      [] OTHER -> row

\* A SKU without a strategy is mapped.
apply_override(row, fix) ==
    LET named   == IF fix.sku # None
                   THEN [row EXCEPT !.sku = fix.sku, !.name = fix.sku,
                                    !.strategy = IF fix.strategy = None THEN "map" ELSE @]
                   ELSE row
        decided == IF fix.strategy # None THEN [named EXCEPT !.strategy = fix.strategy] ELSE named
    IN  CASE ~Concerns(fix.comp, row) -> row
          [] Concerns(fix.comp, row) /\ fix.mult # Unset -> [decided EXCEPT !.mult = fix.mult]
          [] OTHER -> decided

\* The row after the answer about its line: found is the candidate of a confirmed
\* line, overridden the lines whose override passes.
Applied(row, found, overridden, fixes) ==
    CASE row.key \in DOMAIN found -> apply_candidate(row, found[row.key])
      [] row.key \in overridden    -> apply_override(row, fixes[row.key])
      [] OTHER                     -> row

\* The scope is not checked when nothing has been flagged.  Once something was
\* applied the rates of new SKUs are looked up.
apply_outlier_fixes(table, rates, bill, skus, candidates, fixes) ==
    LET Places(k) == {<<k, fixes[k].comp>>, <<k, None>>} \cap DOMAIN candidates
        Found(k)  == IF <<k, fixes[k].comp>> \in DOMAIN candidates
                     THEN candidates[<<k, fixes[k].comp>>] ELSE candidates[<<k, None>>]
        confirmed == {k \in DOMAIN fixes : /\ fixes[k].decision = "confirm"
                                           /\ Places(k) # {} /\ Found(k) # NoCandidate}
        overridden == {k \in DOMAIN fixes :
            /\ fixes[k].decision = "override"
            /\ fixes[k].strategy \in ALLOWED_STRATEGIES \cup {None}
            /\ candidates = <<>> \/ Places(k) # {}
            /\ HasFields(fixes[k]) \/ fixes[k].strategy # None
            /\ validate_override(table, rates, TRUE, bill, k, fixes[k])}
        fixed == {Applied(row, [k \in confirmed |-> Found(k)], overridden, fixes) : row \in table}
    IN  [table |-> fixed,
         rates |-> IF confirmed \cup overridden # {}
                   THEN incremental_rerate(fixed, rates, bill, skus).rates ELSE rates]
=============================================================================
