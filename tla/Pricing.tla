------------------------------- MODULE Pricing -------------------------------
(***************************************************************************)
(* From the mapping table to the projected cost: the rate table            *)
(* (apply_rates.py, incremental_rerate.py), the projection view            *)
(* (projection_view.py) and the last gate (outlier_gate.py).               *)
(*                                                                         *)
(* rates maps <<sku, pricing type, region>> to a unit rate; tiers are      *)
(* blended already.  A bill line also has qty (total_usage), cost (amount  *)
(* billed), od (on-demand cost of the bill, NoRate when it has none) and   *)
(* licensed (a commercial operating system or database engine).            *)
(***************************************************************************)
EXTENDS MappingMerge, FiniteSetsExt

CONSTANTS
    RegionOrder,    \* the GCP regions by name
    Discounts,      \* assumptions aws_*_discount_pct: record [spot, ri1, ri3, sp]
    CudPct,         \* SKUs with a committed-use discount |-> [y1, y3], percent of the rate
    Injected,       \* rates outside the catalogue: <<sku, region>> |-> rate
    Gate            \* outlier_gate_*: [awsFloor, ratio, gcpFloor, gcpAbs, awsMax, inflation]

\* Floors, ratios and ceilings of amounts of money.
ASSUME GateAssumption ==
    Gate \in [awsFloor : Nat, ratio : Nat, gcpFloor : Nat, gcpAbs : Nat, awsMax : Nat, inflation : Nat]

DefaultRegion == "us-central1"
Columns       == {"OnDemand", "Commit1Yr", "Commit3Yr"}
PricingType   == [ondemand |-> "OnDemand", commit1 |-> "Commit1Yr", commit3 |-> "Commit3Yr"]

\* compute_dominant_region: the region of most lines, by name among equals.
compute_dominant_region(bill) ==
    LET Lines(g) == Cardinality({k \in DOMAIN bill : bill[k].region = g})
        named    == {i \in DOMAIN RegionOrder : Lines(RegionOrder[i]) > 0}
    IN  IF named = {} THEN DefaultRegion
        ELSE RegionOrder[CHOOSE i \in named : \A j \in named :
                 \/ Lines(RegionOrder[i]) > Lines(RegionOrder[j])
                 \/ Lines(RegionOrder[i]) = Lines(RegionOrder[j]) /\ i <= j]

-----------------------------------------------------------------------------
\* What a line costs on AWS at list prices.  A commitment fee is no usage.
Fee(r)       == r.lit \in {"RIFee", "SavingsPlanRecurringFee"}
                \/ Hits(Text(r), {"hourly commitment", "recurring fee", "reserved instance fee"})
Spot(r)      == r.pm = "Spot" \/ "spot" \in Text(r)
Committed(r) == r.pm \in {"Committed", "Reserved"} \/ r.lit = "DiscountedUsage"
                \/ "reserved" \in Text(r)
SavingsPlan(r) == r.lit = "SavingsPlanCoveredUsage" \/ "savings plan" \in Text(r)

\* A discount of all of the price, or more, is no divisor.
Undiscount(cost, pct) == IF pct >= 100 THEN cost ELSE (cost * 100) \div (100 - pct)

reconstructed_od(r) ==
    CASE Fee(r)                    -> r.cost
      [] ~Fee(r) /\ Spot(r)        -> Undiscount(r.cost, Discounts.spot)
      [] ~Fee(r) /\ ~Spot(r) /\ SavingsPlan(r) -> Undiscount(r.cost, Discounts.sp)
      [] ~Fee(r) /\ ~Spot(r) /\ ~SavingsPlan(r) /\ Committed(r) ->
             Undiscount(r.cost, IF "3yr" \in Text(r) THEN Discounts.ri3 ELSE Discounts.ri1)
      [] OTHER                     -> r.cost

od_cost(r) == IF r.od # NoRate THEN r.od ELSE reconstructed_od(r)

-----------------------------------------------------------------------------
\* The projection view.  A rate of the line's region, else a global one, else
\* one of the dominant region.
RateAt(rates, sku, col, region, dom) ==
    LET places == <<region, "global", dom>>
        hits   == {i \in DOMAIN places : <<sku, col, places[i]>> \in DOMAIN rates}
    IN  IF hits = {} THEN NoRate ELSE rates[<<sku, col, places[Min(hits)]>>]

MutantUnpriced(row) == ~Mapped(row)

Unpriced(row) == row.strategy \in {"passthrough", "needs_reprice"}

\* Spot lines are never priced as committed use; a SKU without a committed rate
\* keeps the on-demand one.
RowRate(rates, row, r, dom, col) ==
    LET od   == RateAt(rates, row.sku, "OnDemand", r.region, dom)
        here == RateAt(rates, row.sku, col, r.region, dom)
    IN  IF r.pm = "Spot" \/ here = NoRate THEN od ELSE here

Rows(table, k) == {row \in table : row.key = k}

HasCost(row, rates, r, dom) ==
    /\ row.strategy # "outlier_triage"
    /\ Mapped(row) => RateAt(rates, row.sku, "OnDemand", r.region, dom) # NoRate

\* passthrough_rank: of the unpriced rows of a line the first carries the AWS
\* cost of the whole line, the others nothing.
Carrier(table, row) == row = CHOOSE q \in Rows(table, row.key) : Unpriced(q)

RowCost(table, rates, bill, row, col) ==
    LET r    == bill[row.key]
        dom  == compute_dominant_region(bill)
        rate == RowRate(rates, row, r, dom, col)
    IN  CASE Unpriced(row) /\ Carrier(table, row) -> od_cost(r)
          [] Mapped(row) /\ rate # NoRate         -> r.qty * row.mult * rate
          [] OTHER                                -> 0

-----------------------------------------------------------------------------
\* apply_rates.py, before its transaction: a row without a SKU is looked up by
\* its name once more; the merge keeps only nameless ones, which never match.
resolve_null_skus(table) ==
    {IF Mapped(row) /\ row.sku = None
     THEN [row EXCEPT !.strategy = "needs_reprice", !.src = "no_rate"] ELSE row : row \in table}

skus_used(table) == {row.sku : row \in table} \ {None}

\* The rates of the catalogue: on demand and committed, never preemptible.
catalog_rates(skus, used) ==
    LET sold == {s \in skus : s.desc \in used /\ s.kind \in DOMAIN PricingType /\ s.rate # NoRate}
        At(key) == {s \in sold : /\ s.desc = key[1] /\ PricingType[s.kind] = key[2]
                                 /\ key[3] \in s.regions}
    IN  [key \in UNION {{<<s.desc, PricingType[s.kind], g>> : g \in s.regions} : s \in sold}
            |-> First(At(key)).rate]

\* Committed-use rates the catalogue does not have, from a percentage.
with_cud(rates) ==
    LET Pct(key) == IF key[2] = "Commit1Yr" THEN CudPct[key[1]].y1 ELSE CudPct[key[1]].y3
        new == {<<key[1], col, key[3]>> : key \in {q \in DOMAIN rates : q[1] \in DOMAIN CudPct
                                                                        /\ q[2] = "OnDemand"},
                                          col \in {"Commit1Yr", "Commit3Yr"}} \ DOMAIN rates
    IN  [key \in DOMAIN rates \cup new |->
            IF key \in DOMAIN rates THEN rates[key]
            ELSE (rates[<<key[1], "OnDemand", key[3]>>] * Pct(key)) \div 100]

\* A SKU without a global rate gets one: that of the dominant region, or the mean.
with_global_fallback(rates, dom) ==
    LET Regional(key) == {q \in DOMAIN rates : q[1] = key[1] /\ q[2] = key[2]}
        Mean(keys)    == MapThenSumSet(LAMBDA q : rates[q], keys) \div Cardinality(keys)
        new == {<<key[1], key[2], "global">> : key \in DOMAIN rates} \ DOMAIN rates
    IN  [key \in DOMAIN rates \cup new |->
            CASE key \in DOMAIN rates -> rates[key]
              [] key \notin DOMAIN rates /\ <<key[1], key[2], dom>> \in DOMAIN rates ->
                     rates[<<key[1], key[2], dom>>]
              [] OTHER -> Mean(Regional(key))]

\* Egress, Looker, TPU and load-balancer rates, unless there is one already.
inject_rates(rates) ==
    LET new == {<<key[1], "OnDemand", key[2]>> : key \in DOMAIN Injected} \ DOMAIN rates
    IN  [key \in DOMAIN rates \cup new |->
            IF key \in DOMAIN rates THEN rates[key] ELSE Injected[<<key[1], key[3]>>]]

known_rates(table, skus) == with_cud(catalog_rates(skus, skus_used(table)))

rate_table(table, bill, skus) ==
    inject_rates(with_global_fallback(known_rates(table, skus), compute_dominant_region(bill)))

\* flag_license_exposure: a licence that no row of the line pays for.
flag_license_exposure(table, bill) ==
    LET exposed == {row.key : row \in {q \in table :
                        /\ Mapped(q) /\ bill[q.key].licensed /\ ~q.license
                        /\ ~\E lic \in Rows(table, q.key) : lic.comp \in {"license", "sql_license"}}}
    IN  {IF row.key \in exposed THEN [CapConf(row, 50) EXCEPT !.license = TRUE] ELSE row :
            row \in table}

\* A line one of whose SKUs has no rate within reach goes to the triage, with
\* every mapped row it has.
route_unreachable(table, rates, bill) ==
    LET dom == compute_dominant_region(bill)
        lost == {row.key : row \in {q \in table :
                    /\ Mapped(q) /\ q.sku # None
                    /\ ~\E col \in Columns : RateAt(rates, q.sku, col, bill[q.key].region, dom) # NoRate}}
    IN  {IF row.key \in lost /\ Mapped(row) /\ row.sku # None
         THEN [row EXCEPT !.strategy = "outlier_triage"] ELSE row : row \in table}

\* A line that is mapped and still has no cost is carried at cost, every row of it.
reprice_null_costs(table, rates, bill) ==
    LET dom == compute_dominant_region(bill)
        null == {row.key : row \in {q \in table :
                    /\ Mapped(q) /\ bill[q.key].cost > 1 /\ ~HasCost(q, rates, bill[q.key], dom)}}
    IN  {IF row.key \in null THEN [row EXCEPT !.strategy = "needs_reprice", !.src = "no_rate"] ELSE row :
            row \in table}

\* rate_source, where no step has set it: how the row came by its price.
record_source(table, pinned) ==
    {IF row.src # None THEN row
     ELSE [row EXCEPT !.src = CASE row.strategy = "passthrough" -> "passthrough"
                                [] row.strategy = "ignore"      -> "ignored"
                                [] Mapped(row) /\ row.key \in pinned -> "exact_sku"
                                [] OTHER                        -> "unknown"] : row \in table}

\* rate_region_basis: a price that is not of the line's own region.  made is
\* the set of global rates that with_global_fallback made up.
record_region_basis(table, rates, bill, made) ==
    LET dom == compute_dominant_region(bill)
        Global(row) == {<<row.sku, col, "global">> : col \in Columns}
        Borrowed(row) == /\ Mapped(row) /\ row.sku # None /\ row.basis = None
                         /\ Global(row) \cap DOMAIN rates \subseteq made
                         /\ \/ \E col \in Columns : <<row.sku, col, dom>> \in DOMAIN rates
                            \/ Global(row) \cap made # {}
        Local(row) == \E col \in Columns : <<row.sku, col, bill[row.key].region>> \in DOMAIN rates
    IN  {CASE Borrowed(row) /\ bill[row.key].region = "global" -> [row EXCEPT !.basis = "global"]
           [] Borrowed(row) /\ bill[row.key].region # "global" /\ ~Local(row) -> [row EXCEPT !.basis = "dominant"]
           [] OTHER -> row : row \in table}

\* No catalogue: whatever is mapped is carried at cost.
NoCatalog(table) ==
    {CASE Mapped(row) ->
              [row EXCEPT !.strategy = "passthrough", !.reason = "unresolved_sku", !.src = "no_catalog"]
       [] ~Mapped(row) /\ row.src = None -> [row EXCEPT !.src = "no_catalog"]
       [] OTHER -> row : row \in table}

\* No SKU at all: nothing is priced and the rate table stays what it was.
apply_rates(table, rates, bill, skus) ==
    LET pinned   == {row.key : row \in {q \in table : Mapped(q) /\ q.sku # None}}
        resolved == resolve_null_skus(table)
        new      == rate_table(resolved, bill, skus)
        known    == known_rates(resolved, skus)
        made     == DOMAIN with_global_fallback(known, compute_dominant_region(bill)) \ DOMAIN known
        flagged  == flag_license_exposure(resolved, bill)
        reached  == route_unreachable(flagged, new, bill)
        costed   == reprice_null_costs(reached, new, bill)
    IN  CASE skus_used(resolved) = {} ->
                 [table |-> record_source(resolved, {}), rates |-> rates]
          [] skus_used(resolved) # {} /\ skus = {} ->
                 [table |-> NoCatalog(resolved), rates |-> rates]
          [] OTHER ->
                 [table |-> record_region_basis(record_source(costed, pinned), new, bill, made),
                  rates |-> new]

\* incremental_rerate.py: rates for the SKUs that have none yet.  There is no
\* global rate for them, and no row is rerouted when none fits its region.
incremental_rerate(table, rates, bill, skus) ==
    LET missing == {d \in skus_used(table) : ~\E key \in DOMAIN rates : key[1] = d}
        found   == catalog_rates(skus, missing)
        all     == [key \in DOMAIN rates \cup DOMAIN found |->
                       IF key \in DOMAIN rates THEN rates[key] ELSE found[key]]
    IN  [table |-> flag_license_exposure(table, bill),
         rates |-> IF DOMAIN found = {} THEN rates ELSE with_cud(all)]

-----------------------------------------------------------------------------
\* outlier_gate.py: a row that costs far too much is carried at the AWS cost.
Blowup(table, rates, bill, row) ==
    LET r   == bill[row.key]
        gcp == RowCost(table, rates, bill, row, "OnDemand")
    IN  \/ r.cost > Gate.awsFloor /\ gcp > Gate.ratio * r.cost /\ gcp > Gate.gcpFloor
        \/ gcp > Gate.gcpAbs /\ r.cost < Gate.awsMax
        \/ /\ row.sku \in StorageClasses /\ ~NamedStorage(r)
           /\ r.cost > Gate.awsFloor /\ gcp > Gate.inflation * r.cost

MutantOutlierGate(table, rates, bill) ==
    {IF RowCost(table, rates, bill, row, "OnDemand") > Gate.gcpAbs
     THEN [row EXCEPT !.strategy = "needs_reprice", !.reason = "clamped_outlier"] ELSE row :
        row \in table}

\* The rows that are named by the line and the component of one of hard.
SameComponent(table, hard) == {row \in table : \E q \in hard : q.key = row.key /\ q.comp = row.comp}

outlier_gate(table, rates, bill) ==
    LET dom  == compute_dominant_region(bill)
        hard == {row \in table : HasCost(row, rates, bill[row.key], dom)
                                 /\ Blowup(table, rates, bill, row)}
    IN  {IF row \in SameComponent(table, hard) THEN [row EXCEPT !.strategy = "needs_reprice", !.reason = "clamped_outlier"]
         ELSE row : row \in table}
=============================================================================
