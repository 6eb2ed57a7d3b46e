--------------------------- MODULE PricingRepairs ---------------------------
(***************************************************************************)
(* validate_fix.py: what it repairs once there are rates, in phase 4 and   *)
(* again in phase 5, in its order.  Its report of what is left and the     *)
(* reset of AWS names in gcp_service are left out.                         *)
(***************************************************************************)
EXTENDS OutlierFixes

CONSTANTS
    GroupOf,            \* SKU |-> its resource group in the catalogue
    EnterpriseOf,       \* Cloud SQL Enterprise Plus SKU |-> its Enterprise counterpart
    FamilyOverrides,    \* instance types whose name settles it |-> GCP family label: those of
                        \* _GCP_FAMILY_OVERRIDES, u-*, a Graviton suffix, a burstable prefix
    CudDefault,         \* percentages [y1, y3] for a service cud_pct.json does not name
    NotCommitted        \* Compute Engine SKUs that are no CPU, RAM or GPU

\* Cloud SQL sells its own cores: no machine family has an Enterprise edition.
ASSUME EnterpriseAssumption ==
    \A f \in Families : Core(f.label) \notin DOMAIN EnterpriseOf /\ Ram(f.label) \notin DOMAIN EnterpriseOf

MAPPABLE_SERVICE_PATTERNS ==
    {"relational database service", "rds", "aurora", "elasticache", "elastic block store", "ebs",
     "data transfer", "elastic load balancing", "load balanc", "elastic compute cloud",
     "simple storage service", "s3"}

PerN == {"per million", "per thousand", "per 1,000", "per 10,000"}

\* SKUs whose counterpart in the catalogue may be known under another name.
Cataloged(skus, sku) == {s \in skus : s.desc = sku}
Siblings(skus, sku, region) ==
    LET kind == First(Cataloged(skus, sku)).kind
        like == {s \in skus : s.kind = kind /\ UnitOf[s.desc] = UnitOf[sku] /\ InRegion(s, region)}
    IN  IF Cataloged(skus, sku) = {} THEN {} ELSE like

\* First those of the same resource group, any other only if there is none.
Preferred(like, sku) ==
    LET near == {s \in like : GroupOf[s.desc] = GroupOf[sku]}
    IN  IF near = {} THEN like ELSE near

-----------------------------------------------------------------------------
(* Repairs of the mapping.                                                 *)

\* An object storage row without a name gets a storage class and is mapped,
\* ignored or carried as it may have been; it gets no SKU.
repair_null_sku_names(table, bill, group) ==
    LET Class(r) == IF s3_route_usage_type(r.usage) = "unknown" THEN Standard
                    ELSE s3_route_usage_type(r.usage)
        Nameless(row) == row.name = None /\ group[row.key] = "object_storage"
        keys == {row.key : row \in {q \in table : Nameless(q) /\ ~Intentional(q)}}
    IN  {IF row.key \in keys /\ Nameless(row)
         THEN [row EXCEPT !.name = Class(bill[row.key]), !.strategy = "map"] ELSE row : row \in table}

\* _has_usable_rate_clause.
HasUsableRate(table, rates, bill, row) ==
    /\ row.sku # None
    /\ HasCost(row, rates, bill[row.key], compute_dominant_region(bill))
    /\ RowCost(table, rates, bill, row, "OnDemand") # 0

\* A carried row of a service with a counterpart: mapped again if it has a SKU
\* and a cost, which is that of the AWS line; else the reason is made final.
repair_illegal_passthrough(table, rates, bill) ==
    LET Illegal(row) == /\ row.strategy = "passthrough"
                        /\ is_workload(bill[row.key])
                        /\ Hits(bill[row.key].product, MAPPABLE_SERVICE_PATTERNS)
                        /\ ~Intentional(row)
        Restored(row) == row.name # None /\ HasUsableRate(table, rates, bill, row)
    IN  {CASE Illegal(row) /\ Restored(row) -> [row EXCEPT !.strategy = "map"]
           [] /\ Illegal(row) /\ ~Restored(row)
              /\ row.reason \in {None, "unclassified", "unresolved_sku"} ->
                  [row EXCEPT !.reason = "no_rate_in_region"]
           [] OTHER -> row : row \in table}

downgrade_enterprise_plus(table, bill, skus) ==
    LET Sold(row) == \E s \in skus : /\ s.desc = EnterpriseOf[row.name]
                                     /\ InRegion(s, bill[row.key].region)
    IN  {IF row.name \in DOMAIN EnterpriseOf /\ row.sku # None /\ Sold(row)
         THEN [row EXCEPT !.sku = EnterpriseOf[row.name], !.name = EnterpriseOf[row.name]]
         ELSE row : row \in table}

clamp_per_n(table, bill) ==
    {IF row.mult > 1 /\ Hits(Text(bill[row.key]), PerN) THEN [row EXCEPT !.mult = 1] ELSE row :
        row \in table}

\* Every row of such a line; a row without a multiplier has 0 here.
IgnoreLines(table, keys) ==
    {IF row.key \in keys THEN [row EXCEPT !.strategy = "ignore", !.sku = None, !.mult = 0] ELSE row :
        row \in table}

BundledThroughput(r) == r.cost <= 0 /\ {"$0.00", "Mbps"} \subseteq r.op

ignore_bundled_throughput(table, bill) ==
    IgnoreLines(table, {row.key : row \in {q \in table :
        q.strategy # "ignore" /\ BundledThroughput(bill[q.key])}})

-----------------------------------------------------------------------------
(* Repairs of SKUs, which bring rates of the catalogue with them.          *)

\* rates with the catalogue's own rate of each of these SKUs, in the region of
\* the line, and with committed-use rates derived from it.
with_repaired(rates, skus, places) ==
    LET Rate(sku) == Max2(0, First(Cataloged(skus, sku)).rate)
        Cud(sku)  == IF sku \in DOMAIN CudPct THEN CudPct[sku] ELSE CudDefault
        Cols(p)   == IF p.committed THEN Columns ELSE {"OnDemand"}
        new == UNION {{<<p.sku, col, p.region>> : col \in Cols(p)} : p \in places}
    IN  [key \in DOMAIN rates \cup new |->
            CASE key \notin new -> rates[key]
              [] key \in new /\ key[2] = "OnDemand"  -> Rate(key[1])
              [] key \in new /\ key[2] = "Commit1Yr" -> (Rate(key[1]) * Cud(key[1]).y1) \div 100
              [] OTHER                               -> (Rate(key[1]) * Cud(key[1]).y3) \div 100]

gcp_family_for(r) ==
    CASE HasSpecs(r) /\ Type(r).arm -> "C4A"
      [] ~(HasSpecs(r) /\ Type(r).arm) /\ r.itype \in DOMAIN FamilyOverrides -> FamilyOverrides[r.itype]
      [] OTHER -> "N4D"

\* gcp_service is Compute Engine: the SKU is a part of one of its machines.
OfMachine(sku) == \E f \in Families : sku \in {Core(f.label), Ram(f.label)}

\* A machine part that is not of the family of the instance is moved to it.
repair_families(table, rates, bill, skus) ==
    LET Wanted(row) == IF "core" \in Words[row.sku] THEN Core(gcp_family_for(bill[row.key]))
                                                    ELSE Ram(gcp_family_for(bill[row.key]))
        Choice(row) == {s \in Siblings(skus, row.sku, bill[row.key].region) : s.desc = Wanted(row)}
        wrong == {row \in table : /\ row.strategy = "break_down" /\ Part(row)
                                  /\ OfMachine(row.sku) /\ bill[row.key].itype # None
                                  /\ \E key \in DOMAIN rates : key[1] = row.sku /\ key[2] = "OnDemand"
                                  /\ row.sku # Wanted(row) /\ Choice(row) # {}}
    IN  [table |-> {IF row \in wrong THEN [row EXCEPT !.sku = Wanted(row)] ELSE row : row \in table},
         rates |-> with_repaired(rates, skus,
                       {[sku |-> Wanted(row), region |-> bill[row.key].region, committed |-> TRUE] :
                           row \in wrong})]

\* find_regional_sku: the same SKU where it is sold in the region, else the one
\* with the most words in common.
find_regional_sku(skus, sku, region) ==
    LET near == Preferred(Siblings(skus, sku, region), sku)
        Score(s) == Cardinality(Words[s.desc] \cap Words[sku])
    IN  CASE Siblings(skus, sku, region) = {} -> None
          [] \E s \in near : s.desc = sku -> sku
          [] OTHER -> First({s \in near : \A t \in near : Score(t) <= Score(s)}).desc

\* A rate of the line's own region or a global one, whatever it is a rate for.
Reachable(rates, sku, region) ==
    \E key \in DOMAIN rates : key[1] = sku /\ key[3] \in {region, "global"}

\* A SKU without one is replaced or gets a rate; what is found is entered as
\* the on-demand rate.
repair_regions(table, rates, bill, skus) ==
    LET Region(row) == bill[row.key].region
        Better(row) == find_regional_sku(skus, row.sku, Region(row))
        stray == {row \in table : /\ Mapped(row) /\ row.sku # None
                                  /\ ~Reachable(rates, row.sku, Region(row))
                                  /\ Better(row) # None}
    IN  [table |-> {IF row \in stray THEN [row EXCEPT !.sku = Better(row)] ELSE row : row \in table},
         rates |-> with_repaired(rates, skus,
                       {[sku |-> Better(row), region |-> Region(row),
                         committed |-> Better(row) \notin NotCommitted] : row \in stray})]

-----------------------------------------------------------------------------
(* Repairs of the projection.                                              *)

ignore_phantoms(table, rates, bill) ==
    LET Costly(k) == \E row \in Rows(table, k) :
                         PhantomCost(table, rates, bill, row)
    IN  IgnoreLines(table, {row.key : row \in {q \in table :
            /\ q.strategy \notin {"ignore", "passthrough"}
            /\ is_workload(bill[q.key]) /\ Costly(q.key)}})

MutantDowngradeUnpriced(table, rates, bill) ==
    {IF Mapped(row) /\ bill[row.key].cost > 5 /\ row.sku = None
     THEN [row EXCEPT !.strategy = "passthrough", !.reason = "unresolved_sku"]
     ELSE row : row \in table}

\* A mapped row of a line that matters without a cost, or with none to speak of.
downgrade_unpriced(table, rates, bill) ==
    LET bad == {row \in table : /\ Mapped(row) /\ bill[row.key].cost > 5
                                /\ ~HasUsableRate(table, rates, bill, row)}
    IN  {IF row \in SameComponent(table, bad)
         THEN [row EXCEPT !.strategy = "passthrough", !.reason = "unresolved_sku", !.sku = None]
         ELSE row : row \in table}

\* A line the bill says nothing about cannot have been mapped, or ignored.
DetailLess(r) == r.cost > 0 /\ r.usage = {} /\ r.op = {} /\ r.unit \in {None, ""} /\ r.itype = None

downgrade_detail_less(table, bill) ==
    LET keys == {row.key : row \in {q \in table :
                    q.strategy # "passthrough" /\ DetailLess(bill[q.key])}}
    IN  {IF row.key \in keys
         THEN CapConf([row EXCEPT !.strategy = "passthrough", !.reason = "detail_less_row",
                                  !.sku = None], 20)
         ELSE row : row \in table}

\* The whole script: the mapping, the SKUs and the projection, in this order.
RepairedMapping(table, rates, bill, group, skus) ==
    ignore_bundled_throughput(
        clamp_per_n(
            downgrade_enterprise_plus(
                repair_illegal_passthrough(repair_null_sku_names(table, bill, group), rates, bill),
                bill, skus), bill), bill)

RepairedSkus(moved, bill, skus) == repair_regions(moved.table, moved.rates, bill, skus)

RepairedProjection(table, rates, bill) ==
    [table |-> downgrade_detail_less(
                   downgrade_unpriced(ignore_phantoms(table, rates, bill), rates, bill), bill),
     rates |-> rates]

Completed(found, bill) == RepairedProjection(found.table, with_cud(found.rates), bill)

validate_fix(table, rates, bill, group, skus) ==
    Completed(RepairedSkus(repair_families(RepairedMapping(table, rates, bill, group, skus),
                                           rates, bill, skus),
                           bill, skus),
              bill)
=============================================================================
