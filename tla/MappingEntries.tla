--------------------------- MODULE MappingEntries ---------------------------
(***************************************************************************)
(* What a static mapper of phase 2 says of one bill line                   *)
(* (apply_static_mappings.py): a set of mapping entries, one for each GCP  *)
(* component the line is projected to.  The empty set means that the line  *)
(* is left to the LLM.                                                     *)
(*                                                                         *)
(* cat is the catalogue as one region sees it: cat.names is the set of SKU *)
(* names that resolve there, cat.skus the SKU records of SkuCatalog and    *)
(* cat.region the region; cats maps each region to its cat.  Confidences   *)
(* are in percent.  Notes, units and the unit conversions of               *)
(* unit_multiplier are left out.                                           *)
(***************************************************************************)
EXTENDS MechanicRules, SkuCatalog

CONSTANT InstanceSpecs      \* AWS instance type |-> its record, see ComputeMappers

\* name is the SKU name asked for: the merge looks a missing SKU up by it.
Entry(comp, strategy, sku, conf, reason) ==
    [comp |-> comp, strategy |-> strategy, sku |-> sku, name |-> sku, conf |-> conf,
     reason |-> reason]

Out(comp, strategy, sku, conf) == {Entry(comp, strategy, sku, conf, None)}
Ignore(comp, conf) == Out(comp, "ignore", None, conf)
Pass(comp, conf)   == Out(comp, "passthrough", None, conf)
Llm == {}

\* resolve_sku for a plain name: the name itself stands for the SKU.
Sku(cat, name) == IF name \in cat.names THEN name ELSE None

\* "map" if sku_id else "passthrough", with one confidence or with two.
MapOr(cat, comp, name, conf, unpriced) ==
    IF name \in cat.names THEN Out(comp, "map", name, conf)
                          ELSE Out(comp, "passthrough", None, unpriced)
MapOrPass(cat, comp, name, conf) == MapOr(cat, comp, name, conf, conf)

\* _strict_resolve_sku: only what has an on-demand rate in the region itself.
Strict(cat, desc) == IF family_hourly_rate(cat.skus, desc, cat.region) # NoRate THEN desc ELSE None

MapStrict(cat, comp, desc, conf) ==
    IF Strict(cat, desc) = None THEN Out(comp, "passthrough", None, conf)
                                ELSE Out(comp, "map", desc, conf)

\* "map" whether or not the SKU resolves: the merge has to find one.
MapAlways(cat, comp, name, conf) ==
    {[Entry(comp, "map", Sku(cat, name), conf, None) EXCEPT !.name = name]}

\* _match and the loops over a routing table: the first key that occurs.
FirstIn(table, text, default) ==
    LET hit == {i \in DOMAIN table : table[i][1] \in text}
    IN  IF hit = {} THEN default
        ELSE table[CHOOSE i \in hit : \A j \in hit : i <= j][2]

\* _cheapest_same_tier_sku: the candidate with the lowest positive rate.
cheapest_same_tier(cat, candidates) ==
    LET Rate(n) == family_hourly_rate(cat.skus, n, cat.region)
        priced  == {n \in candidates : Rate(n) > 0}
    IN  IF priced = {} THEN None
        ELSE CHOOSE n \in priced : \A m \in priced : Rate(n) <= Rate(m)

MutantPricedEarlier(rows, i, priced) == \E j \in priced : j < i

\* A fee due once a month is priced by the first row of that month whose SKU
\* resolves; rows is the batch in its order, priced the rows that may price it.
PricedEarlier(rows, i, priced) == \E j \in priced : j < i /\ rows[j].month = rows[i].month
=============================================================================
