----------------------------- MODULE SkuCatalog -----------------------------
(***************************************************************************)
(* How the mapping scripts look a GCP SKU up in the bundled catalogue      *)
(* (apply_static_mappings.py): rates of machine families and GPU models,   *)
(* the choice of the cheapest one in scope, and what stands in front of    *)
(* the lookup: the availability of a family and the file of SKUs resolved  *)
(* before.  (The cache of one process only repeats a lookup.)              *)
(*                                                                         *)
(* A SKU is a record [id, desc, regions, kind, noise, rate]: desc stands   *)
(* for the description pattern that selects it, id is its place in the     *)
(* file, kind is "ondemand", "preemptible", "commit1" or "commit3", and     *)
(* noise says that the description carries a qualifier the pattern does    *)
(* not ask for.                                                            *)
(***************************************************************************)
EXTENDS Integers, Sequences

CONSTANTS
    Families,   \* [label, ord, arch, tier, workload, net, gen] with a Core and a Ram SKU
    GpuModels,  \* [model, ord, vram, paired, class]: paired is a family label
    LiveAvailability,   \* <<description, region>> |-> is it offered there today
    Phantoms,           \* known_phantom_availability: <<description, region>>
    ResolvedSkus,       \* resolved_skus.json: <<description, region>> |-> [sku, version]
    CatalogVersion      \* CATALOG_META.json; sku 0 is a cached failure

\* ord is the place of a family in the order that decides between equal costs.
ASSUME FamiliesAssumption == \A f \in Families : f.ord \in Nat

None == "none"
NoRate == -1

RankOf(net) == IF net = "high" THEN 1 ELSE 0

Core(label) == label \o " Core"
Ram(label)  == label \o " Ram"
Gpu(m)      == m.model \o " GPU"

\* Not to be had in a region although the catalogue prices it: what the live
\* sources say counts more than the list of known phantoms.
family_phantom_unavailable(desc, region) ==
    IF <<desc, region>> \in DOMAIN LiveAvailability THEN ~LiveAvailability[<<desc, region>>]
    ELSE <<desc, region>> \in Phantoms

InRegion(sku, region) == region \in sku.regions \/ "global" \in sku.regions

First(skus) == CHOOSE s \in skus : \A t \in skus : s.id <= t.id

\* _family_hourly_rate: the unit rate of the first on-demand SKU of the region.
FirstRate(hits, unavailable) == IF hits = {} \/ unavailable THEN NoRate ELSE First(hits).rate

family_hourly_rate(cat, desc, region) ==
    FirstRate({s \in cat : /\ s.desc = desc
                           /\ s.kind = "ondemand"
                           /\ ~s.noise
                           /\ InRegion(s, region)
                           /\ s.rate # NoRate},
              family_phantom_unavailable(desc, region))

MachineCost(vcpu, core, ram, gib) ==
    IF core = NoRate \/ gib = NoRate THEN NoRate ELSE vcpu * core + ram * gib

FamilyCost(cat, label, vcpu, ram, region) ==
    MachineCost(vcpu, family_hourly_rate(cat, Core(label), region),
                ram, family_hourly_rate(cat, Ram(label), region))

\* _discover_gp_families: only families with both components and a class.
discover_gp_families(cat) ==
    {f \in Families : /\ \E s \in cat : s.desc = Core(f.label)
                      /\ \E s \in cat : s.desc = Ram(f.label)}

\* cost is a function: what has no price is not among the priced.
Cheapest(priced, cost) ==
    CHOOSE f \in priced : \A g \in priced :
        cost[f] < cost[g] \/ (cost[f] = cost[g] /\ f.ord <= g.ord)

ChosenAmong(scope, cost, default, floor) ==
    LET priced  == {f \in scope : cost[f] # NoRate}
        current == {f \in priced : f.label = default.label \/ f.gen >= floor}
        best    == Cheapest(IF current = {} THEN priced ELSE current, cost)
    IN  IF priced = {}
        THEN [label |-> default.label, switched |-> FALSE, reason |-> None]
        ELSE [label    |-> best.label,
              switched |-> best.label # default.label,
              reason   |-> CASE best.label = default.label -> None
                             [] best.label # default.label /\ cost[default] # NoRate -> "cheaper"
                             [] OTHER -> "unavailable"]

\* cheapest_in_scope: the cheapest family of the allowed architectures, tiers,
\* workloads and network tier, not of an older generation than the floor unless
\* no other has a rate; the default itself when none has.
cheapest_in_scope(cat, default, vcpu, ram, region, archs, tiers, workloads, minNet, floor) ==
    ChosenAmong({f \in discover_gp_families(cat) :
                    /\ f.arch \in archs
                    /\ f.tier \in tiers
                    /\ f.workload \in workloads
                    /\ RankOf(f.net) >= RankOf(minNet)},
                [f \in Families \cup {default} |-> FamilyCost(cat, f.label, vcpu, ram, region)],
                default, floor)

\* cheapest_family: the scope is the default's own tier (a burstable default may
\* also move up) and its architecture, general workloads, any network tier.
cheapest_family(cat, default, vcpu, ram, region) ==
    cheapest_in_scope(cat, default, vcpu, ram, region, {default.arch},
                      IF default.tier = "burstable" THEN {"burstable", "sustained"}
                                                    ELSE {"sustained"},
                      {"general"}, "standard", default.gen)

WithGpus(host, count, rate) == IF rate = NoRate \/ host = NoRate THEN NoRate ELSE host + count * rate

GpuCost(cat, m, count, vcpu, ram, region) ==
    WithGpus(FamilyCost(cat, m.paired, vcpu, ram, region), count,
             family_hourly_rate(cat, Gpu(m), region))

\* _discover_gpu_models: the classified models of which some SKU can be rented.
discover_gpu_models(cat) ==
    {m \in GpuModels : \E s \in cat : s.desc = Gpu(m) /\ s.kind = "ondemand"}

\* cheapest_gpu_in_scope: never a lower class or less memory than the default.
ChosenGpu(scope, cost, default) ==
    LET priced == {m \in scope : cost[m] # NoRate}
    IN  IF priced = {} THEN default ELSE Cheapest(priced, cost)

cheapest_gpu_in_scope(cat, default, count, vcpu, ram, region) ==
    ChosenGpu({m \in discover_gpu_models(cat) : m.class >= default.class /\ m.vram >= default.vram},
              [m \in GpuModels |-> GpuCost(cat, m, count, vcpu, ram, region)],
              default)

\* lookup_sku_in_catalog: of the SKUs of the exact region, then (if allowed) of
\* the continent, one that is neither preemptible nor a noise variant, else one
\* that is not preemptible, else any.
Select(skus) ==
    LET clean == {s \in skus : s.kind # "preemptible" /\ ~s.noise}
        usual == {s \in skus : s.kind # "preemptible"}
    IN  CASE clean # {} -> First(clean)
          [] clean = {} /\ usual # {} -> First(usual)
          [] OTHER -> First(skus)

lookup_sku_in_catalog(cat, desc, region, continent) ==
    LET matches == {s \in cat : s.desc = desc}
        exact   == {s \in matches : InRegion(s, region)}
        near    == {s \in matches : s.regions \cap continent # {}}
    IN  CASE exact # {} -> Select(exact).id
          [] exact = {} /\ near # {} -> Select(near).id
          [] OTHER -> 0

\* resolve_sku: a cached SKU is returned whatever the catalogue says now; a
\* cached failure only while the catalogue has the version it was seen in.
resolve_sku(cat, desc, region, continent) ==
    LET key    == <<desc, region>>
        cached == /\ key \in DOMAIN ResolvedSkus
                  /\ ResolvedSkus[key].sku # 0 \/ ResolvedSkus[key].version = CatalogVersion
    IN  CASE family_phantom_unavailable(desc, region) -> 0
          [] ~family_phantom_unavailable(desc, region) /\ cached -> ResolvedSkus[key].sku
          [] OTHER -> lookup_sku_in_catalog(cat, desc, region, continent)

\* resolve_sku_with_fallback: the first candidate that resolves.
resolve_with_fallback(resolvable, candidates) ==
    LET hits == {i \in DOMAIN candidates : candidates[i] \in resolvable}
    IN  IF hits = {} THEN None
        ELSE candidates[CHOOSE i \in hits : \A j \in hits : i <= j]
=============================================================================
