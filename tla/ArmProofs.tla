------------------------------ MODULE ArmProofs ------------------------------
(***************************************************************************)
(* The proof that an Arm instance stays on Arm in Projection, for any      *)
(* bill, catalogue and answers of the agents, through the mappers, the     *)
(* merge, every rewrite of the table and the repairs of validate_fix.py.   *)
(***************************************************************************)
EXTENDS LineProofs

-----------------------------------------------------------------------------
(* What is to be kept.                                                     *)

Parts == {"core", "ram"}

\* The group of a line, which classify_mechanics.py sets and never changes.
Mechanic(k) ==
    classify([bill[k] EXCEPT !.discounted = \E q \in Lines : bill[q].lit = "DiscountedUsage"])

\* The Arm instances of the bill.
ArmLines ==
    {k \in Lines : Mechanic(k) \in InstanceGroups /\ HasSpecs(bill[k]) /\ Type(bill[k]).arm}

\* A part of an Arm machine, and one that the region sells by the hour.
ArmPart(sku) == \E f \in Families : f.arch = "arm" /\ sku \in {Core(f.label), Ram(f.label)}

SoldIn(catalog, sku, region) ==
    \E s \in catalog : s.desc = sku /\ s.kind = "ondemand" /\ s.rate # NoRate /\ InRegion(s, region)

Good == {p \in Lines \X {s.desc : s \in skus} :
            ArmPart(p[2]) /\ SoldIn(skus, p[2], bill[p[1]].region)}

\* Of these, what the rate table has a rate for: validate_fix.py leaves it alone.
Near(good, rs, b) == {p \in good : Reachable(rs, p[2], b[p[1]].region)}

\* A part is mapped to one of the good SKUs, under its own name, or not at all.
OnGood(row, good) ==
    row.comp \in Parts =>
        /\ row.strategy # "break_down"
        /\ IF row.sku = None THEN ~Mapped(row)
           ELSE row.name = row.sku /\ <<row.key, row.sku>> \in good

ArmIn(rows, keys, good) == \A row \in rows : row.key \in keys => OnGood(row, good)

ArmGrouped == \A k \in Lines : group[k] \in {None, Mechanic(k)}

ArmPlanned ==
    /\ \A g \in LLM_GROUPS : manifest[g] \cap ArmLines = {}
    /\ \A f \in Files : ArmIn(files[f], ArmLines, Good)

ArmTable == answers = 0 => ArmIn(table, ArmLines \ added, Good)

ArmReached ==
    recalcs = 0 /\ answers = 0 /\ status # "failed" =>
        \/ Has(todo, "apply_rates")
        \/ ArmIn(table, ArmLines \ added, Near(Good, rates, bill))

\* What repairs SKUs, or leads to it, comes behind the rates, once.
Repairing == {"validate_fix", "no_null_projected_cost", "over_and_under_projection"}

RepairsRated ==
    /\ \A x \in Repairing : NoneBehind(todo, x, "apply_rates")
    /\ recalcs # 0 => \A i \in 1 .. Len(todo) : Has(RecalculateScripts, todo[i])

ArmInv == skus \in Catalogs /\ ArmGrouped /\ ArmPlanned /\ ArmTable /\ ArmReached /\ RepairsRated

-----------------------------------------------------------------------------
(* The choice of a family.                                                 *)

\* The cheapest family, the first of them among equals, exists.
LEMMA CheapestOf ==
    ASSUME NEW priced \in SUBSET Families, priced # {}, NEW cost,
           \A f \in priced : cost[f] \in Nat
    PROVE  Cheapest(priced, cost) \in priced
<1> DEFINE costs == {cost[f] : f \in priced}
<1>1. costs \subseteq Nat /\ costs # {}
  OBVIOUS
<1>2. PICK n \in costs : \A m \in costs : n <= m
  BY <1>1, Least
<1> DEFINE least == {f \in priced : cost[f] = n}
           places == {f.ord : f \in least}
<1>3. places \subseteq Nat /\ places # {}
  BY FamiliesAssumption
<1>4. PICK o \in places : \A m \in places : o <= m
  BY <1>3, Least
<1>5. PICK f \in priced : cost[f] = n /\ f.ord = o
  OBVIOUS
<1>6. ASSUME NEW g \in priced
      PROVE  cost[f] < cost[g] \/ (cost[f] = cost[g] /\ f.ord <= g.ord)
  <2>1. cost[g] \in costs /\ n <= cost[g] /\ cost[g] \in Nat /\ n \in Nat
    BY <1>1, <1>2
  <2>2. cost[g] = n => f.ord <= g.ord
    BY <1>4, <1>5
  <2>3. QED
    BY <1>5, <2>1, <2>2
<1>7. QED
  BY <1>6 DEF Cheapest

\* An hourly rate is that of a SKU the region sells.
LEMMA RateOf ==
    ASSUME NEW catalog \in Catalogs, NEW desc, NEW region
    PROVE  /\ family_hourly_rate(catalog, desc, region) \in Nat \cup {NoRate}
           /\ family_hourly_rate(catalog, desc, region) # NoRate => SoldIn(catalog, desc, region)
<1> DEFINE hits == {s \in catalog : /\ s.desc = desc /\ s.kind = "ondemand" /\ ~s.noise
                                    /\ InRegion(s, region) /\ s.rate # NoRate}
<1>1. family_hourly_rate(catalog, desc, region)
          = FirstRate(hits, family_phantom_unavailable(desc, region))
  BY DEF family_hourly_rate
<1>2. CASE hits = {} \/ family_phantom_unavailable(desc, region)
  BY <1>1, <1>2 DEF FirstRate
<1>3. CASE hits # {} /\ ~family_phantom_unavailable(desc, region)
  <2> DEFINE ids == {s.id : s \in hits}
  <2>1. ids \subseteq Nat /\ ids # {}
    BY <1>3, CatalogsAssumption
  <2>2. PICK n \in ids : \A m \in ids : n <= m
    BY <2>1, Least
  <2>3. \E s \in hits : \A t \in hits : s.id <= t.id
    BY <2>2
  <2>4. First(hits) \in hits
    BY <2>3 DEF First
  <2>5. First(hits).rate \in Nat /\ SoldIn(catalog, desc, region)
    BY <2>4, CatalogsAssumption DEF SoldIn
  <2>6. QED
    BY <1>1, <1>3, <2>5 DEF FirstRate
<1>4. QED
  BY <1>2, <1>3

LEMMA FamilyCostOf ==
    ASSUME NEW catalog \in Catalogs, NEW label, NEW vcpu \in Nat, NEW ram \in Nat, NEW region
    PROVE  FamilyCost(catalog, label, vcpu, ram, region) \in Nat \cup {NoRate}
<1> DEFINE core == family_hourly_rate(catalog, Core(label), region)
           gib  == family_hourly_rate(catalog, Ram(label), region)
<1>1. core \in Nat \cup {NoRate} /\ gib \in Nat \cup {NoRate}
  BY RateOf
<1>2. FamilyCost(catalog, label, vcpu, ram, region) = MachineCost(vcpu, core, ram, gib)
  BY DEF FamilyCost
<1> HIDE DEF core, gib
<1>3. core # NoRate /\ gib # NoRate => vcpu * core \in Nat /\ ram * gib \in Nat
  BY <1>1
<1>4. QED
  BY <1>1, <1>2, <1>3 DEF MachineCost

\* From an Arm default the choice is an Arm family, priced or not.
LEMMA ArmChosen ==
    ASSUME NEW r, HasSpecs(r), NEW cat, cat.skus \in Catalogs, NEW default \in ArmLabels,
           NEW tiers, NEW workloads, NEW net, NEW floor
    PROVE  \E f \in Families :
               f.arch = "arm" /\ f.label = ChosenFamily(r, cat, default, tiers, workloads, net, floor)
<1> DEFINE own   == Family(default)
           cost  == [f \in Families \cup {own} |->
                        FamilyCost(cat.skus, f.label, Type(r).vcpu, Type(r).ram, cat.region)]
           scope == {f \in discover_gp_families(cat.skus) :
                        /\ f.arch \in {own.arch} /\ f.tier \in tiers /\ f.workload \in workloads
                        /\ RankOf(f.net) >= RankOf(net)}
           priced  == {f \in scope : cost[f] # NoRate}
           current == {f \in priced : f.label = own.label \/ f.gen >= floor}
           among   == IF current = {} THEN priced ELSE current
           best    == Cheapest(among, cost)
<1>1. own \in Families /\ own.label = default /\ own.arch = "arm"
  BY ArmFamiliesAssumption DEF Family
<1>2. Type(r).vcpu \in Nat /\ Type(r).ram \in Nat
  BY SpecsAssumption DEF HasSpecs, Type
<1>3. \A f \in Families : cost[f] \in Nat \cup {NoRate}
  BY <1>2, FamilyCostOf
<1>4. priced \subseteq Families /\ \A f \in priced : f.arch = "arm" /\ cost[f] # NoRate
  BY <1>1 DEF discover_gp_families
<1>5. ChosenFamily(r, cat, default, tiers, workloads, net, floor)
          = IF priced = {} THEN own.label ELSE best.label
  BY DEF ChosenFamily, cheapest_in_scope, ChosenAmong
<1> HIDE DEF cost, scope, own, best
<1>6. among \subseteq priced /\ (priced # {} => among # {})
  OBVIOUS
<1>7. priced # {} => best \in among
  <2>1. \A f \in among : cost[f] \in Nat
    BY <1>3, <1>4, <1>6
  <2> HIDE DEF priced, among
  <2>2. QED
    BY <2>1, <1>4, <1>6, CheapestOf DEF best
<1>8. QED
  BY <1>1, <1>4, <1>5, <1>6, <1>7

-----------------------------------------------------------------------------
(* What the mappers say of an Arm instance.                                *)

\* An entry for a part is mapped to what the region sells of an Arm machine,
\* under its own name, or carried without a SKU.
OnArm(e, catalog, region) ==
    e.comp \in Parts =>
        /\ e.name = e.sku
        /\ IF e.sku = None THEN e.strategy = "passthrough"
           ELSE e.strategy \in {"map", "passthrough"} /\ ArmPart(e.sku) /\ SoldIn(catalog, e.sku, region)

LEMMA CarriedOnArm ==
    ASSUME NEW comp, NEW conf, NEW reason, NEW catalog, NEW region
    PROVE  OnArm(Entry(comp, "passthrough", None, conf, reason), catalog, region)
BY DEF OnArm, Entry

LEMMA StrictOnArm ==
    ASSUME NEW cat, cat.skus \in Catalogs, NEW f \in Families, f.arch = "arm",
           NEW desc \in {Core(f.label), Ram(f.label)}, NEW comp, NEW conf
    PROVE  /\ MapStrict(cat, comp, desc, conf) # {}
           /\ \A e \in MapStrict(cat, comp, desc, conf) : OnArm(e, cat.skus, cat.region)
<1>1. CASE Strict(cat, desc) = None
  <2>1. MapStrict(cat, comp, desc, conf) = {Entry(comp, "passthrough", None, conf, None)}
    BY <1>1 DEF MapStrict, Out
  <2>2. QED
    BY <2>1, CarriedOnArm
<1>2. CASE Strict(cat, desc) # None
  <2>1. MapStrict(cat, comp, desc, conf) = {Entry(comp, "map", desc, conf, None)}
    BY <1>2 DEF MapStrict, Out
  <2>2. desc # None /\ family_hourly_rate(cat.skus, desc, cat.region) # NoRate
    BY <1>2 DEF Strict
  <2>3. SoldIn(cat.skus, desc, cat.region) /\ ArmPart(desc)
    BY <2>2, RateOf DEF ArmPart
  <2>4. QED
    BY <2>1, <2>2, <2>3 DEF OnArm, Entry
<1>3. QED
  BY <1>1, <1>2

LEMMA MachineOnArm ==
    ASSUME NEW cat, cat.skus \in Catalogs, NEW f \in Families, f.arch = "arm", NEW conf
    PROVE  /\ Machine(cat, f.label, conf) # {} /\ BothOrPass(cat, f.label, conf) # {}
           /\ \A e \in Machine(cat, f.label, conf) \cup BothOrPass(cat, f.label, conf) :
                  OnArm(e, cat.skus, cat.region)
<1>1. /\ Machine(cat, f.label, conf) # {}
      /\ \A e \in Machine(cat, f.label, conf) : OnArm(e, cat.skus, cat.region)
  BY StrictOnArm DEF Machine
<1>2. \/ BothOrPass(cat, f.label, conf) = Machine(cat, f.label, conf)
      \/ BothOrPass(cat, f.label, conf)
             = {Entry(c, "passthrough", None, conf, "family_not_available_in_region") : c \in {"core", "ram"}}
  BY DEF BothOrPass
<1>3. QED
  BY <1>1, <1>2, CarriedOnArm

LEMMA ArmFamilyChosen ==
    ASSUME NEW r, HasSpecs(r), NEW cat, cat.skus \in Catalogs,
           NEW burstable \in ArmLabels, NEW workloads
    PROVE  \E f \in Families : f.arch = "arm" /\ f.label = ArmFamily(r, cat, burstable, workloads)
BY ArmChosen DEF ArmFamily, ArmLabels

\* No handler that rents instances leaves one on Arm to the agents, or rents
\* it elsewhere.
LEMMA HandlerOnArm ==
    ASSUME NEW g \in InstanceGroups, NEW rows, NEW i, NEW cats, HasSpecs(rows[i]), Type(rows[i]).arm,
           cats[rows[i].region].skus \in Catalogs
    PROVE  LET cat == cats[rows[i].region] IN
           /\ handler(g, rows, i, cats) # {}
           /\ \A e \in handler(g, rows, i, cats) : OnArm(e, cat.skus, cat.region)
<1> DEFINE r   == rows[i]
           cat == cats[r.region]
           Fine(entries) == entries # {} /\ \A e \in entries : OnArm(e, cat.skus, cat.region)
<1> SUFFICES Fine(handler(g, rows, i, cats))
  OBVIOUS
<1>0. g \in {"compute_arm", "compute_burstable", "compute_windows", "msk", "opensearch"}
  BY DEF InstanceGroups
<1>1. \A burstable \in ArmLabels : \A workloads, conf :
          /\ Fine(Machine(cat, ArmFamily(r, cat, burstable, workloads), conf))
          /\ Fine(BothOrPass(cat, ArmFamily(r, cat, burstable, workloads), conf))
  <2>1. TAKE burstable \in ArmLabels
  <2>2. TAKE workloads, conf
  <2>3. PICK f \in Families : f.arch = "arm" /\ f.label = ArmFamily(r, cat, burstable, workloads)
    BY ArmFamilyChosen
  <2>4. QED
    BY <2>3, MachineOnArm
<1>2. "T2A" \in ArmLabels /\ "C4A" \in ArmLabels
  BY DEF ArmLabels
<1>3. CASE g = "compute_arm"
  <2>1. handler(g, rows, i, cats) = map_compute_arm(r, cat)
    BY <1>3 DEF handler
  <2>2. PICK w : map_compute_arm(r, cat) = BothOrPass(cat, ArmFamily(r, cat, "C4A", w), 82)
    BY DEF map_compute_arm
  <2>3. Fine(map_compute_arm(r, cat))
    BY <1>1, <1>2, <2>2
  <2>4. QED
    BY <2>1, <2>3
<1>4. CASE g = "compute_burstable"
  <2>1. handler(g, rows, i, cats) = map_compute_burstable(r, cat)
    BY <1>4 DEF handler
  <2>2. PICK w : map_compute_burstable(r, cat) = Machine(cat, ArmFamily(r, cat, "T2A", w), 85)
    BY DEF map_compute_burstable
  <2>3. Fine(map_compute_burstable(r, cat))
    BY <1>1, <1>2, <2>2
  <2>4. QED
    BY <2>1, <2>3
<1>5. CASE g = "msk"
  <2>1. handler(g, rows, i, cats) = map_msk(r, cat)
    BY <1>5 DEF handler
  <2>2. PICK w : map_msk(r, cat) = BothOrPass(cat, ArmFamily(r, cat, "T2A", w), 72)
    BY DEF map_msk
  <2>3. Fine(map_msk(r, cat))
    BY <1>1, <1>2, <2>2
  <2>4. QED
    BY <2>1, <2>3
<1>6. CASE g = "opensearch"
  <2>1. handler(g, rows, i, cats) = map_opensearch(r, cat)
    BY <1>6 DEF handler
  <2>2. PICK w : map_opensearch(r, cat) = Machine(cat, ArmFamily(r, cat, "T2A", w), 70)
    BY DEF map_opensearch
  <2>3. Fine(map_opensearch(r, cat))
    BY <1>1, <1>2, <2>2
  <2>4. QED
    BY <2>1, <2>3
<1>7. CASE g = "compute_windows"
  <2>1. handler(g, rows, i, cats) = map_compute_windows(r, cat)
    BY <1>7 DEF handler
  <2> DEFINE family == ChosenFamily(r, cat, "T2A", Sustained, {"general"}, "standard", Own("T2A"))
  <2>2. \E h \in Families : h.arch = "arm" /\ h.label = family
    BY ArmChosen DEF ArmLabels
  <2>3. \A conf : Fine(Machine(cat, family, conf))
    BY <2>2, MachineOnArm
  <2>4. \A e \in Out("license", "map", WINDOWS_SERVER, 82) \cup Out("sql_license", "map", SQL_SERVER, 82) :
            OnArm(e, cat.skus, cat.region)
    BY DEF Out, Entry, OnArm, Parts
  <2>5. \E sql \in {{}, Out("sql_license", "map", SQL_SERVER, 82)} :
            map_compute_windows(r, cat)
                = Machine(cat, family, 82) \cup Out("license", "map", WINDOWS_SERVER, 82) \cup sql
    BY DEF map_compute_windows
  <2>6. QED
    BY <2>1, <2>3, <2>4, <2>5
<1>8. QED
  BY <1>0, <1>3, <1>4, <1>5, <1>6, <1>7

-----------------------------------------------------------------------------
(* What the scripts do to the parts of such a line.                        *)

LEMMA MoreGood ==
    ASSUME NEW rows, NEW keys, NEW good, NEW more, ArmIn(rows, keys, good), good \subseteq more
    PROVE  ArmIn(rows, keys, more)
BY DEF ArmIn, OnGood

LEMMA ServiceClassifierArm ==
    ASSUME NEW rows, NEW b, NEW g, NEW keys, NEW good, Named(rows), ArmIn(rows, keys, good)
    PROVE  ArmIn(service_classifier(rows, b, g), keys, good)
<1> SUFFICES ASSUME NEW q \in service_classifier(rows, b, g), q.key \in keys PROVE OnGood(q, good)
  BY Zenon DEF ArmIn
<1> DEFINE rule(row) == policy(b[row.key])
           free(row) == ~is_deterministic(b, g, row.key)
           Apply(row) == CASE rule(row).mode = "review" /\ free(row) ->
                         [row EXCEPT !.strategy = "passthrough", !.sku = None, !.name = None,
                                     !.conf = rule(row).conf, !.reason = "service_policy_review"]
                  [] rule(row).mode = "ignore" /\ free(row) ->
                         [row EXCEPT !.strategy = "ignore", !.sku = None, !.name = None, !.conf = rule(row).conf]
                  [] rule(row).mode = "keep" -> CapConf(row, rule(row).conf)
                  [] OTHER -> row
<1>1. PICK row \in rows : q = Apply(row)
  BY DEF service_classifier
<1>2. DOMAIN row = RowColumns
  BY DEF Named
<1> HIDE DEF rule, free
<1>3. QED
  BY <1>1, <1>2 DEF CapConf, ArmIn, OnGood, Mapped, RowColumns

LEMMA FixStorageMisrouteArm ==
    ASSUME NEW rows, NEW b, NEW g, NEW keys, NEW good, Named(rows), ArmIn(rows, keys, good)
    PROVE  ArmIn(fix_storage_misroute(rows, b, g), keys, good)
BY DEF fix_storage_misroute, ArmIn, OnGood, Named, RowColumns, Mapped

LEMMA ReconcileCapacityArm ==
    ASSUME NEW rows, NEW b, NEW keys, NEW good, Named(rows), ArmIn(rows, keys, good)
    PROVE  ArmIn(reconcile_capacity(rows, b), keys, good)
BY DEF reconcile_capacity, ArmIn, OnGood, Named, RowColumns, Mapped

LEMMA ResolveNullSkusArm ==
    ASSUME NEW rows, NEW keys, NEW good, Named(rows), ArmIn(rows, keys, good)
    PROVE  ArmIn(resolve_null_skus(rows), keys, good)
BY DEF resolve_null_skus, ArmIn, OnGood, Named, RowColumns, Mapped

LEMMA FlagLicenseArm ==
    ASSUME NEW rows, NEW b, NEW keys, NEW good, Named(rows), ArmIn(rows, keys, good)
    PROVE  ArmIn(flag_license_exposure(rows, b), keys, good)
BY DEF flag_license_exposure, ArmIn, OnGood, Named, RowColumns, CapConf, Mapped

LEMMA RouteUnreachableArm ==
    ASSUME NEW rows, NEW rs, NEW b, NEW keys, NEW good, Named(rows), ArmIn(rows, keys, good)
    PROVE  ArmIn(route_unreachable(rows, rs, b), keys, good)
BY DEF route_unreachable, ArmIn, OnGood, Named, RowColumns, Mapped

LEMMA RepriceNullCostsArm ==
    ASSUME NEW rows, NEW rs, NEW b, NEW keys, NEW good, Named(rows), ArmIn(rows, keys, good)
    PROVE  ArmIn(reprice_null_costs(rows, rs, b), keys, good)
BY DEF reprice_null_costs, ArmIn, OnGood, Named, RowColumns, Mapped

LEMMA RecordSourceArm ==
    ASSUME NEW rows, NEW pinned, NEW keys, NEW good, Named(rows), ArmIn(rows, keys, good)
    PROVE  ArmIn(record_source(rows, pinned), keys, good)
BY DEF record_source, ArmIn, OnGood, Named, RowColumns, Mapped

LEMMA RecordRegionBasisArm ==
    ASSUME NEW rows, NEW rs, NEW b, NEW made, NEW keys, NEW good, Named(rows), ArmIn(rows, keys, good)
    PROVE  ArmIn(record_region_basis(rows, rs, b, made), keys, good)
BY DEF record_region_basis, ArmIn, OnGood, Named, RowColumns, Mapped

LEMMA NoCatalogArm ==
    ASSUME NEW rows, NEW keys, NEW good, Named(rows), ArmIn(rows, keys, good)
    PROVE  ArmIn(NoCatalog(rows), keys, good)
<1> SUFFICES ASSUME NEW new \in NoCatalog(rows), new.key \in keys
             PROVE  OnGood(new, good)
  BY DEF ArmIn
<1>1. PICK row \in rows :
          \/ Mapped(row) /\ new = [row EXCEPT !.strategy = "passthrough",
                                              !.reason = "unresolved_sku", !.src = "no_catalog"]
          \/ ~Mapped(row) /\ (new = row \/ new = [row EXCEPT !.src = "no_catalog"])
  BY DEF NoCatalog
<1>2. DOMAIN row = RowColumns
  BY DEF Named
<1>3. new.key = row.key /\ new.comp = row.comp /\ new.sku = row.sku /\ new.name = row.name
  BY <1>1, <1>2 DEF RowColumns
<1>4. \/ Mapped(row) /\ new.strategy = "passthrough"
      \/ ~Mapped(row) /\ new.strategy = row.strategy
  BY <1>1, <1>2 DEF RowColumns
<1>5. OnGood(row, good)
  BY <1>3 DEF ArmIn
<1> QED
  BY <1>3, <1>4, <1>5 DEF OnGood, Mapped

LEMMA OutlierGateArm ==
    ASSUME NEW rows, NEW rs, NEW b, NEW keys, NEW good, Named(rows), ArmIn(rows, keys, good)
    PROVE  ArmIn(outlier_gate(rows, rs, b), keys, good)
BY DEF outlier_gate, ArmIn, OnGood, Named, RowColumns, Mapped

LEMMA NullSkuNamesArm ==
    ASSUME NEW rows, NEW b, NEW g, NEW keys, NEW good, Named(rows), ArmIn(rows, keys, good),
           \A k \in keys : g[k] # "object_storage"
    PROVE  ArmIn(repair_null_sku_names(rows, b, g), keys, good)
BY DEF repair_null_sku_names, ArmIn, OnGood, Named, RowColumns, Mapped

LEMMA IllegalPassthroughArm ==
    ASSUME NEW rows, NEW rs, NEW b, NEW keys, NEW good, Named(rows), ArmIn(rows, keys, good)
    PROVE  ArmIn(repair_illegal_passthrough(rows, rs, b), keys, good)
BY DEF repair_illegal_passthrough, HasUsableRate, ArmIn, OnGood, Named, RowColumns, Mapped

\* No part of a machine has an Enterprise edition.
LEMMA EnterprisePlusArm ==
    ASSUME NEW rows, NEW b, NEW s, NEW keys, NEW good, Named(rows), ArmIn(rows, keys, good),
           \A p \in good : p[2] \notin DOMAIN EnterpriseOf
    PROVE  ArmIn(downgrade_enterprise_plus(rows, b, s), keys, good)
BY DEF downgrade_enterprise_plus, ArmIn, OnGood, Named, RowColumns, Mapped

LEMMA ClampPerNArm ==
    ASSUME NEW rows, NEW b, NEW keys, NEW good, Named(rows), ArmIn(rows, keys, good)
    PROVE  ArmIn(clamp_per_n(rows, b), keys, good)
BY DEF clamp_per_n, ArmIn, OnGood, Named, RowColumns, Mapped

LEMMA IgnoreLinesArm ==
    ASSUME NEW rows, NEW gone, NEW keys, NEW good, Named(rows), ArmIn(rows, keys, good)
    PROVE  ArmIn(IgnoreLines(rows, gone), keys, good)
BY DEF IgnoreLines, ArmIn, OnGood, Named, RowColumns, Mapped

\* Only what was broken down is moved to another family.
LEMMA FamiliesArm ==
    ASSUME NEW rows, NEW rs, NEW b, NEW s, NEW keys, NEW good, Named(rows), ArmIn(rows, keys, good)
    PROVE  ArmIn(repair_families(rows, rs, b, s).table, keys, good)
BY DEF repair_families, Part, Parts, ArmIn, OnGood, Named, RowColumns, Mapped

\* What has a rate in reach is left alone.
LEMMA RegionsArm ==
    ASSUME NEW rows, NEW rs, NEW b, NEW s, NEW keys, NEW good, Named(rows), ArmIn(rows, keys, good),
           \A p \in good : Reachable(rs, p[2], b[p[1]].region)
    PROVE  ArmIn(repair_regions(rows, rs, b, s).table, keys, good)
BY DEF repair_regions, ArmIn, OnGood, Named, RowColumns, Mapped

LEMMA UnpricedArm ==
    ASSUME NEW rows, NEW rs, NEW b, NEW keys, NEW good, Named(rows), ArmIn(rows, keys, good)
    PROVE  ArmIn(downgrade_unpriced(rows, rs, b), keys, good)
BY DEF downgrade_unpriced, ArmIn, OnGood, Named, RowColumns, Mapped

LEMMA DetailLessArm ==
    ASSUME NEW rows, NEW b, NEW keys, NEW good, Named(rows), ArmIn(rows, keys, good)
    PROVE  ArmIn(downgrade_detail_less(rows, b), keys, good)
BY DEF downgrade_detail_less, ArmIn, OnGood, Named, RowColumns, CapConf, Mapped

LEMMA SetStrategiesArm ==
    ASSUME NEW rows, NEW strategies, NEW those, NEW keys, NEW good, Named(rows), ArmIn(rows, keys, good),
           \A k \in keys \cap those : strategies[k] = "ignore"
    PROVE  ArmIn(SetStrategies(rows, strategies, those), keys, good)
BY DEF SetStrategies, ArmIn, OnGood, Named, RowColumns, Mapped

-----------------------------------------------------------------------------
(* The same of the scripts as a whole.                                     *)

\* Rows as a script leaves them behind.
Rented(rows, keys, good) == Named(rows) /\ ArmIn(rows, keys, good)

LEMMA MoreReach ==
    ASSUME NEW rs, NEW more, DOMAIN rs \subseteq DOMAIN more, NEW b, NEW good
    PROVE  /\ Near(good, rs, b) \subseteq Near(good, more, b)
           /\ (\A p \in good : Reachable(rs, p[2], b[p[1]].region)) =>
                  \A p \in good : Reachable(more, p[2], b[p[1]].region)
BY DEF Near, Reachable

\* The new rate table has a rate for every SKU in use that its region sells.
LEMMA RatesReach ==
    ASSUME NEW rows, NEW b, NEW s, NEW sku \in skus_used(rows), NEW region, SoldIn(s, sku, region)
    PROVE  Reachable(rate_table(rows, b, s), sku, region)
<1> DEFINE used == skus_used(rows)
           found == catalog_rates(s, used)
           first == with_cud(found)
           second == with_global_fallback(first, compute_dominant_region(b))
<1>1. rate_table(rows, b, s) = inject_rates(second)
  BY DEF rate_table, known_rates
<1>2. PICK t \in s : t.desc = sku /\ t.kind = "ondemand" /\ t.rate # NoRate /\ InRegion(t, region)
  BY DEF SoldIn
<1>3. PICK g \in {region, "global"} : g \in t.regions
  BY <1>2 DEF InRegion
<1>4. t.kind \in DOMAIN PricingType /\ PricingType[t.kind] = "OnDemand"
  BY <1>2 DEF PricingType
<1> DEFINE sold == {u \in s : u.desc \in used /\ u.kind \in DOMAIN PricingType /\ u.rate # NoRate}
<1>5. t \in sold
  BY <1>2, <1>4
<1>6. DOMAIN found = UNION {{<<u.desc, PricingType[u.kind], h>> : h \in u.regions} : u \in sold}
  BY DEF catalog_rates
<1> HIDE DEF sold, found, used
<1>7. <<sku, "OnDemand", g>> \in DOMAIN found
  BY <1>2, <1>3, <1>4, <1>5, <1>6
<1>8. DOMAIN found \subseteq DOMAIN first
  BY DEF with_cud
<1> HIDE DEF first
<1>9. DOMAIN first \subseteq DOMAIN second
  BY DEF with_global_fallback
<1> HIDE DEF second
<1>10. DOMAIN second \subseteq DOMAIN inject_rates(second)
  BY DEF inject_rates
<1> DEFINE key == <<sku, "OnDemand", g>>
<1>11. key \in DOMAIN rate_table(rows, b, s) /\ key[1] = sku /\ key[3] \in {region, "global"}
  BY <1>1, <1>3, <1>7, <1>8, <1>9, <1>10
<1> HIDE DEF key
<1>12. QED
  BY <1>11 DEF Reachable

LEMMA ApplyRatesArm ==
    ASSUME NEW rows, NEW rs, NEW b, NEW s, NEW keys, NEW good, Rented(rows, keys, good),
           \A p \in good : SoldIn(s, p[2], b[p[1]].region)
    PROVE  LET priced == apply_rates(rows, rs, b, s)
           IN  ArmIn(priced.table, keys, Near(good, priced.rates, b))
<1> DEFINE resolved == resolve_null_skus(rows)
           pinned   == {row.key : row \in {q \in rows : Mapped(q) /\ q.sku # None}}
           new      == rate_table(resolved, b, s)
           known    == known_rates(resolved, s)
           made     == DOMAIN with_global_fallback(known, compute_dominant_region(b)) \ DOMAIN known
           flagged  == flag_license_exposure(resolved, b)
           reached  == route_unreachable(flagged, new, b)
           costed   == reprice_null_costs(reached, new, b)
           sourced  == record_source(costed, pinned)
           used     == {p \in good : p[2] \in skus_used(resolved)}
<1>1. Rented(resolved, keys, good)
  BY ResolveNullSkusLines, ResolveNullSkusArm DEF Rented, SameLines
<1>2. Rented(resolved, keys, used)
  <2> HIDE DEF resolved
  <2>1. QED
    BY <1>1 DEF Rented, ArmIn, OnGood, skus_used
<1>3. CASE skus_used(resolved) = {}
  <2>1. apply_rates(rows, rs, b, s).table = record_source(resolved, {})
    BY <1>3 DEF apply_rates
  <2> HIDE DEF resolved
  <2>2. used \subseteq Near(good, apply_rates(rows, rs, b, s).rates, b)
    BY <1>3
  <2> HIDE DEF used
  <2>3. QED
    BY <1>2, <2>1, <2>2, RecordSourceArm, MoreGood DEF Rented
<1>4. CASE skus_used(resolved) # {} /\ s = {}
  <2>1. apply_rates(rows, rs, b, s).table = NoCatalog(resolved)
    BY <1>4 DEF apply_rates
  <2> HIDE DEF resolved
  <2>2. used \subseteq Near(good, apply_rates(rows, rs, b, s).rates, b)
    BY <1>4 DEF SoldIn
  <2> HIDE DEF used
  <2>3. QED
    BY <1>2, <2>1, <2>2, NoCatalogArm, MoreGood DEF Rented
<1>5. CASE skus_used(resolved) # {} /\ s # {}
  <2>1. /\ apply_rates(rows, rs, b, s).table = record_region_basis(sourced, new, b, made)
        /\ apply_rates(rows, rs, b, s).rates = new
    BY <1>5 DEF apply_rates
  <2>2. used \subseteq Near(good, new, b)
    BY RatesReach DEF Near
  <2> HIDE DEF resolved, pinned, new, known, made, used
  <2>3. Rented(flagged, keys, used)
    BY <1>2, FlagLicenseLines, FlagLicenseArm DEF Rented, SameLines
  <2> HIDE DEF flagged
  <2>4. Rented(reached, keys, used)
    BY <2>3, RouteUnreachableLines, RouteUnreachableArm DEF Rented, SameLines
  <2> HIDE DEF reached
  <2>5. Rented(costed, keys, used)
    BY <2>4, RepriceNullCostsLines, RepriceNullCostsArm DEF Rented, SameLines
  <2> HIDE DEF costed
  <2>6. Rented(sourced, keys, used)
    BY <2>5, RecordSourceLines, RecordSourceArm DEF Rented, SameLines
  <2> HIDE DEF sourced
  <2>7. ArmIn(record_region_basis(sourced, new, b, made), keys, used)
    BY <2>6, RecordRegionBasisArm DEF Rented
  <2>8. QED
    BY <2>1, <2>2, <2>7, MoreGood
<1>6. QED
  BY <1>3, <1>4, <1>5

\* The two repairs that a killed validate_fix.py leaves behind.
LEMMA FirstRepairsArm ==
    ASSUME NEW rows, NEW rs, NEW b, NEW g, NEW keys, NEW good, Rented(rows, keys, good),
           \A k \in keys : g[k] # "object_storage"
    PROVE  Rented(repair_illegal_passthrough(repair_null_sku_names(rows, b, g), rs, b), keys, good)
<1> DEFINE named == repair_null_sku_names(rows, b, g)
<1>1. Rented(named, keys, good)
  BY NullSkuNamesLines, NullSkuNamesArm DEF Rented, SameLines
<1> HIDE DEF named
<1>2. Rented(repair_illegal_passthrough(named, rs, b), keys, good)
  BY <1>1, IllegalPassthroughLines, IllegalPassthroughArm DEF Rented, SameLines
<1>3. QED
  BY <1>2 DEF named

LEMMA RepairedMappingArm ==
    ASSUME NEW rows, NEW rs, NEW b, NEW g, NEW s, NEW keys, NEW good, Rented(rows, keys, good),
           \A k \in keys : g[k] # "object_storage", \A p \in good : p[2] \notin DOMAIN EnterpriseOf
    PROVE  Rented(RepairedMapping(rows, rs, b, g, s), keys, good)
<1> DEFINE first   == repair_illegal_passthrough(repair_null_sku_names(rows, b, g), rs, b)
           plus    == downgrade_enterprise_plus(first, b, s)
           clamped == clamp_per_n(plus, b)
           gone    == {row.key : row \in {q \in clamped :
                          q.strategy # "ignore" /\ BundledThroughput(b[q.key])}}
<1>1. RepairedMapping(rows, rs, b, g, s) = IgnoreLines(clamped, gone)
  BY DEF RepairedMapping, ignore_bundled_throughput
<1>2. Rented(first, keys, good)
  BY FirstRepairsArm
<1> HIDE DEF first
<1>3. Rented(plus, keys, good)
  BY <1>2, EnterprisePlusLines, EnterprisePlusArm DEF Rented, SameLines
<1> HIDE DEF plus
<1>4. Rented(clamped, keys, good)
  BY <1>3, ClampPerNLines, ClampPerNArm DEF Rented, SameLines
<1> HIDE DEF clamped, gone
<1>5. Rented(IgnoreLines(clamped, gone), keys, good)
  BY <1>4, IgnoreLinesLines, IgnoreLinesArm DEF Rented, SameLines
<1>6. QED
  BY <1>1, <1>5

LEMMA RepairedProjectionArm ==
    ASSUME NEW rows, NEW rs, NEW b, NEW keys, NEW good, Rented(rows, keys, good)
    PROVE  /\ ArmIn(RepairedProjection(rows, rs, b).table, keys, good)
           /\ RepairedProjection(rows, rs, b).rates = rs
<1> DEFINE real    == ignore_phantoms(rows, rs, b)
           carried == downgrade_unpriced(real, rs, b)
<1>1. /\ RepairedProjection(rows, rs, b).table = downgrade_detail_less(carried, b)
      /\ RepairedProjection(rows, rs, b).rates = rs
  BY DEF RepairedProjection
<1>2. Rented(real, keys, good)
  BY IgnoreLinesLines, IgnoreLinesArm DEF Rented, SameLines, ignore_phantoms
<1> HIDE DEF real
<1>3. Rented(carried, keys, good)
  BY <1>2, UnpricedLines, UnpricedArm DEF Rented, SameLines
<1> HIDE DEF carried
<1>4. QED
  BY <1>1, <1>3, DetailLessArm DEF Rented

\* No repair takes a rate away.
LEMMA RepairsKeepRates ==
    ASSUME NEW rows, NEW rs, NEW b, NEW s
    PROVE  /\ DOMAIN rs \subseteq DOMAIN repair_families(rows, rs, b, s).rates
           /\ DOMAIN rs \subseteq DOMAIN repair_regions(rows, rs, b, s).rates
           /\ DOMAIN rs \subseteq DOMAIN with_cud(rs)
<1>1. \A places : DOMAIN rs \subseteq DOMAIN with_repaired(rs, s, places)
  BY DEF with_repaired
<1>2. DOMAIN rs \subseteq DOMAIN repair_families(rows, rs, b, s).rates
  BY <1>1 DEF repair_families
<1>3. DOMAIN rs \subseteq DOMAIN repair_regions(rows, rs, b, s).rates
  BY <1>1 DEF repair_regions
<1>4. DOMAIN rs \subseteq DOMAIN with_cud(rs)
  BY DEF with_cud
<1>5. QED
  BY <1>2, <1>3, <1>4

LEMMA ValidateFixArm ==
    ASSUME NEW rows, NEW rs, NEW b, NEW g, NEW s, NEW keys, NEW good, Rented(rows, keys, good),
           \A k \in keys : g[k] # "object_storage", \A p \in good : p[2] \notin DOMAIN EnterpriseOf,
           \A p \in good : Reachable(rs, p[2], b[p[1]].region)
    PROVE  /\ ArmIn(validate_fix(rows, rs, b, g, s).table, keys, good)
           /\ DOMAIN rs \subseteq DOMAIN validate_fix(rows, rs, b, g, s).rates
<1> DEFINE mapped == RepairedMapping(rows, rs, b, g, s)
           moved  == repair_families(mapped, rs, b, s)
           found  == repair_regions(moved.table, moved.rates, b, s)
           known  == with_cud(found.rates)
<1>1. validate_fix(rows, rs, b, g, s) = RepairedProjection(found.table, known, b)
  BY DEF validate_fix, Completed, RepairedSkus
<1>2. Rented(mapped, keys, good)
  BY RepairedMappingArm
<1> HIDE DEF mapped
<1>3. Rented(moved.table, keys, good) /\ DOMAIN rs \subseteq DOMAIN moved.rates
  BY <1>2, FamiliesLines, FamiliesArm, RepairsKeepRates DEF Rented, SameLines
<1> HIDE DEF moved
<1>4. \A p \in good : Reachable(moved.rates, p[2], b[p[1]].region)
  BY <1>3, MoreReach
<1>5. Rented(found.table, keys, good) /\ DOMAIN moved.rates \subseteq DOMAIN found.rates
  BY <1>3, <1>4, RegionsLines, RegionsArm, RepairsKeepRates DEF Rented, SameLines
<1> HIDE DEF found
<1>6. DOMAIN found.rates \subseteq DOMAIN known
  BY RepairsKeepRates
<1> HIDE DEF known
<1>7. /\ ArmIn(RepairedProjection(found.table, known, b).table, keys, good)
      /\ RepairedProjection(found.table, known, b).rates = known
  BY <1>5, RepairedProjectionArm
<1>8. QED
  BY <1>1, <1>3, <1>5, <1>6, <1>7

LEMMA IncrementalRerateArm ==
    ASSUME NEW rows, NEW rs, NEW b, NEW s, NEW keys, NEW good, Rented(rows, keys, good)
    PROVE  /\ ArmIn(incremental_rerate(rows, rs, b, s).table, keys, good)
           /\ DOMAIN rs \subseteq DOMAIN incremental_rerate(rows, rs, b, s).rates
<1> DEFINE missing == {d \in skus_used(rows) : ~\E key \in DOMAIN rs : key[1] = d}
           found == catalog_rates(s, missing)
           all == [key \in DOMAIN rs \cup DOMAIN found |->
                      IF key \in DOMAIN rs THEN rs[key] ELSE found[key]]
<1>1. incremental_rerate(rows, rs, b, s)
          = [table |-> flag_license_exposure(rows, b),
             rates |-> IF DOMAIN found = {} THEN rs ELSE with_cud(all)]
  BY DEF incremental_rerate
<1>2. DOMAIN rs \subseteq DOMAIN all
  OBVIOUS
<1> HIDE DEF found, all
<1>3. DOMAIN all \subseteq DOMAIN with_cud(all)
  BY RepairsKeepRates
<1>4. QED
  BY <1>1, <1>2, <1>3, FlagLicenseArm DEF Rented

\* Nobody has answered: only the penalties apply.
LEMMA ApplyReviewFixesArm ==
    ASSUME NEW rows, NEW b, NEW candidates, NEW fixes, DOMAIN fixes = {}, NEW keys, NEW good,
           Rented(rows, keys, good)
    PROVE  ArmIn(apply_review_fixes(rows, b, candidates, fixes), keys, good)
<1>1. apply_review_fixes(rows, b, candidates, fixes) = {Noted(row, b, candidates) : row \in rows}
  BY DEF apply_review_fixes, Answered
<1>2. QED
  BY <1>1 DEF Noted, Penalize, Rented, Named, RowColumns, ArmIn, OnGood, Mapped

LEMMA ApplyDirectivesArm ==
    ASSUME NEW rows, NEW keys, NEW good, Rented(rows, keys, good), NEW lines,
           NEW s \in Seq(DirectivesOf(lines, {})), NEW view,
           NEW new \in apply_directives(rows, s, view)
    PROVE  ArmIn(new, keys, good)
<1> DEFINE strategies == resolve(s, "strategy")
           fatal == {k \in {row.key : row \in rows} :
                          /\ view
                          /\ \/ k \in DOMAIN strategies /\ strategies[k] = "ignore"
                             \/ k \in DOMAIN resolve(s, "override_rate")}
           reached == {those \in SUBSET DOMAIN strategies :
                          \E last \in fatal : those \cap fatal = {last} \cap DOMAIN strategies}
<1>1. PICK those \in SUBSET DOMAIN strategies : new = SetStrategies(rows, strategies, those)
  <2>1. CASE fatal = {}
    BY <2>1 DEF apply_directives
  <2>2. CASE fatal # {}
    <3>1. new \in {SetStrategies(rows, strategies, those) : those \in reached}
      BY <2>2 DEF apply_directives
    <3>2. QED
      BY <3>1
  <2>3. QED
    BY <2>1, <2>2
<1>2. \A k \in keys \cap those : strategies[k] = "ignore"
  BY Resolved
<1>3. QED
  BY <1>1, <1>2, SetStrategiesArm DEF Rented

\* The merge keeps the SKU of a row, or carries the row.
LEMMA MergeRowArm ==
    ASSUME NEW row, DOMAIN row = MappingColumns, NEW catalog, NEW region, NEW g, NEW good,
           OnGood(row, good)
    PROVE  OnGood(merge_row(row, catalog, region, g), good)
<1> DEFINE checked == IF Mapped(row) /\ ~row.svcOk THEN Downgrade(row) ELSE row
           capped  == IF catalog = {} /\ Mapped(checked) /\ checked.sku # None
                      THEN CapConf(checked, 50) ELSE checked
           found   == resolve_intent_to_sku(catalog, capped.name, region, g, capped.comp)
           merged  == merge_row(row, catalog, region, g)
<1>1. \A r : DOMAIN r = MappingColumns /\ OnGood(r, good) =>
          /\ DOMAIN Downgrade(r) = MappingColumns /\ OnGood(Downgrade(r), good)
          /\ \A cap : DOMAIN CapConf(r, cap) = MappingColumns /\ OnGood(CapConf(r, cap), good)
  BY DEF Downgrade, CapConf, OnGood, Mapped, MappingColumns
<1>2. DOMAIN checked = MappingColumns /\ OnGood(checked, good)
  BY <1>1
<1> HIDE DEF checked
<1>3. DOMAIN capped = MappingColumns /\ OnGood(capped, good)
  BY <1>1, <1>2
<1>4. \/ merged \in {capped, Downgrade(capped)}
      \/ Mapped(capped) /\ capped.sku = None /\ merged = [capped EXCEPT !.sku = found]
  BY DEF merge_row, checked
<1> HIDE DEF capped, found, merged
<1>5. CASE merged \in {capped, Downgrade(capped)}
  BY <1>1, <1>3, <1>5 DEF merged
<1>6. CASE Mapped(capped) /\ capped.sku = None /\ merged = [capped EXCEPT !.sku = found]
  BY <1>3, <1>6 DEF OnGood, MappingColumns, merged
<1>7. QED
  BY <1>4, <1>5, <1>6

LEMMA MergeArm ==
    ASSUME NEW given, DOMAIN given = Files, \A f \in Files : FilesNamed(given[f]),
           NEW lines, NEW groups, NEW catalog, NEW keys, NEW good,
           \A f \in Files : ArmIn(given[f], keys, good)
    PROVE  ArmIn(merge_mappings(given, lines, groups, catalog), keys, good)
<1> DEFINE Clean(rows) == {merge_row(clean_row(row), catalog, lines[row.key].region, groups[row.key]) :
                              row \in {q \in rows : valid_row(q, DOMAIN lines)}}
           clean == [f \in Files |-> Clean(given[f])]
           Fine(row) == DOMAIN row = MappingColumns /\ (row.key \in keys => OnGood(row, good))
<1>1. ASSUME NEW f \in Files, NEW r \in clean[f] PROVE Fine(r)
  <2>1. PICK row \in given[f] :
            r = merge_row(clean_row(row), catalog, lines[row.key].region, groups[row.key])
    BY <1>1
  <2>2. Fine(row)
    BY DEF FilesNamed, ArmIn
  <2>3. Keeps(clean_row(row), row) /\ (row.key \in keys => OnGood(clean_row(row), good))
    BY <2>2 DEF clean_row, Keeps, MappingColumns, OnGood, Mapped
  <2>4. Keeps(r, clean_row(row))
    BY <2>1, <2>2, <2>3, MergeRowKeeps DEF Keeps
  <2>5. row.key \in keys => OnGood(r, good)
    BY <2>1, <2>2, <2>3, MergeRowArm DEF Keeps
  <2>6. QED
    BY <2>2, <2>3, <2>4, <2>5 DEF Keeps
<1>2. merge_mappings(given, lines, groups, catalog) = {Record(row) : row \in collapse(dedup(clean))}
  BY DEF merge_mappings
<1> HIDE DEF clean
<1>3. \A row \in dedup(clean) : Fine(row)
  BY <1>1 DEF dedup, Files
<1> DEFINE rows == dedup(clean)
<1> HIDE DEF rows
<1>4. \A row \in rows : Fine(row)
  BY <1>3 DEF rows
<1>5. ASSUME NEW q \in collapse(rows), q.key \in keys PROVE OnGood(q, good)
  <2> DEFINE Of(k) == {row \in rows : row.key = k}
             Whole(k) == /\ Cardinality(Of(k)) > 1
                         /\ \A row \in Of(k) : row.bd /\ row.strategy = "passthrough"
  <2>1. PICK row \in rows :
            q = IF Whole(row.key)
                THEN [(CHOOSE first \in Of(row.key) : TRUE) EXCEPT !.comp = None, !.mult = 1, !.bd = FALSE]
                ELSE row
    BY DEF collapse
  <2>2. PICK chosen \in rows : chosen = (CHOOSE first \in Of(row.key) : TRUE)
    <3>1. (CHOOSE first \in Of(row.key) : TRUE) \in Of(row.key)
      OBVIOUS
    <3>2. QED
      BY <3>1
  <2>3. [chosen EXCEPT !.comp = None, !.mult = 1, !.bd = FALSE].comp = None
    BY <1>4 DEF MappingColumns
  <2>4. q = row \/ q.comp = None
    BY <2>1, <2>2, <2>3
  <2>5. QED
    BY <1>4, <1>5, <2>4 DEF OnGood, Parts, None
<1>6. QED
  BY <1>2, <1>5 DEF ArmIn, OnGood, Record, Mapped, rows

-----------------------------------------------------------------------------
(* An Arm instance, from the bill to the mapping files.                    *)

LEMMA CatsOf ==
    ASSUME NEW region \in DOMAIN Continent
    PROVE  Cats[region].skus = skus /\ Cats[region].region = region
BY DEF Cats

\* A row of a mapping file for a line of the bill, made of an entry for it.
LEMMA EntryOnGood ==
    ASSUME NEW k \in Lines, NEW r, NEW g, NEW e, OnArm(e, skus, bill[k].region)
    PROVE  OnGood(MappingRow(k, r, g, e), Good)
<1> DEFINE row == MappingRow(k, r, g, e)
<1>1. /\ row.key = k /\ row.comp = e.comp /\ row.strategy = e.strategy
      /\ row.sku = e.sku /\ row.name = e.name
  BY DEF MappingRow
<1> HIDE DEF row
<1>2. SUFFICES ASSUME e.comp \in Parts
               PROVE  /\ row.strategy # "break_down"
                      /\ IF row.sku = None THEN ~Mapped(row)
                         ELSE row.name = row.sku /\ <<row.key, row.sku>> \in Good
  BY <1>1 DEF OnGood, row
<1>3. CASE e.sku = None
  BY <1>1, <1>2, <1>3 DEF OnArm, Mapped
<1>4. CASE e.sku # None
  <2>1. /\ e.name = e.sku /\ e.strategy \in {"map", "passthrough"}
        /\ ArmPart(e.sku) /\ SoldIn(skus, e.sku, bill[k].region)
    BY <1>2, <1>4 DEF OnArm
  <2>2. e.sku \in {s.desc : s \in skus}
    BY <2>1 DEF SoldIn
  <2>3. <<k, e.sku>> \in Good
    BY <2>1, <2>2 DEF Good
  <2>4. QED
    BY <1>1, <1>4, <2>1, <2>3
<1>5. QED
  BY <1>3, <1>4

LEMMA HandlerArm ==
    ASSUME DataTyped, skus \in Catalogs, ArmGrouped, NEW g \in STATIC_GROUPS,
           NEW h, h = run_handler(bill, group, g, Cats)
    PROVE  ArmIn(h.rows, ArmLines, Good) /\ h.llm \cap ArmLines = {}
<1> DEFINE rows == Batch(bill, group, g)
           entries == BatchEntries(g, rows, Cats)
<1>1. h = HandlerResult(rows, g, entries)
  BY DEF run_handler
<1>2. \A i \in DOMAIN rows : i \in Lines /\ group[i] = g /\ rows[i] = bill[i]
  BY DEF Batch, Lines
<1>3. ASSUME NEW i \in DOMAIN rows, i \in ArmLines
      PROVE  entries[i] # {} /\ \A e \in entries[i] : OnArm(e, skus, bill[i].region)
  <2>1. g \in InstanceGroups /\ HasSpecs(rows[i]) /\ Type(rows[i]).arm
    <3>1. g = Mechanic(i)
      BY <1>2, <1>3, OtherGroups DEF ArmGrouped
    <3>2. QED
      BY <1>2, <1>3, <3>1 DEF ArmLines
  <2>2. bill[i].region \in DOMAIN Continent
    BY <1>2, <1>3, RegionsAssumption DEF DataTyped, PlanTyped, Lines
  <2>3. Cats[rows[i].region].skus = skus /\ Cats[rows[i].region].region = bill[i].region
    BY <1>2, <1>3, <2>2, CatsOf
  <2> HIDE DEF rows
  <2>4. /\ handler(g, rows, i, Cats) # {}
        /\ \A e \in handler(g, rows, i, Cats) : OnArm(e, skus, bill[i].region)
    BY <2>1, <2>3, HandlerOnArm
  <2>5. mapper_error # {} /\ \A e \in mapper_error : OnArm(e, skus, bill[i].region)
    BY DEF mapper_error, Entry, OnArm, Parts, None
  <2>6. entries[i] \in {mapper_error, handler(g, rows, i, Cats)}
    BY <1>3 DEF BatchEntries
  <2>7. QED
    BY <2>4, <2>5, <2>6
<1> HIDE DEF rows, entries
<1>4. /\ h.rows = UNION {{MappingRow(i, rows[i], g, e) : e \in entries[i]} : i \in DOMAIN rows}
      /\ h.llm = {i \in DOMAIN rows : entries[i] = Llm}
  BY <1>1 DEF HandlerResult
<1>5. ASSUME NEW row \in h.rows, row.key \in ArmLines PROVE OnGood(row, Good)
  <2>1. PICK i \in DOMAIN rows : \E e \in entries[i] : row = MappingRow(i, rows[i], g, e)
    BY <1>4
  <2>2. PICK e \in entries[i] : row = MappingRow(i, rows[i], g, e)
    BY <2>1
  <2>3. row.key = i
    BY <2>2 DEF MappingRow
  <2>4. OnArm(e, skus, bill[i].region)
    BY <1>3, <1>5, <2>3
  <2>5. QED
    BY <1>2, <2>2, <2>4, EntryOnGood
<1>6. h.llm \cap ArmLines = {}
  BY <1>3, <1>4 DEF Llm
<1>7. QED
  BY <1>5, <1>6 DEF ArmIn

LEMMA ArmFixed ==
    ASSUME bill' = bill, skus' = skus
    PROVE  /\ Lines' = Lines /\ ArmLines' = ArmLines /\ Good' = Good
           /\ \A k : Mechanic(k)' = Mechanic(k)
<1>1. Lines' = Lines
  BY DEF Lines
<1>2. \A k : Mechanic(k)' = Mechanic(k)
  BY <1>1 DEF Mechanic
<1>3. ArmLines' = ArmLines
  BY <1>1, <1>2 DEF ArmLines
<1>4. Good' = Good
  BY <1>1 DEF Good
<1>5. QED
  BY <1>1, <1>2, <1>3, <1>4

LEMMA ArmOther == ArmLines \subseteq Lines /\ \A k \in ArmLines : Mechanic(k) \notin LLM_GROUPS
BY DEF ArmLines, InstanceGroups, LLM_GROUPS

\* classify_mechanics.py groups a line by what the bill says of it, and by that alone.
LEMMA ClassifyMechanic ==
    ASSUME Classify
    PROVE  \E groups : /\ Grouped(groups, TrustedLines(groups))
                       /\ \A k \in Lines : groups[k] = Mechanic(k)
BY DEF Classify, Mechanic

LEMMA ArmGroupedStep ==
    ASSUME ArmGrouped, [Next]_vars
    PROVE  ArmGrouped'
<1>1. bill' = bill /\ skus' = skus
  BY ChangedBy, ChangedElsewhere DEF inputVars
<1>2. Lines' = Lines /\ \A k : Mechanic(k)' = Mechanic(k)
  BY <1>1, ArmFixed
<1>3. CASE Classify
  <2>1. \A k \in Lines : group'[k] = Mechanic(k)
    BY <1>3, ClassifyMechanic DEF Grouped
  <2>2. QED
    BY <1>2, <2>1 DEF ArmGrouped
<1>4. CASE ~Classify
  <2>1. group' = group
    BY <1>4, ChangedBy, ChangedElsewhere
       DEF planVars, ApplyCommitmentIgnores, ApplyStaticMappings, MappingAgent
  <2>2. QED
    BY <1>2, <2>1 DEF ArmGrouped
<1>5. QED
  BY <1>3, <1>4

LEMMA ArmPlannedStep ==
    ASSUME DataTyped, skus \in Catalogs, ArmGrouped, ArmPlanned, [Next]_vars
    PROVE  ArmPlanned'
<1>1. bill' = bill /\ skus' = skus
  BY ChangedBy, ChangedElsewhere DEF inputVars
<1>2. ArmLines' = ArmLines /\ Good' = Good
  BY <1>1, ArmFixed
<1> SUFFICES /\ \A g \in LLM_GROUPS : manifest'[g] \cap ArmLines = {}
             /\ \A f \in Files : ArmIn(files'[f], ArmLines, Good)
  BY <1>2 DEF ArmPlanned
<1>3. \A f \in Files : \A row \in files[f] : row.key \in ArmLines => OnGood(row, Good)
  BY DEF ArmPlanned, ArmIn
<1>4. ASSUME NEW new, \A f \in Files : \A row \in new[f] : row \in files[f] \/ row.key \notin ArmLines
      PROVE  \A f \in Files : ArmIn(new[f], ArmLines, Good)
  BY <1>3, <1>4 DEF ArmIn
<1>5. CASE UNCHANGED planVars
  BY <1>5 DEF ArmPlanned, planVars
<1>6. CASE Classify
  <2>1. PICK groups : /\ Grouped(groups, TrustedLines(groups))
                      /\ \A k \in Lines : groups[k] = Mechanic(k)
    BY <1>6, ClassifyMechanic
  <2>2. \A g \in LLM_GROUPS : manifest'[g] \subseteq {k \in Lines : groups[k] = g}
    BY <2>1 DEF Grouped
  <2>3. \A g \in LLM_GROUPS : manifest'[g] \cap ArmLines = {}
    BY <2>1, <2>2, ArmOther
  <2>4. ASSUME NEW f \in Files, NEW row \in files'[f] PROVE row \in files[f] \/ row.key \notin ArmLines
    <3>1. SUFFICES ASSUME row \notin files[f] PROVE row.key \notin ArmLines
      OBVIOUS
    <3>2. PICK k \in TrustedLines(groups) : row = Keyed(k, trusted[bill[k].canonical])
      BY <2>1, <2>4, <3>1 DEF Grouped, DataTyped, PlanTyped
    <3>3. bill[k].canonical \in DOMAIN trusted /\ groups[k] = "misc"
      BY <3>2 DEF TrustedLines
    <3>4. DOMAIN trusted[bill[k].canonical] = MappingColumns
      BY <3>3 DEF DataTyped, PlanTyped
    <3>5. row.key = k
      BY <3>2, <3>4, KeyedNamed
    <3>6. "misc" \in LLM_GROUPS
      BY DEF LLM_GROUPS
    <3>7. QED
      BY <2>1, <3>3, <3>5, <3>6, ArmOther
  <2>5. QED
    BY <1>4, <2>3, <2>4
<1>7. CASE ApplyCommitmentIgnores
  <2>1. manifest' = manifest
    BY <1>7 DEF ApplyCommitmentIgnores
  <2>2. \A k : OnGood(IgnoreRow(k), Good)
    BY DEF OnGood, IgnoreRow, Parts, None
  <2>3. ASSUME NEW f \in Files, NEW row \in files'[f] PROVE row \in files[f] \/ OnGood(row, Good)
    BY <1>7, <2>2, <2>3 DEF ApplyCommitmentIgnores
  <2>4. QED
    BY <1>3, <2>1, <2>3 DEF ArmPlanned, ArmIn
<1>8. CASE ApplyStaticMappings
  <2>1. PICK groups : files' = StaticFiles(Handled, groups) /\ groups \subseteq DOMAIN Handled
    BY <1>8 DEF ApplyStaticMappings
  <2>2. ASSUME NEW g \in DOMAIN Handled
        PROVE  ArmIn(Handled[g].rows, ArmLines, Good) /\ Handled[g].llm \cap ArmLines = {}
    <3>1. g \in STATIC_GROUPS /\ Handled[g] = run_handler(bill, group, g, Cats)
      BY DEF Handled
    <3>2. QED
      BY <3>1, HandlerArm
  <2>3. \A f \in Files : ArmIn(files'[f], ArmLines, Good)
    BY <2>1, <2>2 DEF StaticFiles, ArmPlanned
  <2>4. manifest' \in {manifest, Pruned(Handled)}
    BY <1>8 DEF ApplyStaticMappings
  <2>5. ASSUME NEW g \in LLM_GROUPS PROVE Pruned(Handled)[g] \cap ArmLines = {}
    <3>1. manifest["misc"] \cap ArmLines = {}
      BY DEF ArmPlanned, LLM_GROUPS
    <3>2. QED
      BY <2>2, <3>1 DEF Pruned
  <2>6. QED
    BY <2>3, <2>4, <2>5 DEF ArmPlanned
<1>9. CASE MappingAgent
  <2>1. manifest' = manifest
    BY <1>9 DEF MappingAgent
  <2>2. PICK drafts \in [UNION {manifest[g] : g \in LLM_GROUPS} -> Drafts] :
        \E cleared : files' = [g \in Files |->
            CASE g \in LLM_GROUPS /\ manifest[g] # {} ->
                     UNION {{Keyed(k, d) : d \in drafts[k]} : k \in manifest[g]}
              [] g \in cleared -> {}
              [] OTHER -> files[g]]
    BY <1>9 DEF MappingAgent
  <2>3. ASSUME NEW g \in LLM_GROUPS, NEW k \in manifest[g], NEW d \in drafts[k]
        PROVE  Keyed(k, d).key \notin ArmLines
    <3>1. DOMAIN d = MappingColumns
      BY <2>2, DraftsAssumption
    <3>2. QED
      BY <3>1, KeyedNamed DEF ArmPlanned
  <2>4. \A f \in Files : \A row \in files'[f] : row \in files[f] \/ row.key \notin ArmLines
    BY <2>2, <2>3
  <2>5. QED
    BY <1>4, <2>1, <2>4 DEF ArmPlanned
<1>10. QED
  BY <1>5, <1>6, <1>7, <1>8, <1>9, ChangedBy, ChangedElsewhere

-----------------------------------------------------------------------------
(* An Arm instance, from the mapping files to the report.                  *)

\* Lines that the agent of the retry has mapped remain so.
LEMMA AddedStays == ASSUME IInv, CInv, RunScript PROVE added \subseteq added'
<1>1. CASE RetryAgent
  <2>1. At("mapping_coverage") /\ todo \in Seq(ScriptNames)
    BY <1>1 DEF RetryAgent, CoverageGate, IInv, PlanOrdered, Ordered
  <2>2. todo # <<>> /\ todo[1] = "mapping_coverage"
    BY <2>1, AtFirst DEF IInv, PlanOrdered
  <2>3. 1 \in 1 .. Len(todo)
    BY <2>1, <2>2, TailOf
  <2>4. Has(todo, "mapping_coverage")
    BY <2>2, <2>3 DEF Has
  <2>5. QED
    BY <2>4 DEF CInv, ToldOnce
<1>2. QED
  BY <1>1, ChangedBy

\* Whoever has not been answered has never been.
LEMMA UnansweredBefore == ASSUME DataTyped, RunScript, answers' = 0 PROVE answers = 0
<1>1. answers \in Nat
  BY BoundsAssumption DEF DataTyped, Counted
<1>2. \/ answers' = answers \/ answers' = answers + 1
      \/ \E fixes \in Written : answers' = answers + Cardinality(DOMAIN fixes)
  BY ChangedBy DEF ReviewAgent, TriageAgent, NoIllegalPassthroughs, NoNullProjectedCost,
     OverAndUnderProjection, SoftGate
<1>3. ASSUME NEW fixes \in Written PROVE Cardinality(DOMAIN fixes) \in Nat
  <2>1. IsFiniteSet(DOMAIN fixes)
    BY WrittenOf, LinesFinite, FS_Subset DEF DataTyped, PlanTyped
  <2>2. QED
    BY <2>1, FS_CardinalityType
<1>4. QED
  BY <1>1, <1>2, <1>3

\* A script of a job in which no agent has answered leaves every part on Arm.
LEMMA ArmRun ==
    ASSUME IInv, DataTyped, ArmGrouped, ArmPlanned, RunScript, LedgerIgnores', Told = {}, Told' = {},
           answers' = 0, added \subseteq added',
           NEW good \in SUBSET Good, ArmIn(table, ArmLines \ added, good), MergeMappings => good = Good,
           ValidateFix => \A p \in good : Reachable(rates, p[2], bill[p[1]].region)
    PROVE  ArmIn(table', ArmLines \ added', good)
<1> DEFINE keys == ArmLines \ added'
<1>1. keys \subseteq ArmLines /\ keys \cap added' = {} /\ keys \subseteq Lines
  BY ArmOther
<1>2. Rented(table, keys, good)
  BY DEF Rented, IInv, FlowTyped, ArmIn
<1> HIDE DEF keys
<1> SUFFICES ArmIn(table', keys, good)
  BY DEF keys
<1>3. \A k \in keys : group[k] # "object_storage"
  BY <1>1 DEF ArmGrouped, ArmLines, InstanceGroups, None
<1>4. \A p \in good : p[2] \notin DOMAIN EnterpriseOf
  BY EnterpriseAssumption DEF Good, ArmPart
<1>5. \A p \in good : SoldIn(skus, p[2], bill[p[1]].region)
  BY DEF Good
<1>6. DOMAIN review.fixes = {} /\ DOMAIN triage.fixes = {}
  BY DEF Told
<1>7. ASSUME table' = table PROVE ArmIn(table', keys, good)
  BY <1>2, <1>7 DEF Rented
<1>8. CASE \/ ScriptFails \/ Classify \/ ApplyCommitmentIgnores \/ ApplyStaticMappings
           \/ MappingAgent \/ MappingAgentBlocked \/ MergeMappingsRollsBack \/ DirectivesFromLegacy
           \/ GateNotEvaluated \/ CoveragePasses \/ RetryAgentBlocked \/ CoverageAfterRetry
           \/ CoverageAtLast
           \/ AutoReview \/ ReviewAgent \/ ReviewAgentBlocked \/ NoIllegalPassthroughsBlocked
           \/ NoNullProjectedCostBlocked \/ DetectOutliers \/ AutoTriage \/ TriageAgent
           \/ TriageAgentBlocked \/ OverAndUnderProjectionBlocked \/ Finish
  <2>1. table' = table
    BY <1>8 DEF ScriptFails, Classify, ApplyCommitmentIgnores, ApplyStaticMappings, MappingAgent,
                MappingAgentBlocked, MergeMappingsRollsBack, DirectivesFromLegacy, GateNotEvaluated,
                CoveragePasses, RetryAgentBlocked, CoverageAfterRetry, CoverageAtLast, AutoReview, ReviewAgent,
                ReviewAgentBlocked, NoIllegalPassthroughsBlocked, NoNullProjectedCostBlocked,
                DetectOutliers, AutoTriage, TriageAgent, TriageAgentBlocked,
                OverAndUnderProjectionBlocked, Finish, SoftGateBlocked, AgentBlocked, tableVars
  <2>2. QED
    BY <1>7, <2>1
<1>9. CASE NoIllegalPassthroughs \/ NoNullProjectedCost \/ OverAndUnderProjection
  <2>1. answers \in Nat
    BY BoundsAssumption DEF DataTyped, Counted
  <2>2. table' = table
    BY <1>9, <2>1, GateUnanswered DEF NoIllegalPassthroughs, NoNullProjectedCost, OverAndUnderProjection
  <2>3. QED
    BY <1>7, <2>2
<1>10. CASE MergeMappings
  <2>1. table' = merge_mappings(files, bill, group, skus)
    BY <1>10 DEF MergeMappings
  <2>2. /\ DOMAIN files = Files /\ \A f \in Files : FilesNamed(files[f])
        /\ \A f \in Files : ArmIn(files[f], keys, Good)
    BY <1>1 DEF DataTyped, PlanTyped, ArmPlanned, ArmIn
  <2>3. QED
    BY <1>10, <2>1, <2>2, MergeArm
<1>11. CASE ServiceClassifier
  BY <1>2, <1>11, ServiceClassifierArm DEF ServiceClassifier, Rewrite, Rented
<1>12. CASE FixStorageMisroute
  BY <1>2, <1>12, FixStorageMisrouteArm DEF FixStorageMisroute, Rewrite, Rented
<1>13. CASE ReconcileCapacity
  BY <1>2, <1>13, ReconcileCapacityArm DEF ReconcileCapacity, Rewrite, Rented
<1>14. CASE ApplyDirectives
  <2>1. table' \in apply_directives(table, ledger', Projected)
    BY <1>14 DEF ApplyDirectives
  <2>2. ledger' \in Seq(DirectivesOf(Lines', {}))
    BY DEF LedgerIgnores
  <2>3. QED
    BY <1>2, <2>1, <2>2, ApplyDirectivesArm
<1>15. CASE RetryAgent
  <2>1. PICK rows : table' = table \cup rows /\ added' = {row.key : row \in rows}
    BY <1>15 DEF RetryAgent
  <2>2. \A row \in rows : row.key \notin keys
    BY <1>1, <2>1
  <2>3. QED
    BY <1>2, <2>1, <2>2 DEF Rented, ArmIn
<1>16. CASE EnsureFullCoverage
  <2>1. table' = table \cup {Backstop(k) : k \in Lines \ Covered}
    BY <1>16 DEF EnsureFullCoverage, Rewrite
  <2>2. \A k : OnGood(Backstop(k), good)
    BY DEF OnGood, Backstop, Record, IgnoreRow, Parts, None
  <2>3. QED
    BY <1>2, <2>1, <2>2 DEF Rented, ArmIn
<1>17. CASE ApplyReviewFixes
  BY <1>2, <1>6, <1>17, ApplyReviewFixesArm DEF ApplyReviewFixes, Rewrite
<1>18. CASE ApplyRates
  <2>1. table' = apply_rates(table, rates, bill, skus).table
    BY <1>18 DEF ApplyRates, Reprice
  <2>2. ArmIn(table', keys, Near(good, apply_rates(table, rates, bill, skus).rates, bill))
    BY <1>2, <1>5, <2>1, ApplyRatesArm
  <2>3. \A rs : Near(good, rs, bill) \subseteq good
    BY DEF Near
  <2>4. QED
    BY <2>2, <2>3, MoreGood
<1>19. CASE IncrementalRerate
  BY <1>2, <1>19, IncrementalRerateArm DEF IncrementalRerate, Reprice
<1>20. CASE ValidateFix
  <2>1. table' = validate_fix(table, rates, bill, group, skus).table
    BY <1>20 DEF ValidateFix, Reprice
  <2>2. QED
    BY <1>2, <1>3, <1>4, <1>20, <2>1, ValidateFixArm
<1>21. CASE ValidateFixDies
  <2>1. table' = repair_illegal_passthrough(repair_null_sku_names(table, bill, group), rates, bill)
    BY <1>21 DEF ValidateFixDies
  <2>2. QED
    BY <1>2, <1>3, <2>1, FirstRepairsArm DEF Rented
<1>22. CASE ApplyOutlierFixes
  <2>1. \A candidates, fixes :
            DOMAIN fixes = {} =>
                apply_outlier_fixes(table, rates, bill, skus, candidates, fixes).table = table
    BY NothingFixed
  <2>2. table' = table
    BY <1>6, <1>22, <2>1 DEF ApplyOutlierFixes, Reprice
  <2>3. QED
    BY <1>7, <2>2
<1>23. CASE OutlierGate
  BY <1>2, <1>23, OutlierGateArm DEF OutlierGate, Rewrite, Rented
<1>24. QED
  BY <1>8, <1>9, <1>10, <1>11, <1>12, <1>13, <1>14, <1>15, <1>16, <1>17, <1>18, <1>19,
     <1>20, <1>21, <1>22, <1>23 DEF RunScript

-----------------------------------------------------------------------------
(* The plan: the repairs come behind the rates.                            *)

LEMMA MildSteps ==
    /\ \A on \in BOOLEAN : Free(PostMapping(on), Repairing) /\ Free(PostReview(on), Repairing)
    /\ Free(RecalculateScripts, Repairing)
<1> DEFINE merged == <<"merge_mappings", "service_classifier", "fix_storage_misroute">>
           capped == <<"reconcile_capacity">>
           again  == <<"classify_mechanics", "apply_commitment_ignores", "apply_static_mappings",
                       "merge_mappings", "service_classifier", "apply_rates">>
<1>1. /\ merged \in Seq(ScriptNames) /\ capped \in Seq(ScriptNames) /\ again \in Seq(ScriptNames)
      /\ ByDirectives \in Seq(ScriptNames) /\ <<>> \in Seq(ScriptNames)
  BY Tuples DEF ByDirectives, ScriptNames
<1>2. /\ Free(merged, Repairing) /\ Free(capped, Repairing) /\ Free(again, Repairing)
      /\ Free(ByDirectives, Repairing) /\ Free(<<>>, Repairing)
      /\ Free(<<"apply_review_fixes">>, Repairing)
  BY DEF ByDirectives, Free, Repairing
<1>3. \A on : PostMapping(on) = (merged \o (IF on THEN ByDirectives ELSE <<>>)) \o capped
  BY Zenon DEF PostMapping
<1>4. RecalculateScripts = again \o ByDirectives
  BY Zenon DEF RecalculateScripts
<1> HIDE DEF merged, capped, again
<1>5. Free(RecalculateScripts, Repairing)
  BY <1>1, <1>2, <1>4, FreeConcat
<1>6. ASSUME NEW on \in BOOLEAN PROVE Free(PostMapping(on), Repairing)
  <2> DEFINE told == IF on THEN ByDirectives ELSE <<>>
  <2>1. told \in Seq(ScriptNames) /\ Free(told, Repairing)
    BY <1>1, <1>2
  <2>2. PostMapping(on) = (merged \o told) \o capped
    BY <1>3
  <2> HIDE DEF told
  <2>3. merged \o told \in Seq(ScriptNames) /\ Free(merged \o told, Repairing)
    BY <1>1, <1>2, <2>1, FreeConcat
  <2> DEFINE both == merged \o told
  <2>4. both \in Seq(ScriptNames) /\ Free(both, Repairing) /\ PostMapping(on) = both \o capped
    BY <2>2, <2>3
  <2> HIDE DEF both
  <2>5. QED
    BY <1>1, <1>2, <2>4, FreeConcat
<1>7. \A on \in BOOLEAN : Free(PostReview(on), Repairing)
  BY <1>2 DEF PostReview
<1>8. QED
  BY <1>5, <1>6, <1>7

LEMMA RatedInit == ASSUME Init PROVE RepairsRated
<1>1. layer \in BOOLEAN /\ todo = Pipeline(layer) /\ recalcs = 0
  BY BoundsAssumption DEF Init
<1> DEFINE a == <<"classify_mechanics", "apply_commitment_ignores", "apply_static_mappings",
                  "mapping_agent">>
           b == <<"mapping_coverage", "auto_review", "review_agent">>
           c == <<"no_illegal_passthroughs", "apply_rates">>
           d == <<"no_null_projected_cost", "detect_outliers", "auto_triage",
                  "incremental_rerate", "triage_agent">>
           e == <<"over_and_under_projection">>
           p0 == a \o PostMapping(layer)
           p1 == p0 \o b
           p2 == p1 \o PostReview(layer)
           p3 == p2 \o c
           p4 == p3 \o PostRates
           p5 == p4 \o d
           p6 == p5 \o PostTriage(layer)
<1>2. /\ a \in Seq(ScriptNames) /\ b \in Seq(ScriptNames) /\ c \in Seq(ScriptNames)
      /\ d \in Seq(ScriptNames) /\ e \in Seq(ScriptNames)
  BY Tuples DEF ScriptNames
<1>3. Pipeline(layer) = (((((((a \o PostMapping(layer)) \o b) \o PostReview(layer)) \o c) \o PostRates)
                            \o d) \o PostTriage(layer)) \o e
  BY DEF Pipeline
<1>4. /\ PostMapping(layer) \in Seq(ScriptNames) /\ PostReview(layer) \in Seq(ScriptNames)
      /\ PostRates \in Seq(ScriptNames) /\ PostTriage(layer) \in Seq(ScriptNames)
  BY <1>1, PostSteps
<1>5. /\ Free(a, Repairing) /\ Free(b, Repairing) /\ Free(c, Repairing)
      /\ Free(d, {"apply_rates"}) /\ Free(e, {"apply_rates"})
  BY DEF Free, Repairing
<1>6. /\ Free(PostMapping(layer), Repairing) /\ Free(PostReview(layer), Repairing)
      /\ Free(PostRates, Once \cup {"apply_rates"}) /\ Free(PostTriage(layer), Once \cup {"apply_rates"})
  BY <1>1, MildSteps, PostStepsLate
<1>6a. Free(PostRates, {"apply_rates"}) /\ Free(PostTriage(layer), {"apply_rates"})
  BY <1>6 DEF Free
<1> HIDE DEF a, b, c, d, e
<1>7. p0 \in Seq(ScriptNames) /\ Free(p0, Repairing)
  BY <1>2, <1>4, <1>5, <1>6, FreeConcat
<1> HIDE DEF p0
<1>8. p1 \in Seq(ScriptNames) /\ Free(p1, Repairing)
  BY <1>2, <1>5, <1>7, FreeConcat
<1> HIDE DEF p1
<1>9. p2 \in Seq(ScriptNames) /\ Free(p2, Repairing)
  BY <1>4, <1>6, <1>8, FreeConcat
<1> HIDE DEF p2
<1>10. p3 \in Seq(ScriptNames) /\ Free(p3, Repairing)
  BY <1>2, <1>5, <1>9, FreeConcat
<1> DEFINE Rated(s) == s \in Seq(ScriptNames) /\ \A x \in Repairing : NoneBehind(s, x, "apply_rates")
<1>11. ASSUME NEW s, Rated(s), NEW t \in Seq(ScriptNames), Free(t, {"apply_rates"}) PROVE Rated(s \o t)
  <2>1. s \o t \in Seq(ScriptNames)
    BY <1>11, ConcatOf
  <2>2. \A x : NoneBehind(t, x, "apply_rates")
    BY <1>11 DEF Free, NoneBehind
  <2>3. QED
    BY <1>11, <2>1, <2>2, NoneBehindConcat
<1> HIDE DEF p3
<1>12. Rated(p3)
  BY <1>10 DEF Free, NoneBehind
<1> HIDE DEF Rated
<1>13. Rated(p4)
  BY <1>4, <1>6a, <1>11, <1>12
<1> HIDE DEF p4
<1>14. Rated(p5)
  BY <1>2, <1>5, <1>11, <1>13
<1> HIDE DEF p5
<1>15. Rated(p6)
  BY <1>4, <1>6a, <1>11, <1>14
<1> HIDE DEF p6
<1>16. Rated(p6 \o e)
  BY <1>2, <1>5, <1>11, <1>15
<1>17. todo = p6 \o e
  BY <1>1, <1>3, Zenon DEF p0, p1, p2, p3, p4, p5, p6
<1>18. QED
  BY <1>1, <1>16, <1>17 DEF Rated, RepairsRated

\* What a run does to its plan, and a recalculation does not, happens at these.
Branching ==
    {"mapping_coverage", "mapping_coverage_after_retry", "no_illegal_passthroughs",
     "no_null_projected_cost", "over_and_under_projection", "review_agent", "triage_agent"}

LEMMA RecalculatesStraight == Free(RecalculateScripts, Branching)
<1> DEFINE r == <<"classify_mechanics", "apply_commitment_ignores", "apply_static_mappings",
                  "merge_mappings", "service_classifier", "apply_rates">>
<1>1. r \in Seq(ScriptNames) /\ ByDirectives \in Seq(ScriptNames)
  BY Tuples DEF ScriptNames, ByDirectives
<1>2. Free(r, Branching) /\ Free(ByDirectives, Branching)
  BY DEF Free, Branching, ByDirectives
<1>3. RecalculateScripts = r \o ByDirectives
  BY Zenon DEF RecalculateScripts
<1> HIDE DEF r
<1>4. QED
  BY <1>1, <1>2, <1>3, FreeConcat

LEMMA RatedRun == ASSUME IInv, RepairsRated, RunScript PROVE RepairsRated'
<1>1. /\ todo \in Seq(ScriptNames) /\ layer \in BOOLEAN /\ recalcs' = recalcs
      /\ \A s : At(s) => todo # <<>> /\ todo[1] = s
  BY AtFirst, ChangedBy DEF IInv, FlowTyped, PlanOrdered, Ordered
<1> DEFINE Calm == \A x \in Repairing : NoneBehind(todo', x, "apply_rates")
<1>2. CASE todo' = <<>>
  <2>1. Len(todo') = 0
    BY <1>2, Tuples
  <2>2. QED
    BY <2>1 DEF RepairsRated, NoneBehind
<1>3. ASSUME NEW p, NEW m, Resumes(todo', todo, p, m), \A i \in 1 .. p : todo'[i] \notin Repairing
      PROVE  Calm
  BY <1>1, <1>3, ResumesApart DEF RepairsRated
<1>4. CASE todo # <<>> /\ todo' = Tail(todo)
  <2>1. Resumes(todo', todo, 0, 1)
    BY <1>1, <1>4, TailResumes
  <2>2. Calm
    BY <1>3, <2>1
  <2>3. \A i \in 1 .. Len(todo') : \E j \in 1 .. Len(todo) : todo'[i] = todo[j]
    <3>1. /\ Len(todo') = Len(todo) - 1 /\ Len(todo) \in Nat
          /\ \A i \in 1 .. Len(todo) - 1 : todo'[i] = todo[i + 1]
      BY <1>1, <1>4, TailOf
    <3>2. QED
      BY <3>1
  <2>4. QED
    BY <1>1, <2>2, <2>3 DEF RepairsRated
<1>5. ASSUME todo # <<>>, todo[1] \in Branching PROVE recalcs' = 0
  <2>1. 1 \in 1 .. Len(todo)
    BY <1>1, <1>5, TailOf
  <2>2. QED
    BY <1>1, <1>5, <2>1, RecalculatesStraight DEF RepairsRated, Free, Has
<1>6. ASSUME NEW s \in Branching, At(s), Calm PROVE RepairsRated'
  BY <1>1, <1>5, <1>6 DEF RepairsRated
<1>7. ASSUME NEW first \in Seq(ScriptNames), Free(first, Repairing), todo # <<>>,
             todo' = first \o Tail(todo)
      PROVE  Calm
  <2>1. /\ Resumes(todo', todo, Len(first), 1)
        /\ \A i \in 1 .. Len(first) : todo'[i] = first[i]
    BY <1>1, <1>7, ConcatResumes
  <2>2. \A i \in 1 .. Len(first) : todo'[i] \notin Repairing
    BY <1>7, <2>1 DEF Free
  <2>3. QED
    BY <1>3, <2>1, <2>2
<1>8. /\ PostMapping(layer) \in Seq(ScriptNames) /\ PostReview(layer) \in Seq(ScriptNames)
      /\ PostRates \in Seq(ScriptNames) /\ PostTriage(layer) \in Seq(ScriptNames)
      /\ Free(PostMapping(layer), Repairing) /\ Free(PostReview(layer), Repairing)
  BY <1>1, PostSteps, MildSteps
<1>9. CASE RetryAgent
  <2> DEFINE asked == <<"mapping_coverage_after_retry">>
             first == PostMapping(layer) \o asked
  <2>1. At("mapping_coverage") /\ todo' = first \o Tail(todo)
    BY <1>9 DEF RetryAgent, CoverageGate, Then
  <2>2. asked \in Seq(ScriptNames) /\ Free(asked, Repairing)
    BY Tuples DEF ScriptNames, Free, Repairing
  <2> HIDE DEF asked
  <2>3. first \in Seq(ScriptNames) /\ Free(first, Repairing)
    BY <1>8, <2>2, FreeConcat
  <2> HIDE DEF first
  <2>4. Calm
    BY <1>1, <1>7, <2>1, <2>3
  <2>5. QED
    BY <1>6, <2>1, <2>4 DEF Branching
<1>10. CASE CoverageAfterRetry
  <2> DEFINE first == <<"ensure_full_coverage", "mapping_coverage_at_last">>
  <2>1. At("mapping_coverage_after_retry") /\ (todo' = Tail(todo) \/ todo' = first \o Tail(todo))
    BY <1>10 DEF CoverageAfterRetry, CoverageGate, Continue, Then
  <2>2. first \in Seq(ScriptNames) /\ Free(first, Repairing)
    BY Tuples DEF ScriptNames, Free, Repairing
  <2> HIDE DEF first
  <2>3. CASE todo' = Tail(todo)
    BY <1>1, <1>4, <2>1, <2>3
  <2>4. CASE todo' = first \o Tail(todo)
    BY <1>1, <1>6, <1>7, <2>1, <2>2, <2>4 DEF Branching
  <2>5. QED
    BY <2>1, <2>3, <2>4
<1>11. ASSUME NEW gate \in Branching, NEW bad, NEW post \in Seq(ScriptNames), SoftGate(gate, bad, post),
              Free(post, Repairing) \/ (gate \in Repairing /\ Free(post, {"apply_rates"}))
       PROVE  RepairsRated'
  <2>1. At(gate) /\ (todo' = Tail(todo) \/ todo' = post \o Tail(todo))
    BY <1>11 DEF SoftGate, Continue, Then
  <2>2. CASE todo' = Tail(todo)
    BY <1>1, <1>4, <2>1, <2>2
  <2>3. CASE todo' = post \o Tail(todo) /\ Free(post, Repairing)
    BY <1>1, <1>6, <1>7, <2>1, <2>3
  <2>4. CASE todo' = post \o Tail(todo) /\ gate \in Repairing /\ Free(post, {"apply_rates"})
    <3>1. /\ Tail(todo) \in Seq(ScriptNames) /\ Len(Tail(todo)) = Len(todo) - 1 /\ Len(todo) \in Nat \ {0}
          /\ \A i \in 1 .. Len(todo) - 1 : Tail(todo)[i] = todo[i + 1]
      BY <1>1, <2>1, TailOf
    <3>2. NoneBehind(todo, gate, "apply_rates") /\ todo[1] = gate
      BY <1>1, <2>1, <2>4 DEF RepairsRated
    <3>3. Free(Tail(todo), {"apply_rates"})
      BY <3>1, <3>2 DEF NoneBehind, Free
    <3>4. Free(todo', {"apply_rates"})
      BY <2>4, <3>1, <3>3, FreeConcat
    <3>5. Calm
      BY <3>4 DEF Free, NoneBehind
    <3>6. QED
      BY <1>6, <2>1, <3>5
  <2>5. QED
    BY <1>11, <2>1, <2>2, <2>3, <2>4
<1>12. Free(PostRates, {"apply_rates"}) /\ Free(PostTriage(layer), {"apply_rates"})
  BY <1>1, PostStepsLate DEF Free
<1>13. CASE NoIllegalPassthroughs
  BY <1>8, <1>11, <1>13 DEF NoIllegalPassthroughs, Branching
<1>14. CASE NoNullProjectedCost
  BY <1>8, <1>11, <1>12, <1>14 DEF NoNullProjectedCost, Branching, Repairing
<1>15. CASE OverAndUnderProjection
  BY <1>8, <1>11, <1>12, <1>15 DEF OverAndUnderProjection, Branching, Repairing
<1>16. ASSUME NEW agent \in Branching, NEW post \in Seq(ScriptNames), AgentBlocked(agent, post)
       PROVE  RepairsRated'
  <2>1. /\ At(agent) /\ todo' = SubSeq(todo, (Len(post) + 2) + 1, Len(todo))
        /\ Len(post) + 2 \in Nat \ {0}
    BY <1>16 DEF AgentBlocked
  <2>2. Resumes(todo', todo, 0, Len(post) + 2)
    BY <1>1, <2>1, SuffixResumes
  <2>3. Calm
    BY <1>3, <2>2
  <2>4. QED
    BY <1>6, <2>1, <2>3
<1>17. CASE ReviewAgentBlocked
  BY <1>8, <1>16, <1>17 DEF ReviewAgentBlocked, Branching
<1>18. CASE TriageAgentBlocked
  BY <1>8, <1>16, <1>18 DEF TriageAgentBlocked, Branching
<1>19. QED
  BY <1>2, <1>4, <1>9, <1>10, <1>13, <1>14, <1>15, <1>17, <1>18, PlanSteps

LEMMA RatedStep == ASSUME IInv, RepairsRated, [Next]_vars PROVE RepairsRated'
<1>1. CASE ~RunScript /\ \E changed : RecalculateWith(changed)
  <2>1. todo' = RecalculateScripts
    BY <1>1 DEF RecalculateWith
  <2>2. \A i \in 1 .. Len(todo') : Has(RecalculateScripts, todo'[i])
    BY <2>1 DEF Has
  <2>3. \A x \in Repairing : NoneBehind(todo', x, "apply_rates")
    BY <2>1, MildSteps, FreeApart
  <2>4. QED
    BY <2>2, <2>3 DEF RepairsRated
<1>2. CASE UNCHANGED flowVars
  BY <1>2 DEF RepairsRated, flowVars
<1>3. QED
  BY <1>1, <1>2, RatedRun, ChangedElsewhere

\* Nothing is repaired in a recalculation, nor while rates are still to come.
LEMMA RepairsBehind ==
    ASSUME IInv, RepairsRated, ValidateFix
    PROVE  recalcs = 0 /\ ~Has(todo, "apply_rates") /\ status = "running"
<1>1. /\ At("validate_fix") /\ todo # <<>> /\ todo[1] = "validate_fix" /\ todo \in Seq(ScriptNames)
      /\ status = "running"
  BY AtFirst DEF ValidateFix, Reprice, Ordered
<1>2. 1 \in 1 .. Len(todo) /\ Len(todo) \in Nat
  BY <1>1, TailOf
<1>3. recalcs = 0
  BY <1>1, <1>2, MildSteps DEF RepairsRated, Free, Has, Repairing
<1>4. NoneBehind(todo, "validate_fix", "apply_rates")
  BY DEF RepairsRated, Repairing
<1>5. ~Has(todo, "apply_rates")
  BY <1>1, <1>2, <1>4 DEF NoneBehind, Has
<1>6. QED
  BY <1>1, <1>3, <1>5

-----------------------------------------------------------------------------
(* The invariant and the theorem.                                          *)

LEMMA ArmTableStep ==
    ASSUME IInv, DataTyped, CInv, ArmInv, [Next]_vars, CInv'
    PROVE  ArmTable'
<1> SUFFICES ASSUME answers' = 0 PROVE ArmIn(table', ArmLines' \ added', Good')
  BY DEF ArmTable
<1>1. bill' = bill /\ skus' = skus
  BY ChangedBy, ChangedElsewhere DEF inputVars
<1>2. ArmLines' = ArmLines /\ Good' = Good
  BY <1>1, ArmFixed
<1>3. CASE ~RunScript
  <2>1. UNCHANGED <<table, added, answers>>
    BY <1>3, ChangedElsewhere DEF tableVars, fixVars
  <2>2. QED
    BY <1>2, <2>1 DEF ArmInv, ArmTable
<1>4. CASE RunScript
  <2>1. answers = 0 /\ added \subseteq added' /\ Told = {} /\ Told' = {} /\ LedgerIgnores'
    BY <1>4, UnansweredBefore, AddedStays DEF CInv, ToldOnce
  <2>2. ArmIn(table, ArmLines \ added, Good) /\ ArmGrouped /\ ArmPlanned
    BY <2>1 DEF ArmInv, ArmTable
  <2>3. CASE ValidateFix
    <3> DEFINE near == Near(Good, rates, bill)
    <3>1. ArmIn(table, ArmLines \ added, near)
      BY <2>1, <2>3, RepairsBehind DEF ArmInv, ArmReached
    <3>2. near \in SUBSET Good /\ \A p \in near : Reachable(rates, p[2], bill[p[1]].region)
      BY DEF Near
    <3>3. ~MergeMappings
      <4>1. At("validate_fix")
        BY <2>3 DEF ValidateFix, Reprice
      <4>2. QED
        BY <4>1 DEF At, MergeMappings
    <3> HIDE DEF near
    <3>4. ArmIn(table', ArmLines \ added', near)
      BY <1>4, <2>1, <2>2, <3>1, <3>2, <3>3, ArmRun
    <3>5. QED
      BY <1>2, <3>2, <3>4, MoreGood
  <2>4. CASE ~ValidateFix
    <3>1. Good \in SUBSET Good
      OBVIOUS
    <3>2. ArmIn(table', ArmLines \ added', Good)
      BY <1>4, <2>1, <2>2, <2>4, <3>1, ArmRun
    <3>3. QED
      BY <1>2, <3>2
  <2>5. QED
    BY <2>3, <2>4
<1>5. QED
  BY <1>3, <1>4

\* The scripts behind the first rates take no rate away.
LEMMA RatesGrow ==
    ASSUME IInv, RunScript, Told = {}, \A s : At(s) => s \in LateScripts \ {"apply_rates"}
    PROVE  DOMAIN rates \subseteq DOMAIN rates'
<1>1. CASE ValidateFix
  <2>1. rates' = validate_fix(table, rates, bill, group, skus).rates
    BY <1>1 DEF ValidateFix, Reprice
  <2>2. Rented(table, {}, {})
    BY DEF Rented, ArmIn, IInv, FlowTyped
  <2>3. DOMAIN rates \subseteq DOMAIN validate_fix(table, rates, bill, group, skus).rates
    BY <2>2, ValidateFixArm
  <2>4. QED
    BY <2>1, <2>3
<1>2. CASE IncrementalRerate
  <2>1. rates' = incremental_rerate(table, rates, bill, skus).rates
    BY <1>2 DEF IncrementalRerate, Reprice
  <2>2. Rented(table, {}, {})
    BY DEF Rented, ArmIn, IInv, FlowTyped
  <2>3. DOMAIN rates \subseteq DOMAIN incremental_rerate(table, rates, bill, skus).rates
    BY <2>2, IncrementalRerateArm
  <2>4. QED
    BY <2>1, <2>3
<1>3. CASE ApplyOutlierFixes
  <2>1. DOMAIN triage.fixes = {}
    BY DEF Told
  <2>2. \A candidates, fixes :
            DOMAIN fixes = {} =>
                apply_outlier_fixes(table, rates, bill, skus, candidates, fixes).rates = rates
    BY NothingFixed
  <2>3. rates' = rates
    BY <1>3, <2>1, <2>2 DEF ApplyOutlierFixes, Reprice
  <2>4. QED
    BY <2>3
<1>4. CASE ApplyRates
  <2>1. At("apply_rates")
    BY <1>4 DEF ApplyRates, Reprice
  <2>2. QED
    BY <2>1
<1>5. CASE ~(ValidateFix \/ IncrementalRerate \/ ApplyOutlierFixes \/ ApplyRates)
  <2>1. rates' = rates
    BY <1>5
       DEF RunScript, ScriptFails, Classify, ApplyCommitmentIgnores, ApplyStaticMappings, MappingAgent,
           MappingAgentBlocked, MergeMappings, MergeMappingsRollsBack, ServiceClassifier,
           FixStorageMisroute, ReconcileCapacity, DirectivesFromLegacy, ApplyDirectives,
           GateNotEvaluated, CoveragePasses, RetryAgent, RetryAgentBlocked, CoverageAfterRetry, EnsureFullCoverage,
           CoverageAtLast, AutoReview, ReviewAgent, ReviewAgentBlocked, ApplyReviewFixes,
           NoIllegalPassthroughs, NoIllegalPassthroughsBlocked, ValidateFixDies,
           NoNullProjectedCost, NoNullProjectedCostBlocked, DetectOutliers, AutoTriage, TriageAgent,
           TriageAgentBlocked, OutlierGate, OverAndUnderProjection, OverAndUnderProjectionBlocked,
           Finish, Rewrite, SoftGate, SoftGateBlocked, AgentBlocked
  <2>2. QED
    BY <2>1
<1>6. QED
  BY <1>1, <1>2, <1>3, <1>4, <1>5

LEMMA ArmReachedRun ==
    ASSUME IInv, DataTyped, CInv, ArmInv, RunScript, CInv'
    PROVE  ArmReached'
<1> SUFFICES ASSUME recalcs' = 0, answers' = 0, status' # "failed"
             PROVE  Has(todo', "apply_rates")
                        \/ ArmIn(table', ArmLines' \ added', Near(Good', rates', bill'))
  BY DEF ArmReached
<1>1. recalcs = 0 /\ bill' = bill /\ skus' = skus
  BY ChangedBy DEF inputVars
<1>2. ArmLines' = ArmLines /\ Good' = Good
  BY <1>1, ArmFixed
<1>3. /\ answers = 0 /\ added \subseteq added' /\ Told = {} /\ Told' = {} /\ LedgerIgnores'
      /\ status = "running" /\ todo \in Seq(ScriptNames)
  BY UnansweredBefore, AddedStays, Running DEF CInv, ToldOnce, IInv, PlanOrdered, Ordered
<1>4. CASE Has(todo, "apply_rates") /\ todo[1] # "apply_rates"
  BY <1>4, RatesToCome DEF CInv
<1>5. CASE Has(todo, "apply_rates") /\ todo[1] = "apply_rates"
  <2>1. todo # <<>>
    BY <1>5 DEF Has
  <2>2. Head(todo) = "apply_rates" /\ \A s : At(s) => s = "apply_rates"
    BY <1>3, <1>5, <2>1, TailOf DEF At
  <2>3. ~ScriptFails
    BY <1>1, <2>2 DEF ScriptFails, Required, Fail
  <2>4. ApplyRates
    BY <2>1, <2>2, <2>3, OnlyPrices
  <2> DEFINE keys == ArmLines \ added'
  <2>5. /\ table' = apply_rates(table, rates, bill, skus).table
        /\ rates' = apply_rates(table, rates, bill, skus).rates
    BY <2>4 DEF ApplyRates, Reprice
  <2>6. Rented(table, keys, Good)
    BY <1>3 DEF Rented, ArmIn, ArmInv, ArmTable, IInv, FlowTyped
  <2>7. \A p \in Good : SoldIn(skus, p[2], bill[p[1]].region)
    BY DEF Good
  <2> HIDE DEF keys
  <2>8. ArmIn(table', keys, Near(Good, rates', bill))
    BY <2>5, <2>6, <2>7, ApplyRatesArm
  <2>9. QED
    BY <1>1, <1>2, <2>8 DEF keys
<1>6. CASE ~Has(todo, "apply_rates")
  <2>1. \A s : At(s) => s \in LateScripts \ {"apply_rates"}
    <3> SUFFICES ASSUME NEW s, At(s) PROVE s \in LateScripts \ {"apply_rates"}
      OBVIOUS
    <3>1. todo # <<>> /\ todo[1] = s
      BY AtFirst
    <3>2. 1 \in 1 .. Len(todo) /\ Len(todo) \in Nat
      BY <1>3, <3>1, TailOf
    <3>3. s # "apply_rates"
      BY <1>6, <3>1, <3>2 DEF Has
    <3>4. Behind(todo, LateScripts, "apply_rates")
      BY <1>1 DEF CInv, PlanApart
    <3>5. ASSUME s \notin LateScripts PROVE FALSE
      <4>1. PICK j \in 2 .. Len(todo) : todo[j] = "apply_rates"
        BY <3>1, <3>2, <3>4, <3>5 DEF Behind
      <4>2. QED
        BY <1>6, <3>2, <4>1 DEF Has
    <3>6. QED
      BY <3>3, <3>5
  <2> DEFINE near == Near(Good, rates, bill)
  <2>2. ArmIn(table, ArmLines \ added, near) /\ ArmGrouped /\ ArmPlanned
    BY <1>1, <1>3, <1>6 DEF ArmInv, ArmReached
  <2>3. near \in SUBSET Good /\ \A p \in near : Reachable(rates, p[2], bill[p[1]].region)
    BY DEF Near
  <2>4. ~MergeMappings
    BY <2>1 DEF MergeMappings, LateScripts
  <2>5. near \subseteq Near(Good, rates', bill)
    BY <1>3, <2>1, RatesGrow, MoreReach
  <2> HIDE DEF near
  <2>6. ArmIn(table', ArmLines \ added', near)
    BY <1>3, <2>2, <2>3, <2>4, ArmRun
  <2>7. QED
    BY <1>1, <1>2, <2>5, <2>6, MoreGood
<1>7. QED
  BY <1>4, <1>5, <1>6

LEMMA ArmReachedStep ==
    ASSUME IInv, DataTyped, CInv, ArmInv, [Next]_vars, CInv'
    PROVE  ArmReached'
<1>1. CASE RunScript
  BY <1>1, ArmReachedRun
<1>2. CASE ~RunScript
  <2>1. UNCHANGED <<bill, skus, table, added, rates, answers>>
    BY <1>2, ChangedElsewhere DEF inputVars, tableVars, fixVars
  <2>2. ArmLines' = ArmLines /\ Good' = Good
    BY <2>1, ArmFixed
  <2>3. CASE UNCHANGED flowVars
    BY <2>1, <2>2, <2>3 DEF ArmInv, ArmReached, flowVars
  <2>4. ASSUME NEW changed, RecalculateWith(changed) PROVE recalcs' # 0
    BY <2>4 DEF RecalculateWith, IInv, FlowTyped
  <2>5. QED
    BY <1>2, <2>3, <2>4, ChangedElsewhere DEF ArmReached
<1>3. QED
  BY <1>1, <1>2

LEMMA InitArm == ASSUME Init PROVE ArmInv
<1>1. /\ skus \in Catalogs /\ group = [k \in Lines |-> None] /\ table = {}
      /\ manifest = [g \in LLM_GROUPS |-> {}] /\ files = [f \in Files |-> {}]
  BY DEF Init
<1>2. ArmGrouped
  BY <1>1 DEF ArmGrouped
<1>3. ArmPlanned
  BY <1>1 DEF ArmPlanned, ArmIn
<1>4. ArmTable /\ ArmReached
  BY <1>1 DEF ArmTable, ArmReached, ArmIn
<1>5. QED
  BY <1>1, <1>2, <1>3, <1>4, RatedInit DEF ArmInv

LEMMA InvariantArm == Spec => []ArmInv
<1>1. Init => ArmInv
  BY InitArm
<1>2. IInv /\ DataTyped /\ CInv /\ ArmInv /\ [Next]_vars /\ CInv' => ArmInv'
  <2> SUFFICES ASSUME IInv, DataTyped, CInv, ArmInv, [Next]_vars, CInv' PROVE ArmInv'
    OBVIOUS
  <2>1. skus' = skus
    BY ChangedBy, ChangedElsewhere DEF inputVars
  <2>2. ArmGrouped' /\ ArmPlanned' /\ RepairsRated'
    BY ArmGroupedStep, ArmPlannedStep, RatedStep DEF ArmInv
  <2>3. ArmTable' /\ ArmReached'
    BY ArmTableStep, ArmReachedStep
  <2>4. QED
    BY <2>1, <2>2, <2>3 DEF ArmInv
<1>3. QED
  BY <1>1, <1>2, InvariantData, InvariantCredits, PTL DEF Spec

\* An Arm instance is never priced on x86 hardware by the static mappers, for
\* any bill, catalogue, drafts of the agents about other lines and failing
\* scripts, as long as no agent has answered: _gp_family_for chooses among Arm
\* families only, and what the region does not sell is passed through rather
\* than moved to another family, by the handlers, by the merge, and by the
\* repairs of validate_fix.py, which leave alone what has a rate in its region.
THEOREM ArmLinesStayArm == Spec => []ArmStaysArm
<1>1. DataTyped /\ ArmInv => ArmStaysArm
  <2> SUFFICES ASSUME DataTyped, ArmInv, NEW row \in table, row.key \notin added, answers = 0,
                      Mapped(row), row.comp \in {"core", "ram"},
                      group[row.key] \in InstanceGroups, HasSpecs(bill[row.key]),
                      Type(bill[row.key]).arm
               PROVE  \E f \in Families : f.arch = "arm" /\ row.sku \in {Core(f.label), Ram(f.label)}
    BY DEF ArmStaysArm
  <2>1. row.key \in Lines
    BY DEF DataTyped, RowsTyped, Covered
  <2>2. Mechanic(row.key) \in InstanceGroups
    BY <2>1 DEF ArmInv, ArmGrouped, InstanceGroups, None
  <2>3. row.key \in ArmLines \ added
    BY <2>1, <2>2 DEF ArmLines
  <2>4. OnGood(row, Good)
    BY <2>3 DEF ArmInv, ArmTable, ArmIn
  <2>5. <<row.key, row.sku>> \in Good
    BY <2>4 DEF OnGood, Parts
  <2>6. QED
    BY <2>5 DEF Good, ArmPart
<1>2. QED
  BY <1>1, InvariantData, InvariantArm, PTL
=============================================================================
