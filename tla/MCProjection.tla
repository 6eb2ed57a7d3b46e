---------------------------- MODULE MCProjection ----------------------------
(***************************************************************************)
(* Projection with five small bills, a catalogue of ten SKUs, one that has  *)
(* lost some of them, and an empty one.                                    *)
(***************************************************************************)
EXTENDS Projection

US == "us-central1"
EU == "europe-west1"
MCRegionOrder == <<EU, US>>
MCContinent   == [g \in {US, EU} |-> {g}]

Machines(label, ord, arch, tier, workload, net, gen) ==
    [label |-> label, ord |-> ord, arch |-> arch, tier |-> tier, workload |-> workload,
     net |-> net, gen |-> gen]

X86Default == Machines("N4D", 2, "x86", "sustained", "general", "standard", 4)
ArmDefault == Machines("C4A", 5, "arm", "sustained", "general", "standard", 4)
MCFamilies ==
    {X86Default, ArmDefault,
     Machines("E2", 1, "x86", "burstable", "general", "standard", 2),
     Machines("C4D", 3, "x86", "sustained", "compute", "high", 4),
     Machines("T2A", 4, "arm", "burstable", "general", "standard", 2)}

InstanceOf(vcpu, ram, gen, arm, workload) ==
    [vcpu |-> vcpu, ram |-> ram, gen |-> gen, arm |-> arm, workload |-> workload,
     accel |-> None, ssd |-> None, efa |-> FALSE, gpus |-> 0]

MCInstanceSpecs ==
    [t \in {"m5.large", "m7g.large", "t3.small"} |->
        CASE t = "m5.large"  -> InstanceOf(2, 8, 5, FALSE, "general")
          [] t = "m7g.large" -> InstanceOf(2, 8, 7, TRUE, "general")
          [] t = "t3.small"  -> InstanceOf(2, 2, 3, FALSE, "burstable")]

MCGcpFamilies ==
    [key \in {"general", "burstable"} \X {"x86", "arm"} |->
        LET label == CASE key[2] = "arm" -> "C4A"
                       [] key = <<"general", "x86">> -> "N4D"
                       [] key = <<"burstable", "x86">> -> "E2"
        IN  [family |-> label, prev |-> label, minGen |-> 5]]

-----------------------------------------------------------------------------
Sold(id, desc, regions, kind, rate) ==
    [id |-> id, desc |-> desc, regions |-> regions, kind |-> kind, noise |-> FALSE, rate |-> rate]

MCFull ==
    {Sold(1, "N4D Core", {US, EU}, "ondemand", 3), Sold(2, "N4D Ram", {US, EU}, "ondemand", 1),
     Sold(3, "E2 Core", {US}, "ondemand", 2),      Sold(4, "E2 Ram", {US}, "ondemand", 1),
     Sold(5, "C4A Core", {US}, "ondemand", 2),     Sold(6, "C4A Ram", {US}, "ondemand", 1),
     Sold(7, Standard, {"global"}, "ondemand", 1),
     Sold(8, ENTERPRISE_ENROLLMENT, {US}, "ondemand", 40),
     Sold(9, "Vertex Core", {EU}, "ondemand", 500),
     Sold(10, "N4D Core", {US, EU}, "commit1", 2)}

\* Arm memory in Europe only, no enrolment, no storage, Vertex for rent as spot only.
MCSparse ==
    {s \in MCFull : s.desc \notin {"C4A Ram", "Vertex Core", Standard, ENTERPRISE_ENROLLMENT}}
        \cup {Sold(6, "C4A Ram", {EU}, "ondemand", 1),
              Sold(9, "Vertex Core", {EU, US}, "preemptible", 5)}

MCCatalogs == {MCFull, MCSparse, {}}

\* Storage was resolved in the second region before the catalogue lost it.
MCResolved == [key \in {<<Standard, EU>>} |-> [sku |-> 7, version |-> 1]]
MCPhantoms == {<<"E2 Core", EU>>}

MCCudPct == [d \in {"N4D Core", "N4D Ram"} |-> [y1 |-> 80, y3 |-> 60]]

MCWords ==
    [n \in {s.desc : s \in MCFull} \cup {"Vertex Memory"} |->
        CASE n = "Vertex Memory" -> {"vertex", "memory"}
          [] n = "Vertex Core"   -> {"vertex", "core"}
          [] n \in {Core(f.label) : f \in MCFamilies} -> {n, "core"}
          [] n \in {Ram(f.label) : f \in MCFamilies}  -> {n, "ram"}
          [] OTHER -> {n}]

MCUnitOf == [d \in {s.desc : s \in MCFull} |-> IF d = Standard THEN "data-time" ELSE "time"]

-----------------------------------------------------------------------------
Line ==
    [cost |-> 60, lit |-> "Usage", pm |-> "OnDemand", discounted |-> FALSE, product |-> {"ec2", "elastic compute cloud"},
     usage |-> {}, op |-> {}, name |-> "Amazon EC2", unit |-> "hrs", canonical |-> "ec2",
     accel |-> FALSE, itype |-> None, awsBranded |-> TRUE, vol |-> None, qty |-> 10,
     engine |-> None, multiaz |-> FALSE, month |-> 1, deployment |-> FALSE, region |-> US,
     od |-> NoRate, licensed |-> FALSE]

X86Line    == [Line EXCEPT !.usage = {"BoxUsage"}, !.itype = "m5.large"]
ArmLine    == [Line EXCEPT !.usage = {"BoxUsage", "BoxUsage:g"}, !.itype = "m7g.large"]
UnknownBox == [Line EXCEPT !.usage = {"BoxUsage"}, !.region = EU, !.cost = 1]
CreditLine == [Line EXCEPT !.cost = -5, !.lit = "Credit", !.usage = {"BoxUsage"}]
S3Line     == [Line EXCEPT !.product = {"s3", "simple storage service"}, !.usage = {"TimedStorage"},
                           !.unit = "gb-mo", !.canonical = "s3", !.region = EU,
                           !.cost = 3]
MiscLine   == [Line EXCEPT !.product = {"sagemaker"}, !.usage = {"ml"}, !.op = {"per million"},
                           !.canonical = "sagemaker", !.itype = "m5.large", !.cost = 6]
FeeLine    == [Line EXCEPT !.lit = "EdpDiscount", !.unit = None]
BotControl(m, at) == [Line EXCEPT !.product = {"waf"}, !.usage = {"Bot Control"}, !.op = {"Month"},
                              !.canonical = "waf", !.month = m, !.region = at]

MCBills ==
    {<<X86Line, FeeLine>>, <<ArmLine, MiscLine>>, <<CreditLine, UnknownBox>>,
     <<BotControl(1, EU), BotControl(1, US), BotControl(2, US)>>, <<S3Line, FeeLine>>}

Draft(comp, strategy, sku, name, mult) ==
    [key |-> 0, comp |-> comp, strategy |-> strategy, sku |-> sku, name |-> name, mult |-> mult,
     conf |-> 80, reason |-> None, bd |-> comp # None, svcOk |-> TRUE]

MCTrustedTarget == Draft(None, "map", "Vertex Core", "Vertex Core", 1)

\* Dropped, mapped, mapped in two parts of which one has no SKU, carried, and
\* mapped as recommended, to a SKU that does not exist.
MCDrafts ==
    {{}, {MCTrustedTarget},
     {Draft("core", "break_down", "E2 Core", "E2 Core", 4), Draft("ram", "map", None, "Vertex Memory", 4)},
     {Draft(None, "passthrough", None, None, 1)},
     {Draft(None, "recommended", "made up", "N4D Core", 1)}}

\* Who names a SKU also names its service.
Answer(decision, comp, sku, mult, strategy) ==
    [decision |-> decision, comp |-> comp, sku |-> sku, mult |-> mult, strategy |-> strategy,
     service |-> sku # None]

MCAnswers ==
    {Answer("confirm", None, None, Unset, None),
     Answer("override", None, "Vertex Core", 1, None),
     Answer("override", "ram", None, 2, "map")}

MCGroupOf == [d \in {s.desc : s \in MCFull} |-> CASE "core" \in MCWords[d] -> "CPU"
                                                 [] "ram" \in MCWords[d] -> "RAM"
                                                 [] OTHER -> "none"]
MCFamilyOverrides == [t \in {"m5.large", "t3.small"} |-> IF t = "t3.small" THEN "E2" ELSE "N4D"]
MCCudDefault == [y1 |-> 75, y3 |-> 60]
MCPenalty == [t \in {"m7g.large"} |-> 20]

MCSpecs == [c \in {} |-> <<>>]
MCServicePolicy == <<[match |-> "sagemaker", mode |-> "keep", conf |-> 60]>>
MCDiscounts == [spot |-> 60, ri1 |-> 30, ri3 |-> 50, sp |-> 30]
MCGate == [awsFloor |-> 1, ratio |-> 50, gcpFloor |-> 25, gcpAbs |-> 10000, awsMax |-> 100,
           inflation |-> 2]
NoInjected == [key \in {} |-> 0]
NoTable == [key \in {} |-> None]
NoTiers == <<>>
=============================================================================
