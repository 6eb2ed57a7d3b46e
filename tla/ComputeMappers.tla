--------------------------- MODULE ComputeMappers ---------------------------
(***************************************************************************)
(* Static mappers of the lines that rent an instance: EC2 (Linux, Windows, *)
(* burstable, Arm, GPU and accelerator), MSK brokers and OpenSearch nodes. *)
(*                                                                         *)
(* InstanceSpecs[t] is the record of instance type t: vcpu, ram, gen, arm; *)
(* workload is "burstable", "general", "compute", "storage",               *)
(* "accelerated" or "tpu"; accel is a GPU model, "other" or "none"; ssd is *)
(* "none", "unknown", "nvme" or "hdd"; efa says that the family has the    *)
(* fast network.  A type that is no element of the domain has no specs.    *)
(***************************************************************************)
EXTENDS MappingEntries

CONSTANTS
    GcpFamilies,    \* <<workload, arch>> |-> [family, prev, minGen]
    GpuProfiles,    \* types with a GPU profile |-> [family, gpu]
    TpuRatio        \* assumption *_chip_to_tpu: 0 switches the mapping off

\* Sizes are whole numbers of a unit that is small enough.
ASSUME SpecsAssumption ==
    \A t \in DOMAIN InstanceSpecs : InstanceSpecs[t].vcpu \in Nat /\ InstanceSpecs[t].ram \in Nat

\* _GP_FAMILY_ARCH: the families Arm instances start from are on sale, on Arm.
ArmLabels == {"T2A", "C4A"}

ASSUME ArmFamiliesAssumption ==
    \A label \in ArmLabels :
        /\ \E f \in Families : f.label = label
        /\ \A f \in Families : f.label = label => f.arch = "arm"

Family(label) == CHOOSE f \in Families : f.label = label
Type(r)      == InstanceSpecs[r.itype]
HasSpecs(r)   == r.itype \in DOMAIN InstanceSpecs

N4DGeneration == Family("N4D").gen

\* Core and RAM on one machine family.
Machine(cat, label, conf) ==
    MapStrict(cat, "core", Core(label), conf) \cup MapStrict(cat, "ram", Ram(label), conf)

\* Both or none: an Arm line never falls back to x86 hardware.
BothOrPass(cat, label, conf) ==
    IF Strict(cat, Core(label)) # None /\ Strict(cat, Ram(label)) # None
    THEN Machine(cat, label, conf)
    ELSE {Entry(c, "passthrough", None, conf, "family_not_available_in_region") : c \in {"core", "ram"}}

MutantChosenFamily(r, cat, default, tiers, workloads, net, floor) ==
    cheapest_in_scope(cat.skus, Family(default), Type(r).vcpu, Type(r).ram, cat.region,
                      {"x86", "arm"}, tiers, workloads, net, floor).label

\* The cheapest family for the line, starting from the default one.
ChosenFamily(r, cat, default, tiers, workloads, net, floor) ==
    cheapest_in_scope(cat.skus, Family(default), Type(r).vcpu, Type(r).ram, cat.region,
                      {Family(default).arch}, tiers, workloads, net, floor).label

AnyTier   == {"burstable", "sustained"}
Sustained == {"sustained"}
Own(default) == Family(default).gen

\* _arm_workloads: Arm families are fewer, so an Arm line that stays on Arm may
\* take one of any workload on sale.
arm_workloads(cat) == {f.workload : f \in {h \in discover_gp_families(cat.skus) : h.arch = "arm"}}

\* The Arm family of a line; a burstable type starts from the handler's own one.
ArmFamily(r, cat, burstable, workloads) ==
    IF Type(r).workload = "burstable"
    THEN ChosenFamily(r, cat, burstable, AnyTier, workloads, "standard", Own(burstable))
    ELSE ChosenFamily(r, cat, "C4A", Sustained, workloads, "standard", Own("C4A"))

\* E2 keeps its place whatever the floor says; a switch needs N4D's generation.
BurstableX86(r, cat) == ChosenFamily(r, cat, "E2", AnyTier, {"general"}, "standard", N4DGeneration)

map_compute_arm(r, cat) ==
    LET workloads == IF Type(r).workload = "burstable" THEN {"general"} ELSE arm_workloads(cat)
    IN  IF HasSpecs(r) THEN BothOrPass(cat, ArmFamily(r, cat, "C4A", workloads), 82)
        ELSE Pass("instance", 30)

map_compute_burstable(r, cat) ==
    CASE ~HasSpecs(r)                 -> Pass("instance", 30)
      [] HasSpecs(r) /\ Type(r).arm  -> Machine(cat, ArmFamily(r, cat, "T2A", {"general"}), 85)
      [] OTHER                        -> Machine(cat, BurstableX86(r, cat), 85)

map_opensearch(r, cat) ==
    IF ~HasSpecs(r) THEN Llm
    ELSE Machine(cat,
                 CASE Type(r).arm -> ArmFamily(r, cat, "T2A", {"general"})
                   [] ~Type(r).arm /\ Type(r).workload = "burstable" -> BurstableX86(r, cat)
                   [] ~Type(r).arm /\ Type(r).workload = "compute" ->
                          ChosenFamily(r, cat, "C4D", Sustained, {"compute"}, "standard", Own("C4D"))
                   [] OTHER -> ChosenFamily(r, cat, "N4D", Sustained, {"general"}, "standard", Own("N4D")),
                 70)

\* passthrough_reason is bound by the Arm branch only: a broker on x86 without
\* a SKU raises unless an earlier Arm broker left a value.
X86Broker(r, cat) ==
    IF Type(r).workload = "burstable" THEN BurstableX86(r, cat)
    ELSE ChosenFamily(r, cat, "N4D", Sustained, {"general"}, "standard", Own("N4D"))

map_msk(r, cat) ==
    CASE ~HasSpecs(r)                -> Pass("broker", 40)
      [] HasSpecs(r) /\ Type(r).arm -> BothOrPass(cat, ArmFamily(r, cat, "T2A", arm_workloads(cat)), 72)
      [] OTHER                       -> Machine(cat, X86Broker(r, cat), 72)

msk_raises(rows, cats) ==
    \E i \in DOMAIN rows :
        /\ HasSpecs(rows[i]) /\ ~Type(rows[i]).arm
        /\ \E e \in map_msk(rows[i], cats[rows[i].region]) : e.strategy = "passthrough"
        /\ ~\E j \in DOMAIN rows : j < i /\ HasSpecs(rows[j]) /\ Type(rows[j]).arm

WINDOWS_SERVER == "Windows Server"
SQL_SERVER     == "SQL Server"

\* A Windows line adds its licence, and SQL Server's when the product names it;
\* both have a pinned SKU.
map_compute_windows(r, cat) ==
    LET family == CASE Type(r).arm -> ChosenFamily(r, cat, "T2A", Sustained, {"general"}, "standard", Own("T2A"))
                    [] ~Type(r).arm /\ Type(r).workload = "burstable" ->
                           ChosenFamily(r, cat, "E2", AnyTier, {"general"}, "standard", Own("E2"))
                    [] ~Type(r).arm /\ Type(r).workload = "compute" ->
                           ChosenFamily(r, cat, "C4D", Sustained, {"compute"}, "standard", Own("C4D"))
                    [] OTHER -> ChosenFamily(r, cat, "N4D", Sustained, {"general"}, "standard", Own("N4D"))
    IN  IF ~HasSpecs(r) THEN Pass("instance", 40)
        ELSE Machine(cat, family, 82)
             \cup Out("license", "map", WINDOWS_SERVER, 82)
             \cup (IF SQL_SERVER \in r.product \cup r.op
                   THEN Out("sql_license", "map", SQL_SERVER, 82) ELSE {})

-----------------------------------------------------------------------------
\* get_gcp_family: the family of a workload and architecture, or the one before
\* it for an instance of an older generation; "none" when there is none.
get_gcp_family(r) ==
    LET workload == Type(r).workload
        key      == <<workload, IF Type(r).arm THEN "arm" ELSE "x86">>
    IN  IF key \notin DOMAIN GcpFamilies THEN None
        ELSE IF Type(r).gen < GcpFamilies[key].minGen THEN GcpFamilies[key].prev
             ELSE GcpFamilies[key].family

is_accelerator_instance(r) ==
    HasSpecs(r) /\ (Type(r).workload \in {"accelerated", "tpu"} \/ Type(r).accel # None)

\* Licences that EC2 folds into the instance price and GCP bills apart.
OracleLicensed(r) == "Oracle" \in r.product \cup r.op \/ r.engine = "oracle"

license_entries(r, cat) ==
    CASE is_accelerator_instance(r) -> {}
      [] ~is_accelerator_instance(r) /\ OracleLicensed(r) ->
             {Entry("license", "passthrough", None, 50, "no_gcp_equivalent")}
      [] ~is_accelerator_instance(r) /\ ~OracleLicensed(r)
             /\ "BYOL" \notin r.op /\ Hits(Text(r), {"RHEL", "Ubuntu Pro", "SUSE"}) ->
             MapOrPass(cat, "license", "Premium image", 85)
      [] OTHER -> {}

\* Instance store: disks have no equivalent, an unknown size is not priced.
local_ssd(r, cat) ==
    CASE Type(r).ssd = "hdd"     -> {Entry("storage", "ignore", None, 50, "no_gcp_equivalent")}
      [] Type(r).ssd = "nvme"    -> MapOrPass(cat, "storage", "Local SSD", 95)
      [] Type(r).ssd = "unknown" -> Pass("storage", 40)
      [] Type(r).ssd = None      -> {}

GceFamily(r, cat) ==
    LET own       == get_gcp_family(r)
        workload  == Type(r).workload
        tiers     == IF workload = "burstable" THEN AnyTier ELSE Sustained
        workloads == CASE workload = "compute" -> {"compute"}
                       [] workload = "storage" -> {"storage", "general"}
                       [] OTHER                -> {"general"}
        floor     == IF workload = "burstable" /\ ~Type(r).arm THEN N4DGeneration ELSE Own(own)
    IN  ChosenFamily(r, cat, own, tiers, workloads, IF Type(r).efa THEN "high" ELSE "standard", floor)

map_gce_row(r, cat) ==
    IF get_gcp_family(r) = None THEN Llm
    ELSE Machine(cat, GceFamily(r, cat), IF Type(r).workload = "burstable" THEN 85 ELSE 100)
         \cup local_ssd(r, cat)
         \cup license_entries(r, cat)

-----------------------------------------------------------------------------
no_gpu_equivalent == Pass("core", 40) \cup Pass("ram", 40)

\* Models of which Google rents a close relative.
GpuAlias(model) == CASE model = "A10G" -> "L4" [] model = "T4G" -> "T4" [] OTHER -> model

\* The GPU of the line and its host: the cheapest model in scope when the memory
\* of the model is known, the profile of the instance family otherwise.
PairedHost(m) == [family |-> m.paired, gpu |-> Gpu(m)]

GpuHost(r, cat) ==
    LET model == {m \in GpuModels : m.model = GpuAlias(Type(r).accel)}
    IN  CASE model # {} ->
                 PairedHost(cheapest_gpu_in_scope(cat.skus, CHOOSE m \in model : TRUE, Type(r).gpus,
                                                  Type(r).vcpu, Type(r).ram, cat.region))
          [] model = {} /\ r.itype \in DOMAIN GpuProfiles -> GpuProfiles[r.itype]
          [] OTHER -> [family |-> None, gpu |-> None]

GpuMachine(r, cat, host) ==
    LET alias == GpuAlias(Type(r).accel) # Type(r).accel
    IN  CASE Type(r).accel = "other" -> no_gpu_equivalent
          [] Type(r).accel # "other" /\ host.family = None -> Llm
          [] OTHER -> MapStrict(cat, "core", Core(host.family), IF Type(r).arm THEN 75 ELSE 95)
                      \cup MapStrict(cat, "ram", Ram(host.family), 95)
                      \cup MapStrict(cat, "accelerator", host.gpu, IF alias THEN 75 ELSE 95)
                      \cup (IF Type(r).ssd = "nvme" THEN MapStrict(cat, "storage", "Local SSD", 90) ELSE {})

map_gpu_row(r, cat) == GpuMachine(r, cat, GpuHost(r, cat))

\* Inferentia and Trainium chips become TPU chips at an assumed ratio.
map_tpu_row(r) ==
    IF TpuRatio = 0 THEN Pass("accelerator", 30)
    ELSE Out("accelerator", "map", "TPU", 30)

map_compute_breakdown(r, cat) ==
    CASE ~HasSpecs(r) -> Llm
      [] HasSpecs(r) /\ Type(r).workload = "tpu"         -> map_tpu_row(r)
      [] HasSpecs(r) /\ Type(r).workload = "accelerated" -> map_gpu_row(r, cat)
      [] OTHER                                            -> map_gce_row(r, cat)
=============================================================================
