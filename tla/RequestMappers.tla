--------------------------- MODULE RequestMappers ---------------------------
(***************************************************************************)
(* The per_request group of phase 2: KMS, DNS, Secrets Manager, Fargate,   *)
(* S3 requests, Lambda and the request meters of PER_REQUEST_MAP.          *)
(***************************************************************************)
EXTENDS MappingEntries

CONSTANTS
    DefaultX86,     \* the sustained default families, elements of Families
    DefaultArm

\* map_lambda: a GB-second is memory and CPU, an invocation is one request.
map_lambda(r, cat) ==
    LET gbSecond == r.unit = "lambda-gb-second" \/ Hits(r.usage \cup r.product, {"Lambda-GB-Second"})
    IN  CASE gbSecond -> MapOrPass(cat, "memory", "Functions Memory", 85)
                         \cup MapOrPass(cat, "cpu", "Functions CPU", 85)
          [] ~gbSecond /\ (r.unit \in {"requests", "count"}
                           \/ Hits(r.usage, {"Requests", "Invocations"})) ->
                 MapOrPass(cat, "requests", "Functions Invocations", 85)
          [] OTHER -> Pass("requests", 50)

KmsRequests(r) == \/ "Requests" \in r.usage
                  \/ "operation" \in AnyText(r)
                  \/ r.unit \in {"requests", "count"}
KmsKeys(r) == "Keys" \in AnyText(r) \/ r.unit \in {"keys", "key-mo"}

map_kms(r, cat) ==
    IF KmsRequests(r) THEN MapOrPass(cat, "requests", "KMS Software Operations", 90)
    ELSE MapOrPass(cat, "keys",
                   CASE "xks" \in AnyText(r)  -> "KMS External Keys"
                     [] "xks" \notin AnyText(r) /\ "hsm" \in AnyText(r) -> "KMS HSM Keys"
                     [] OTHER                 -> "KMS Software Keys", 90)

\* The Secret Manager SKUs are pinned: the row is priced wherever they resolve.
map_secrets(r) ==
    IF "Requests" \in r.usage \/ Hits(AnyText(r), {"operation", "api"})
       \/ r.unit \in {"requests", "count"}
    THEN Out("requests", "map", "Secret Access Operations", 90)
    ELSE Out("secrets", "map", "Active Secret Version", 90)

-----------------------------------------------------------------------------
Fargate(r)          == "Fargate" \in r.product \cup r.usage
FargateArm(r)       == "ARM" \in r.product \cup r.usage
FargateComponent(r) == IF "memory" \in r.product \cup r.usage THEN "memory" ELSE "vcpu"

AutopilotClasses(comp, arch) ==
    CASE arch = "x86" -> {"Autopilot " \o comp, "Autopilot Balanced " \o comp,
                          "Autopilot Scale-Out x86 " \o comp}
      [] arch = "arm" /\ comp = "vcpu"   -> {"Autopilot Scale-Out Arm vcpu"}
      [] arch = "arm" /\ comp = "memory" -> {"Autopilot Arm memory", "Autopilot Scale-Out Arm memory"}

CheapestDesc(cat, descs) ==
    LET Rate(d) == family_hourly_rate(cat.skus, d, cat.region)
        priced  == {d \in descs : Rate(d) # NoRate}
    IN  IF priced = {} THEN None
        ELSE CHOOSE d \in priced : \A e \in priced : Rate(d) <= Rate(e)

\* The Autopilot class of the line's architecture, x86 when no Arm class is
\* sold here; then the cheaper of it and Cloud Run.
AutopilotChoice(r, cat) ==
    LET comp == FargateComponent(r)
        arm  == CheapestDesc(cat, AutopilotClasses(comp, "arm"))
    IN  IF FargateArm(r) /\ arm # None THEN arm
        ELSE CheapestDesc(cat, AutopilotClasses(comp, "x86"))

ManagedChoice(r, cat) ==
    CheapestDesc(cat, {d \in {AutopilotChoice(r, cat), "Cloud Run " \o FargateComponent(r)} : d # None})

\* Self-managed nodes: C4A for Arm, else the cheapest sustained x86 family.
NodeDesc(label, comp) == IF comp = "vcpu" THEN Core(label) ELSE Ram(label)

ComputeEngineChoice(r, cat) ==
    LET comp == FargateComponent(r)
        x86  == cheapest_in_scope(cat.skus, DefaultX86,
                                  IF comp = "vcpu" THEN 1 ELSE 0, IF comp = "vcpu" THEN 0 ELSE 1,
                                  cat.region, {"x86"}, {"sustained"}, {"general"}, "standard", 0).label
        Has(d) == family_hourly_rate(cat.skus, d, cat.region) # NoRate
    IN  CASE FargateArm(r) /\ Has(NodeDesc(DefaultArm.label, comp)) -> NodeDesc(DefaultArm.label, comp)
          [] ~(FargateArm(r) /\ Has(NodeDesc(DefaultArm.label, comp))) /\ Has(NodeDesc(x86, comp)) ->
                 NodeDesc(x86, comp)
          [] OTHER -> None

FargateTarget(r, cat, managed) == IF managed # None THEN managed ELSE ComputeEngineChoice(r, cat)
FargateChoice(r, cat) == FargateTarget(r, cat, ManagedChoice(r, cat))

FargateConf(r, cat, sku) ==
    CASE sku # ManagedChoice(r, cat) -> 45
      [] sku = ManagedChoice(r, cat) /\ FargateArm(r)
             /\ CheapestDesc(cat, AutopilotClasses(FargateComponent(r), "arm")) = None -> 60
      [] OTHER -> 78

-----------------------------------------------------------------------------
S3(r) == "s3" \in r.product \/ r.canonical = "s3"

map_s3_requests(r) ==
    CASE Hits(Text(r), {"StorageLens"}) -> Ignore("requests", 90)
      [] ~Hits(Text(r), {"StorageLens"}) /\ Hits(Text(r), {"lifecycle", "replication"}) ->
             Pass("requests", 45)
      [] ~Hits(Text(r), {"StorageLens", "lifecycle", "replication"})
             /\ Hits(Text(r), {"Requests-Tier", "Select"}) -> Pass("requests", 85)
      [] OTHER -> Pass("requests", 40)

\* PER_REQUEST_MAP: the service, "map" with a SKU or a passthrough confidence.
PER_REQUEST_MAP == <<
    <<"sqs", 55>>, <<"sns", 55>>, <<"kinesis", 55>>, <<"ai", 50>>,
    <<"Bot Control Targeted", 72>>, <<"Bot Control", 50>>, <<"waf", 78>> >>

REQUEST_SKUS == <<
    <<"apigateway", "API Gateway Requests">>, <<"stepfunctions", "Workflow Steps">>,
    <<"eventbridge", "Eventarc Events">>, <<"route53", "DNS Query">> >>

map_request_meter(r, cat) ==
    LET sku == FirstIn(REQUEST_SKUS, r.usage \cup r.product, None)
    IN  CASE sku # None -> MapOrPass(cat, "requests", sku,
                                     IF "apigateway" \in r.product THEN 55 ELSE 85)
          [] OTHER      -> Pass("requests", FirstIn(PER_REQUEST_MAP, AnyText(r), 40))

\* The kind of line decides which branch of the loop treats it.
RequestKind(r) ==
    CASE "lambda" \in r.product \cup r.usage \/ r.canonical = "lambda" -> "lambda"
      [] OTHER ->
         IF "CloudFront" \in r.product /\ "origin shield" \in AnyText(r) THEN "free"
         ELSE IF ("kms" \in r.product \/ r.canonical = "kms") /\ (KmsRequests(r) \/ KmsKeys(r)) THEN "kms"
         ELSE IF "route53" \in r.product /\ "HostedZone" \in Text(r) THEN "zone"
         ELSE IF "secretsmanager" \in r.product \/ r.canonical = "secretsmanager" THEN "secrets"
         ELSE IF "backup" \in r.product /\ "Backup-Creation" \in r.usage THEN "backup"
         ELSE IF Fargate(r) THEN "fargate"
         ELSE IF S3(r) THEN "s3"
         ELSE IF "CloudFront" \in r.product /\ Hits(Text(r), {"Requests", "https"}) THEN "cdn"
         ELSE "meter"

\* The loop variables sku_id and gcp_service outlive the row that sets them.
\* Secrets, S3 and request meters assign sku_id, a Fargate row only when it finds
\* a target; gcp_service is assigned by Fargate rows alone.
SetsSku(r, target) == RequestKind(r) \in {"secrets", "s3", "meter"} \/ target # None

SkuSet(r, cat, target) ==
    CASE RequestKind(r) = "fargate" -> target
      [] RequestKind(r) = "secrets" -> (CHOOSE e \in map_secrets(r) : TRUE).sku
      [] RequestKind(r) = "meter"   -> (CHOOSE e \in map_request_meter(r, cat) : TRUE).sku
      [] OTHER                      -> None

\* What each Fargate row of the batch is mapped to, None for the others.
Targets(rows, cats) ==
    [j \in DOMAIN rows |-> IF RequestKind(rows[j]) = "fargate"
                           THEN FargateChoice(rows[j], cats[rows[j].region]) ELSE None]

\* sku_id as row i finds it.
StaleSku(rows, i, cats, targets) ==
    LET setters == {j \in DOMAIN rows : j < i /\ SetsSku(rows[j], targets[j])}
        last    == CHOOSE j \in setters : \A k \in setters : k <= j
    IN  SkuSet(rows[last], cats[rows[last].region], targets[last])

\* An untargeted Fargate row before any targeted one raises UnboundLocalError,
\* which fails the whole group.
RaisesUnbound(rows, targets) ==
    \E i \in DOMAIN rows : /\ RequestKind(rows[i]) = "fargate" /\ targets[i] = None
                           /\ \A j \in DOMAIN rows : j < i => targets[j] = None

per_request_raises(rows, cats) == RaisesUnbound(rows, Targets(rows, cats))

FargateEntry(rows, i, cats, targets) ==
    LET r    == rows[i]
        comp == FargateComponent(r)
        left == StaleSku(rows, i, cats, targets)
    IN  CASE targets[i] # None -> Out(comp, "map", targets[i], FargateConf(r, cats[r.region], targets[i]))
          [] targets[i] = None -> Out(comp, IF left = None THEN "passthrough" ELSE "map", left, 30)

map_fargate(rows, i, cats) == FargateEntry(rows, i, cats, Targets(rows, cats))

map_per_request(rows, i, cats) ==
    LET r   == rows[i]
        cat == cats[r.region]
    IN  CASE RequestKind(r) = "lambda"  -> map_lambda(r, cat)
          [] RequestKind(r) = "free"    -> Ignore("requests", 95)
          [] RequestKind(r) = "kms"     -> map_kms(r, cat)
          [] RequestKind(r) = "zone"    -> MapOrPass(cat, "zones", "ManagedZone", 90)
          [] RequestKind(r) = "secrets" -> map_secrets(r)
          [] RequestKind(r) = "backup"  -> Pass("requests", 45)
          [] RequestKind(r) = "fargate" -> map_fargate(rows, i, cats)
          [] RequestKind(r) = "s3"      -> map_s3_requests(r)
          [] RequestKind(r) = "cdn"     -> Ignore("requests", 90)
          [] RequestKind(r) = "meter"   -> map_request_meter(r, cat)
=============================================================================
