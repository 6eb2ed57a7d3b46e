--------------------------- MODULE MechanicRules ---------------------------
(***************************************************************************)
(* Phase 2, first step: the mechanic group of a bill line                  *)
(* (classify_mechanics.py and spec_dispatch.py).                           *)
(*                                                                         *)
(* A bill line r is a record.  The text columns are abstracted to the set  *)
(* of patterns of the code that occur in them: r.product, r.usage and r.op *)
(* are sets of pattern names, r.op with those of the operating system and  *)
(* the licence model, r.name is the product text where the code            *)
(* compares it as a whole, and "x" \in r.product also stands for the       *)
(* spelling variants one rule lists for service x.  r.unit is the trimmed, *)
(* lower-case pricing unit.                                                *)
(***************************************************************************)
EXTENDS Integers, Sequences

CONSTANT Specs      \* service_specs.json: canonical service |-> charge types

HourlyUnits == {"hrs", "hours", "hour", "hr", "accelerator-hours", ""}
GBMonth == {"gb-mo", "gb month", "gb-month"}

Hits(text, patterns) == text \cap patterns # {}
Text(r) == r.usage \cup r.op
AnyText(r) == r.usage \cup r.op \cup r.product

\* A rule of the form  _ilike(product, <spellings of svc>) or canonical == svc.
Is(r, svcs) == Hits(r.product, svcs) \/ r.canonical \in svcs

is_hourly_unit(r) == r.unit \in HourlyUnits

DETERMINISTIC_GROUPS ==
    {"commitment_discount", "negative_cost", "flat_hourly", "object_storage",
     "per_request", "block_storage", "data_transfer", "non_workload",
     "cloudwatch", "guardduty", "inspector", "marketplace_thirdparty",
     "quicksight", "redshift", "athena", "kinesis", "efs", "xray", "fsx",
     "emr", "elasticache", "msk", "rds_extended_support", "glue", "shield",
     "dynamodb_storage", "dynamodb_capacity", "mwaa", "ssm_parameter_store",
     "compute_windows", "compute_arm", "compute_burstable"}

-----------------------------------------------------------------------------
\* The rules, one operator per family, in the order of the code.

\* r.discounted is _bill_has_discounted_usage: some line of the bill is a
\* DiscountedUsage line, so that the fees are already in an effective rate.
commitment_discount(r) ==
    \/ /\ r.discounted
       /\ \/ r.lit \in {"RIFee", "SavingsPlanRecurringFee"}
          \/ r.pm \in {"Reserved", "SavingsPlan"}
    \/ r.lit = "EdpDiscount"
    \/ Hits(r.product, {"Savings Plans", "Discounts"})

TransferText == {"data transfer out", "data transfer in", "per gb transfer"}

non_workload(r) ==
    \/ Hits(r.product \cup r.op, {"Marketplace", "Support"})
    \/ r.name = "Bandwidth" /\ ~Hits(r.op, TransferText)
    \/ Hits(r.usage \cup r.product, {"CPUCredits"})
    \/ r.name = "Ingestion Materiality Adjustment"

Windows(r) == "running Windows" \in r.usage \/ "Windows" \in r.op

compute_windows(r) ==
    /\ Is(r, {"ec2"})
    /\ Windows(r)
    /\ is_hourly_unit(r)
    /\ ~r.accel

compute_burstable(r) ==
    /\ Is(r, {"ec2"})
    /\ \/ "BoxUsage:t" \in r.usage
       \/ r.usage = {} /\ "t-instance" \in r.op
    /\ is_hourly_unit(r)
    /\ ~Windows(r)

compute_arm(r) ==
    /\ Is(r, {"ec2"})
    /\ "BoxUsage:g" \in r.usage
    /\ is_hourly_unit(r)
    /\ ~r.accel
    /\ ~Windows(r)

OtherInstanceServices ==
    {"rds", "aurora", "elasticache", "documentdb", "memorydb", "neptune",
     "qldb", "timestream", "emr", "sagemaker"}

compute_breakdown(r) ==
    /\ Is(r, {"ec2"}) \/ "instance type" \in Text(r)
    /\ ~Is(r, OtherInstanceServices)
    /\ \/ Hits(r.usage, {"BoxUsage", "BoxUsage:t", "BoxUsage:g", "HeavyUsage",
                         "SpotUsage", "ReservedInstances", "running Linux"})
       \/ "Instance hour" \in r.op
    /\ is_hourly_unit(r)

\* Aurora I/O operations: caught before managed_db and the storage rule.
database_io(r) ==
    /\ Is(r, {"rds", "aurora"})
    /\ Hits(Text(r), {"IOOp", "StorageIOUsage", "per IO", "ReplicatedWriteIO"})
    /\ "IOOptimizedStorage" \notin Text(r)
    /\ r.unit # "gb-mo"

managed_db(r) ==
    /\ Is(r, {"rds", "aurora", "documentdb"})
    /\ \/ r.unit \in {"hrs", "hours", "hour", "hr", "acu-hrs", "acu-hours", "acu-hr"}
       \/ r.lit \in {"DiscountedUsage", "SavingsPlanCoveredUsage"}
       \/ Hits(r.usage, {"InstanceUsage", "RDS:Proxy"})
       \/ "ServerlessV2" \in r.usage /\ "IOOp" \notin r.usage

ColdTiers == {"Infrequent Access", "Glacier", "Intelligent-Tiering", "Deep Archive"}
DiskTypes == {"gp2", "gp3", "io1", "io2", "sc1", "st1"}

block_storage(r) ==
    \/ r.canonical = "msk" /\ (r.unit \in GBMonth \/ "Storage" \in Text(r))
    \/ "Elastic Block" \in r.product /\ ~Hits(r.op, ColdTiers)
    \/ Hits(r.usage, DiskTypes \cup {"EBS:Volume", "EBS:Snapshot"})
    \/ /\ "Storage" \in r.usage
       /\ Is(r, {"ec2", "ebs", "rds", "aurora", "documentdb", "neptune", "backup"})
    \/ Hits(r.op, {"GP3-Storage", "provisioned storage", "snapshot data stored"})
    \/ /\ Is(r, {"rds", "aurora", "documentdb"})
       /\ \/ r.unit \notin {"hrs", "hours", "hr", "hour", ""}
          \/ r.unit = "" /\ Hits(Text(r), {"iops-mo", "gb-mo", "Storage", "snapshot", "backup"})

data_transfer(r) ==
    \/ Is(r, {"datatransfer"})
    \/ r.name = "Bandwidth" /\ Hits(r.op, TransferText)
    \/ Hits(r.usage, {"DataTransfer", "NatGateway-Bytes", "TransitGateway-Bytes",
                      "LCUUsage", "LoadBalancer-Bytes", "Out-Bytes", "In-Bytes"})
    \/ Hits(r.op, {"TransitGateway-Bytes", "LCU-Hrs"})
    \/ "VpcPeering-Bytes" \in r.product
    \/ "NatGateway" \in r.product /\ r.usage = {}
    \/ "CloudFront" \in r.product /\ Hits(r.op, TransferText)

flat_hourly(r) ==
    /\ \/ Hits(r.usage, {"LoadBalancerUsage", "NatGateway-Hours", "ElasticIP", "PublicIPv4",
                         "TransitGateway-Hours", "DirectConnect", "GlobalAccelerator",
                         "VPN-Connections", "EKS-Hours", "WebACL-Hour", "Rule-Hour"})
       \/ Hits(r.op, {"LoadBalancer", "public IPv4 address", "TransitGateway-Hours",
                      "DirectConnect", "Global Accelerator", "VPN", "Web ACL"})
       \/ Is(r, {"directconnect", "globalaccelerator", "eks"})
    /\ is_hourly_unit(r)
    /\ "Fargate" \notin r.product \cup r.usage

waf_requests(r) ==
    /\ Is(r, {"waf"})
    /\ Hits(Text(r), {"Requests", "Captcha", "Challenge", "Web ACL", "WAF Rule"})

s3_requests(r) == Is(r, {"s3"}) /\ "Requests-Tier" \in r.usage

per_request(r) ==
    /\ \/ r.unit \in {"requests", "lambda-gb-second", "count"}
       \/ Hits(r.usage \cup r.product, {"Requests", "Invocations"})
       \/ "Lambda-GB-Second" \in r.product
       \/ "Fargate" \in r.product \cup r.usage
       \/ Is(r, {"apigateway"})
       \/ /\ "s3" \in r.product
          /\ r.unit \notin GBMonth
          /\ ~Hits(r.usage, {"TimedStorage", "ByteHrs"})
          /\ ~ /\ Hits(r.op, ColdTiers)
               /\ ~Hits(r.op, {"Request", "Data Returned", "Select"})
    /\ ~Hits(r.product, {"cognito", "dynamodb", "ses", "guardduty", "securityhub", "waf"})
    /\ r.canonical # "waf"
    /\ ~s3_requests(r)

msk(r) ==
    /\ Is(r, {"msk"})
    /\ "Kafka." \in Text(r) \/ "broker hour" \in r.op
    /\ is_hourly_unit(r)

dynamodb_capacity(r) ==
    /\ Is(r, {"dynamodb"})
    /\ Hits(Text(r), {"CapacityUnit", "RequestUnits", "RCU", "WCU"})

kinesis(r) ==
    /\ Is(r, {"kinesis"})
    /\ is_hourly_unit(r) \/ r.unit \in {"shard-hrs", "shardhours"}

glue(r) == Is(r, {"glue"}) /\ (r.unit = "dpu-hour" \/ "DPU-Hour" \in r.usage)

object_storage(r) ==
    /\ \/ Is(r, {"s3"}) /\ "lambda" \notin r.product
       \/ Hits(r.op, ColdTiers)
    /\ \/ r.unit \in GBMonth /\ ~Hits(r.op, {"Request", "Retrieval", "Data Returned", "Select"})
       \/ Hits(r.usage, {"TimedStorage", "ByteHrs"})
       \/ Hits(r.op, ColdTiers) /\ ~Hits(r.op, {"Request", "Data Returned", "Select"})

\* A product that is neither Amazon's nor AWS's and that nothing recognises.
marketplace_thirdparty(r) ==
    r.name # "" /\ ~r.awsBranded /\ r.canonical = "none"

\* RULES: <<group, test>> in the order of the code; the first that holds wins.
ExclusionRules(r) == <<
    <<"negative_cost", r.cost < 0>>,
    <<"commitment_discount", commitment_discount(r)>>,
    <<"cloudwatch", Is(r, {"cloudwatch"})>>,
    <<"non_workload", non_workload(r)>> >>

ComputeRules(r) == <<
    <<"compute_windows", compute_windows(r)>>,
    <<"compute_burstable", compute_burstable(r)>>,
    <<"compute_arm", compute_arm(r)>>,
    <<"opensearch", Is(r, {"opensearch"})>>,
    <<"compute_breakdown", compute_breakdown(r)>>,
    <<"rds_extended_support", "ExtendedSupport" \in r.usage>> >>

StorageRules(r) == <<
    <<"block_storage", database_io(r)>>,
    <<"managed_db", managed_db(r)>>,
    <<"efs", Is(r, {"efs"})>>,
    <<"fsx", Is(r, {"fsx"})>>,
    <<"block_storage", block_storage(r)>> >>

NetworkRules(r) == <<
    <<"data_transfer", data_transfer(r)>>,
    <<"xray", Is(r, {"xray"})>>,
    <<"flat_hourly", flat_hourly(r)>>,
    <<"per_request", waf_requests(r)>>,
    <<"per_request", s3_requests(r)>>,
    <<"per_request", per_request(r)>> >>

ManagedRules(r) == <<
    <<"elasticache", Is(r, {"elasticache", "dax", "memorydb"})>>,
    <<"msk", msk(r)>>,
    <<"guardduty", Is(r, {"guardduty", "securityhub"})>>,
    <<"inspector", Is(r, {"inspector"})>>,
    <<"mwaa", Is(r, {"mwaa"})>>,
    <<"ssm_parameter_store", Is(r, {"ssm"}) /\ "PS-Param" \in r.usage>> >>

DataRules(r) == <<
    <<"dynamodb_storage", Is(r, {"dynamodb"}) /\ "TimedStorage" \in r.usage>>,
    <<"dynamodb_capacity", dynamodb_capacity(r)>>,
    <<"shield", Is(r, {"shield"}) /\ "MonthlyFee" \in r.usage>>,
    <<"quicksight", Is(r, {"quicksight"})>>,
    <<"redshift", Is(r, {"redshift"})>>,
    <<"athena", Is(r, {"athena"})>>,
    <<"kinesis", kinesis(r)>>,
    <<"emr", Is(r, {"emr"})>>,
    <<"glue", glue(r)>> >>

LateRules(r) == <<
    <<"per_request", Is(r, {"route53"}) /\ "Recovery Controller" \notin r.product>>,
    <<"per_request", Is(r, {"kms", "secretsmanager"})>>,
    <<"per_request", Is(r, {"waf"}) /\ ~Hits(Text(r), {"WebACL-Hour", "Rule-Hour", "Web ACL", "Month"})>>,
    <<"flat_hourly", Is(r, {"waf"}) /\ "Month" \in r.op>>,
    <<"object_storage", object_storage(r)>>,
    <<"marketplace_thirdparty", marketplace_thirdparty(r)>> >>

RULES(r) == ExclusionRules(r) \o ComputeRules(r) \o StorageRules(r) \o NetworkRules(r)
               \o ManagedRules(r) \o DataRules(r) \o LateRules(r)

classify_long_tail(r) ==
    LET matching == {i \in DOMAIN RULES(r) : RULES(r)[i][2]}
    IN  IF matching = {} THEN "misc"
        ELSE RULES(r)[CHOOSE i \in matching : \A j \in matching : i <= j][1]

-----------------------------------------------------------------------------
\* spec_dispatch.py.  A charge type is a record [id, match, anyOf, fallback,
\* parsed, exclude, lits, mechanic, children]; a block is a record [need, avoid]
\* of pattern sets per column and [units, hourly]; absent parts are empty.
eval_block(b, r) ==
    /\ \A n \in b.need : Hits(CASE n[1] = "usage" -> r.usage
                                [] n[1] = "op" -> r.op
                                [] n[1] = "product" -> r.product
                                [] n[1] = "any" -> AnyText(r), n[2])
    /\ \A n \in b.avoid : ~Hits(CASE n[1] = "usage" -> r.usage
                                  [] n[1] = "op" -> r.op
                                  [] n[1] = "any" -> AnyText(r), n[2])
    /\ b.units # {} => r.unit \in b.units
    /\ b.hourly => is_hourly_unit(r)
    /\ b.noaccel => ~r.accel

charge_type_matches(ct, r) ==
    /\ ~\E b \in ct.exclude : eval_block(b, r)
    /\ \/ /\ eval_block(ct.match, r)
          /\ ct.anyOf # {} => \E b \in ct.anyOf : eval_block(b, r)
       \/ \E b \in ct.fallback : eval_block(b, r)
       \/ r.lit \in ct.lits

FirstMatch(cts, r) ==
    LET hit == {i \in DOMAIN cts : charge_type_matches(cts[i], r)}
    IN  IF hit = {} THEN 0 ELSE CHOOSE i \in hit : \A j \in hit : i <= j

\* dispatch: the mechanic of the first charge type that matches, of its first
\* matching child when it is a group; "none" when nothing matches.
dispatch(r) ==
    IF r.canonical \notin DOMAIN Specs THEN "none"
    ELSE LET cts == Specs[r.canonical]
             i   == FirstMatch(cts, r)
         IN  IF i = 0 THEN "none"
             ELSE LET kids == cts[i].children
                      k    == FirstMatch(kids, r)
                  IN  IF k # 0 THEN kids[k].mechanic ELSE cts[i].mechanic

\* classify_via_specs_with_trace: exclusions first, then the service's spec, a
\* spec without a matching charge type is misc, no spec is the long tail.
classify(r) ==
    IF r.cost < 0 THEN "negative_cost"
    ELSE IF commitment_discount(r) THEN "commitment_discount"
    ELSE IF non_workload(r) THEN "non_workload"
    ELSE IF dispatch(r) # "none" THEN dispatch(r)
    ELSE IF r.canonical \in DOMAIN Specs THEN "misc"
    ELSE classify_long_tail(r)

-----------------------------------------------------------------------------
\* _misc_reason: the strategy the manifest recommends to the LLM for a row no
\* rule claims, and whether the bill lacks the detail to say more.
has_instance_data(r) == r.itype # "none"

data_gap(r) ==
    /\ r.canonical # "none" \/ r.cost > 0
    /\ r.unit = "" /\ r.op = {} /\ r.usage = {} /\ ~has_instance_data(r)

info_completeness(r) ==
    CASE has_instance_data(r) \/ r.usage # {} -> "full"
      [] "sizing" \in r.op                     -> "partial"
      [] OTHER                                 -> "minimal"

SelfHosted == {"opensearch", "msk"}
PassthroughServices == {"ses"}
SizingSensitive == {"eks", "ecs", "glue"}
HintedServices == SelfHosted \cup PassthroughServices \cup SizingSensitive \cup {"cognito", "dynamodb"}

misc_strategy(r) ==
    CASE data_gap(r)                              -> "passthrough"
      [] ~data_gap(r) /\ r.accel                  -> "passthrough"
      [] ~data_gap(r) /\ ~r.accel /\ Hits(r.product, SelfHosted) ->
             IF has_instance_data(r) THEN "break_down" ELSE "map"
      [] ~data_gap(r) /\ ~r.accel /\ ~Hits(r.product, SelfHosted)
             /\ Hits(r.product, HintedServices)   ->
             IF \/ Hits(r.product, PassthroughServices)
                \/ Hits(r.product, SizingSensitive) /\ info_completeness(r) = "minimal"
             THEN "passthrough" ELSE "map"
      [] OTHER -> IF info_completeness(r) = "minimal" THEN "passthrough" ELSE "map"
=============================================================================
