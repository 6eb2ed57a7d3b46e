--------------------------- MODULE StaticMapping ---------------------------
(***************************************************************************)
(* apply_static_mappings.py as a whole: the bill lines are split by their  *)
(* mechanic group, every handler maps the lines of its group, and each     *)
(* group's result becomes one mapping file.  Lines a handler leaves to the *)
(* LLM are returned apart.                                                 *)
(***************************************************************************)
EXTENDS StorageMappers, NetworkMappers, RequestMappers, ServiceMappers, ComputeMappers,
        FiniteSets

\* The handlers table of main: every deterministic group except the credits,
\* and three groups the LLM is asked about as well.
STATIC_GROUPS ==
    (DETERMINISTIC_GROUPS \ {"negative_cost"})
        \cup {"compute_breakdown", "managed_db", "opensearch"}

\* The handler of group g on row i of its batch.
handler(g, rows, i, cats) ==
    LET r   == rows[i]
        cat == cats[r.region]
    IN  CASE g = "flat_hourly"            -> map_flat_hourly(rows, i, cats)
          [] g = "object_storage"         -> map_object_storage(r, cat)
          [] g = "per_request"            -> map_per_request(rows, i, cats)
          [] g = "block_storage"          -> map_block_storage(r, cat)
          [] g = "data_transfer"          -> map_data_transfer(r, cat)
          [] g = "non_workload"           -> map_non_workload(r, cat)
          [] g = "cloudwatch"             -> map_cloudwatch(r, cat)
          [] g = "guardduty"              -> map_guardduty(r)
          [] g = "inspector"              -> map_inspector(r)
          [] g = "marketplace_thirdparty" -> map_marketplace(r)
          [] g = "quicksight"             -> map_quicksight(r)
          [] g = "redshift"               -> map_redshift(r, cat)
          [] g = "athena"                 -> map_athena(r, cat)
          [] g = "kinesis"                -> map_kinesis(r)
          [] g = "efs"                    -> map_efs(r, cat)
          [] g = "xray"                   -> map_xray(r, cat)
          [] g = "fsx"                    -> map_fsx(r, cat)
          [] g = "emr"                    -> map_emr(r, cat)
          [] g = "elasticache"            -> map_elasticache(r, cat)
          [] g = "msk"                    -> map_msk(r, cat)
          [] g = "compute_windows"        -> map_compute_windows(r, cat)
          [] g = "compute_arm"            -> map_compute_arm(r, cat)
          [] g = "compute_burstable"      -> map_compute_burstable(r, cat)
          [] g = "compute_breakdown"      -> map_compute_breakdown(r, cat)
          [] g = "commitment_discount"    -> map_commitment_discount(r, cat)
          [] g = "managed_db"             -> map_managed_db(r, cat)
          [] g = "opensearch"             -> map_opensearch(r, cat)
          [] g = "rds_extended_support"   -> map_rds_extended_support(r, cat)
          [] g = "glue"                   -> map_glue(r, cat)
          [] g = "shield"                 -> map_shield(rows, i, cats)
          [] g = "dynamodb_storage"       -> map_dynamodb_storage(r, cat)
          [] g = "dynamodb_capacity"      -> map_dynamodb_capacity(r, cat)
          [] g = "mwaa"                   -> map_mwaa(r)
          [] g = "ssm_parameter_store"    -> map_ssm_parameter_store(r)

\* An exception in a handler: the whole group is carried at cost.
raises(g, rows, cats) ==
    CASE g = "per_request" -> per_request_raises(rows, cats)
      [] g = "msk"         -> msk_raises(rows, cats)
      [] OTHER             -> FALSE

mapper_error == {Entry(None, "passthrough", None, 0, "mapper_error")}

\* break_down: the rows of one line are the parts of one machine.
break_down(g, r, e) ==
    CASE g = "glue" -> TRUE
      [] g = "compute_breakdown" -> HasSpecs(r) /\ Type(r).workload # "tpu"
      [] g = "managed_db" -> ~Acu(r)
      [] OTHER -> FALSE

\* unit_multiplier of the parts that count vCPUs, GiB or GPUs; the other unit
\* conversions are 1 here.
unit_multiplier(r, e) ==
    CASE ~HasSpecs(r) \/ e.strategy # "map" -> 1
      [] HasSpecs(r) /\ e.strategy = "map" /\ e.comp = "core"        -> Type(r).vcpu
      [] HasSpecs(r) /\ e.strategy = "map" /\ e.comp = "ram"         -> Type(r).ram
      [] HasSpecs(r) /\ e.strategy = "map" /\ e.comp = "accelerator" -> Type(r).gpus
      [] OTHER -> 1

\* A row of a mapping file, keyed by the line it maps.
MappingRow(key, r, g, e) ==
    [key |-> key, comp |-> e.comp, strategy |-> e.strategy, sku |-> e.sku, name |-> e.name,
     mult |-> unit_multiplier(r, e), conf |-> e.conf, reason |-> e.reason,
     bd |-> break_down(g, r, e), svcOk |-> TRUE]

\* The batch of a group: its lines under their places in the bill, whose order the
\* handlers go by.
Batch(bill, group, g) == [k \in {q \in DOMAIN bill : group[q] = g} |-> bill[k]]

\* What the handler of g says of each line of its batch.
BatchEntries(g, rows, cats) ==
    [i \in DOMAIN rows |-> IF raises(g, rows, cats) THEN mapper_error ELSE handler(g, rows, i, cats)]

\* The mapped rows, and the keys left to the LLM.
HandlerResult(rows, g, entries) ==
    [rows |-> UNION {{MappingRow(i, rows[i], g, e) : e \in entries[i]} : i \in DOMAIN rows},
     llm  |-> {i \in DOMAIN rows : entries[i] = Llm}]

run_handler(bill, group, g, cats) ==
    LET rows == Batch(bill, group, g)
    IN  HandlerResult(rows, g, BatchEntries(g, rows, cats))
=============================================================================
