---------------------------- MODULE MappingMerge ----------------------------
(***************************************************************************)
(* From the mapping files of phase 2 to the mapping table: the merge       *)
(* (merge_mappings.py), the SKU lookup by intent it uses (resolve_sku.py)  *)
(* and the three scripts that rewrite the merged table: the service policy *)
(* (service_classifier.py), the storage backstop (fix_storage_misroute.py) *)
(* and the capacity check (reconcile_capacity.py).                         *)
(*                                                                         *)
(* All SKUs with one description are one SKU here, named by it.  Units are *)
(* dimension names: "time", "data-time", "data", "count", "seat".          *)
(***************************************************************************)
EXTENDS StaticMapping

CONSTANTS
    Words,          \* SKU name or description |-> the set of its words
    UnitOf,         \* description |-> dimension of the unit it is sold in
    Synthetic,      \* SKUs that exist outside the catalogue
    ServicePolicy   \* service_map.json: sequence of [match, mode, conf]

Min2(a, b) == IF a < b THEN a ELSE b
Max2(a, b) == IF a > b THEN a ELSE b

CapConf(row, cap) == [row EXCEPT !.conf = Min2(@, cap)]

Mapped(row) == row.strategy \in {"map", "break_down"}

\* _score_sku_match: words in common, at least two for a name of three words.
score_sku_match(desc, name) ==
    LET overlap == Cardinality(Words[desc] \cap Words[name])
    IN  IF overlap < (IF Cardinality(Words[name]) >= 3 THEN 2 ELSE 1) THEN 0 ELSE overlap

\* infer_expected_unit: what the mechanic group is metered in.
infer_expected_unit(group, comp) ==
    CASE group \in {"compute_breakdown", "compute_windows", "compute_arm", "compute_burstable",
                    "flat_hourly", "opensearch", "rds_extended_support", "emr", "mwaa"} -> "time"
      [] group \in {"block_storage", "object_storage", "dynamodb_storage", "efs", "fsx"} -> "data-time"
      [] group \in {"managed_db", "elasticache", "msk", "redshift"} ->
             IF comp \in {"core", "ram", "instance", "node"} THEN "time" ELSE "data-time"
      [] group = "data_transfer" -> "data"
      [] group \in {"per_request", "athena", "kinesis", "xray", "ssm_parameter_store"} -> "count"
      [] group = "quicksight" -> "seat"
      [] OTHER -> None

compatible(a, b) == a = b

\* resolve_intent_to_sku: the best-scoring priced description, one of the region
\* only if it scores no worse than the best of all; then its unit has to fit.
resolve_intent_to_sku(skus, name, region, group, comp) ==
    LET candidates == {s \in skus : /\ s.kind = "ondemand" /\ s.rate > 0
                                    /\ score_sku_match(s.desc, name) > 0}
        Better(s, t) ==
            \/ score_sku_match(s.desc, name) > score_sku_match(t.desc, name)
            \/ /\ score_sku_match(s.desc, name) = score_sku_match(t.desc, name)
               /\ Cardinality(Words[s.desc]) < Cardinality(Words[t.desc])
        Best(set) == CHOOSE s \in set : /\ \A t \in set : ~Better(t, s)
                                        /\ \A t \in set : ~Better(s, t) => s.id <= t.id
        exact == {s \in candidates : InRegion(s, region)}
        match == IF exact # {} /\ ~Better(Best(candidates), Best(exact))
                 THEN Best(exact) ELSE Best(candidates)
        unit  == infer_expected_unit(group, comp)
    IN  CASE name \notin DOMAIN Words \/ candidates = {} -> None
          [] OTHER -> IF unit = None \/ compatible(UnitOf[match.desc], unit) THEN match.desc ELSE None

-----------------------------------------------------------------------------
valid_skus(skus) == {s.desc : s \in {t \in skus : t.rate > 0}}

\* validate_row: rows without a strategy or for an unknown line are rejected.
\* A clean row has no passthrough_reason: the field is not among the copied ones.
valid_row(row, keys) == row.key \in keys /\ row.strategy # None
clean_row(row)       == [row EXCEPT !.reason = None]

Downgrade(row) == CapConf([row EXCEPT !.strategy = "passthrough", !.sku = None], 40)

\* One row of the merge: the service and the SKU have to exist, a missing SKU is
\* looked up by its name.  A row with neither is left to the rate step.
merge_row(row, skus, region, group) ==
    LET checked == IF Mapped(row) /\ ~row.svcOk THEN Downgrade(row) ELSE row
        capped  == IF skus = {} /\ Mapped(checked) /\ checked.sku # None
                   THEN CapConf(checked, 50) ELSE checked
        found   == resolve_intent_to_sku(skus, capped.name, region, group, capped.comp)
    IN  CASE ~Mapped(capped) -> capped
          [] Mapped(capped) /\ capped.sku = None /\ capped.name # None ->
                 IF found = None THEN Downgrade(capped) ELSE [capped EXCEPT !.sku = found]
          [] Mapped(capped) /\ capped.sku # None ->
                 IF skus # {} /\ capped.sku \notin valid_skus(skus) \cup Synthetic
                 THEN Downgrade(capped) ELSE capped
          [] OTHER -> capped

\* load_mappings: the files in the order of their names.
FileOrder == << "athena", "block_storage", "cloudwatch", "commitment_discount",
    "compute_arm", "compute_breakdown", "compute_burstable", "compute_windows",
    "data_transfer", "dynamodb_capacity", "dynamodb_storage", "efs", "elasticache", "emr",
    "flat_hourly", "fsx", "glue", "guardduty", "inspector", "kinesis", "managed_db",
    "marketplace_thirdparty", "misc", "msk", "mwaa", "negative_cost", "non_workload",
    "object_storage", "opensearch", "per_request", "quicksight", "rds_extended_support",
    "redshift", "refresh", "shield", "ssm_parameter_store", "xray" >>

\* Of two rows for the same component of a line the one of the later file stays.
dedup(files) ==
    LET Later(i, row) == \E j \in i + 1 .. Len(FileOrder) :
                             \E other \in files[FileOrder[j]] :
                                 other.key = row.key /\ other.comp = row.comp
    IN  UNION {{row \in files[FileOrder[i]] : ~Later(i, row)} : i \in DOMAIN FileOrder}

\* A machine none of whose parts is priced is one passthrough, not several.
collapse(rows) ==
    LET Of(k) == {row \in rows : row.key = k}
        Whole(k) == /\ Cardinality(Of(k)) > 1
                    /\ \A row \in Of(k) : row.bd /\ row.strategy = "passthrough"
    IN  {IF Whole(row.key)
         THEN [(CHOOSE first \in Of(row.key) : TRUE) EXCEPT !.comp = None, !.mult = 1, !.bd = FALSE]
         ELSE row : row \in rows}

\* What the merged table keeps of a row: every passthrough gets a reason.
Record(row) ==
    [key |-> row.key, comp |-> row.comp, strategy |-> row.strategy, sku |-> row.sku,
     name |-> row.name, mult |-> row.mult, conf |-> row.conf, src |-> None, basis |-> None, license |-> FALSE,
     reason |-> IF row.strategy \in {"passthrough", "needs_reprice"} /\ row.reason = None
                THEN "unclassified" ELSE row.reason]

merge_mappings(files, bill, group, skus) ==
    LET Clean(rows) == {merge_row(clean_row(row), skus, bill[row.key].region, group[row.key]) :
                            row \in {q \in rows : valid_row(q, DOMAIN bill)}}
    IN  {Record(row) : row \in collapse(dedup([f \in DOMAIN files |-> Clean(files[f])]))}

-----------------------------------------------------------------------------
\* service_classifier.py: the first rule that names the line's service decides.
GENERIC_DETERMINISTIC_GROUPS   == {"per_request", "managed_db", "flat_hourly", "block_storage"}
DEDICATED_DETERMINISTIC_GROUPS == DETERMINISTIC_GROUPS \ GENERIC_DETERMINISTIC_GROUPS

policy(r) ==
    LET hits == {i \in DOMAIN ServicePolicy : Is(r, {ServicePolicy[i].match})}
    IN  IF hits = {} THEN [mode |-> "unmatched", conf |-> 100]
        ELSE ServicePolicy[CHOOSE i \in hits : \A j \in hits : i <= j]

\* A line shares its policy with every line of the same product and usage type:
\* one line of a dedicated group protects them all.
SameCharge(r, q) == r.product = q.product /\ r.usage = q.usage

is_deterministic(bill, group, k) ==
    \E j \in DOMAIN bill : /\ SameCharge(bill[j], bill[k])
                           /\ group[j] \in DEDICATED_DETERMINISTIC_GROUPS

service_classifier(table, bill, group) ==
    LET Apply(row) ==
            LET rule == policy(bill[row.key])
                free == ~is_deterministic(bill, group, row.key)
            IN  CASE rule.mode = "review" /\ free ->
                         [row EXCEPT !.strategy = "passthrough", !.sku = None, !.name = None,
                                     !.conf = rule.conf, !.reason = "service_policy_review"]
                  [] rule.mode = "ignore" /\ free ->
                         [row EXCEPT !.strategy = "ignore", !.sku = None, !.name = None, !.conf = rule.conf]
                  [] rule.mode = "keep" -> CapConf(row, rule.conf)
                  [] OTHER -> row
    IN  {Apply(row) : row \in table}

\* fix_storage_misroute.py: a line that is no object storage and has a row for
\* Cloud Storage, priced or ignored, is carried at cost, every row of it.  Storage is known by the
\* words of the product name: the bare code of the service is not among them.
StorageClasses  == {Archive, Coldline, Nearline, Standard}
NamedStorage(r) == Hits(r.product, {"simple storage service", "glacier", "storage gateway"})

OnCloudStorage(row, group) ==
    row.sku \in StorageClasses \/ (group[row.key] = "object_storage" /\ row.comp = "storage")

fix_storage_misroute(table, bill, group) ==
    LET bad == {row.key : row \in {q \in table : /\ OnCloudStorage(q, group)
                                                 /\ q.strategy # "passthrough"
                                                 /\ ~NamedStorage(bill[q.key])}}
    IN  {IF row.key \in bad
         THEN [row EXCEPT !.strategy = "passthrough", !.sku = None, !.conf = 20,
                          !.reason = "storage_misroute_backstop"]
         ELSE row : row \in table}

\* reconcile_capacity.py: core and ram never below the instance they replace.
reconcile_capacity(table, bill) ==
    LET Want(row) == CASE row.comp = "core" -> Type(bill[row.key]).vcpu
                       [] row.comp = "ram"  -> Type(bill[row.key]).ram
                       [] OTHER -> 0
    IN  {IF Mapped(row) /\ HasSpecs(bill[row.key])
         THEN [row EXCEPT !.mult = Max2(@, Want(row))] ELSE row : row \in table}
=============================================================================
