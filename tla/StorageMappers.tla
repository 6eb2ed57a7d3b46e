--------------------------- MODULE StorageMappers ---------------------------
(***************************************************************************)
(* Static mappers of the storage groups: object storage, block storage     *)
(* (disks and managed databases), EFS, FSx and DynamoDB tables.            *)
(***************************************************************************)
EXTENDS MappingEntries

CONSTANT RdsIopsIncluded    \* assumption rds_iops_included_in_storage

Archive  == "Archive Storage"
Coldline == "Coldline Storage"
Nearline == "Nearline Storage"
Standard == "Standard Storage"

S3_USAGE_TYPE_ROUTING == <<
    <<"int-fa", Standard>>, <<"int-ia", Nearline>>, <<"int-aa", Coldline>>,
    <<"int-daa", Archive>>, <<"deeparchive", Archive>>, <<"gda", Archive>>,
    <<"glacierbyte", Coldline>>, <<"gir", Coldline>>, <<"sia", Nearline>>,
    <<"zia", Nearline>>, <<"rrs", Standard>>, <<"TimedStorage", Standard>>,
    <<"monitoring-int", "ignore">>, <<"storageanalytics", None>>,
    <<"retrieval", None>>, <<"earlydelete", None>>, <<"obj-lambda", None>> >>

\* The longest key first.
S3_BLOB_FALLBACK == <<
    <<"monitoring and automation", "ignore">>, <<"per 1,000 objects", "ignore">>,
    <<"Deep Archive", Archive>>, <<"glacier requests", None>>,
    <<"Glacier Instant", Coldline>>, <<"Glacier", Coldline>>,
    <<"early delete", None>>, <<"Infrequent Access", Nearline>>,
    <<"Intelligent-Tiering", Standard>>, <<"s3 storage", Standard>>,
    <<"standard", Standard>> >>

s3_route_usage_type(text) == FirstIn(S3_USAGE_TYPE_ROUTING, text, "unknown")
s3_route_blob(text)       == FirstIn(S3_BLOB_FALLBACK, text, "unknown")

\* A class that is not sold in the region falls back to the next warmer one.
GCS_CLASS_FALLBACKS(class) ==
    CASE class = Archive  -> <<Archive, Coldline, Nearline, Standard>>
      [] class = Coldline -> <<Coldline, Nearline, Standard>>
      [] class = Nearline -> <<Nearline, Standard>>
      [] class = Standard -> <<Standard>>

\* What one of the three passes makes of its routing result.
Routed(cat, class, freeConf, conf) ==
    CASE class = "ignore" -> Ignore("storage", freeConf)
      [] class = None     -> Pass("storage", 40)
      [] OTHER -> LET sku == resolve_with_fallback(cat.names, GCS_CLASS_FALLBACKS(class))
                  IN  {[Entry("storage", "map", sku, IF sku \in {class, None} THEN conf ELSE conf - 5, None)
                            EXCEPT !.name = class]}

map_object_storage(r, cat) ==
    LET code == IF r.usage = {} THEN s3_route_usage_type(r.product) ELSE "unknown"
        blob == s3_route_blob(AnyText(r))
    IN  CASE s3_route_usage_type(r.usage) # "unknown" ->
                 Routed(cat, s3_route_usage_type(r.usage), 90, 95)
          [] s3_route_usage_type(r.usage) = "unknown" /\ code # "unknown" ->
                 Routed(cat, code, 90, 90)
          [] OTHER -> IF blob = "unknown" THEN Llm ELSE Routed(cat, blob, 85, 75)

-----------------------------------------------------------------------------
EBS_VOLUME(vol) ==
    CASE vol = "gp2"                       -> "Balanced PD"
      [] vol \in {"st1", "sc1", "standard"} -> "Standard PD"
      [] vol \in {"io1", "io2"}            -> "Extreme PD Capacity"
      [] OTHER                             -> "Hyperdisk Balanced"

\* The volume type of its own column, else the one the text names.
Volume(r) ==
    IF r.vol # None THEN r.vol
    ELSE FirstIn([i \in 1 .. 7 |-> LET v == <<"gp3", "gp2", "io2", "io1", "st1", "sc1", "standard">>[i]
                                   IN <<v, v>>], AnyText(r), None)

ManagedDb(r) ==
    \/ Hits(r.product, {"rds", "aurora", "documentdb", "memorydb", "elasticache"})
    \/ r.canonical \in {"rds", "aurora", "documentdb", "memorydb", "elasticache"}

PerformanceFee(r) == Hits(AnyText(r), {"IOPS", "IOOp", "StorageIOUsage", "ReplicatedWriteIO", "Throughput"})

MaxIops  == 160000
MaxMibps == 2400

\* Provisioned IOPS and throughput.  r.qty is total_usage; the third branch
\* tests it as a throughput in GiBps, without asking that it is one.
map_provisioned_performance(r, cat) ==
    LET gp3_like == Hits(AnyText(r), {"gp3", "gp2"})
        is_iops  == "IOPS" \in AnyText(r) /\ "Throughput" \notin AnyText(r)
        extreme  == cheapest_same_tier(cat, {"Hyperdisk Extreme IOPS", "Extreme PD IOPS"})
    IN  CASE ManagedDb(r) ->
                 IF RdsIopsIncluded THEN Ignore("storage", 90) ELSE Pass("storage", 70)
          [] ~ManagedDb(r) /\ ~gp3_like /\ is_iops /\ r.qty > MaxIops -> Pass("iops", 55)
          [] ~ManagedDb(r) /\ gp3_like /\ is_iops ->
                 MapOrPass(cat, "iops", "Hyperdisk Balanced IOPS", 88)
          [] ~ManagedDb(r) /\ ~gp3_like /\ ~(is_iops /\ r.qty > MaxIops)
                 /\ r.qty * 1024 > MaxMibps -> Pass("throughput", 55)
          [] ~ManagedDb(r) /\ gp3_like /\ ~is_iops ->
                 MapOrPass(cat, "throughput", "Hyperdisk Balanced Throughput", 92)
          [] OTHER -> IF ~is_iops THEN Pass("storage", 60)
                      ELSE IF extreme = None THEN Pass("iops", 60)
                      ELSE MapOr(cat, "iops", extreme, 80, 60)

\* Cloud SQL storage: the tier from the volume type, Regional for Multi-AZ.
sql_storage_sku(r) ==
    LET tier == CASE "backup" \in Text(r) -> "Backups"
                  [] "backup" \notin Text(r) /\ Volume(r) \in {"st1", "sc1", "standard"} -> "Low cost"
                  [] OTHER -> "Hyperdisk"
        engine == CASE r.engine \in {"postgresql", "aurora"} -> "PostgreSQL"
                    [] r.engine \in {"mysql", "mariadb"} -> "MySQL"
                    [] OTHER -> "any"
        ha == IF r.multiaz THEN "Regional" ELSE "Zonal"
    IN  IF tier = "Backups" THEN "Cloud SQL: Backups"
        ELSE "Cloud SQL " \o engine \o " " \o ha \o " " \o tier

\* io1 and io2 fit Hyperdisk Balanced; Block Express takes the cheapest Extreme.
map_capacity(r, cat) ==
    LET vol     == Volume(r)
        extreme == cheapest_same_tier(cat, {"Hyperdisk Extreme Capacity", "Extreme PD Capacity"})
        desc    == CASE ManagedDb(r) -> sql_storage_sku(r)
                     [] ~ManagedDb(r) /\ "snapshot" \in AnyText(r) -> "Archive Snapshot"
                     [] ~ManagedDb(r) /\ "snapshot" \notin AnyText(r) /\ vol \in {"io1", "io2"} ->
                            IF "block express" \notin AnyText(r) THEN "Hyperdisk Balanced"
                            ELSE IF extreme # None THEN extreme ELSE "Extreme PD Capacity"
                     [] OTHER -> EBS_VOLUME(vol)
    IN  MapAlways(cat, "storage", desc, 90)

map_block_storage(r, cat) ==
    CASE "InstanceUsage" \in r.usage /\ Hits(r.product, {"rds", "aurora"}) -> Pass("storage", 65)
      [] ~("InstanceUsage" \in r.usage /\ Hits(r.product, {"rds", "aurora"})) /\ PerformanceFee(r) ->
             map_provisioned_performance(r, cat)
      [] OTHER -> IF ManagedDb(r) /\ "io request" \in AnyText(r) THEN Ignore("storage", 95)
                  ELSE map_capacity(r, cat)

-----------------------------------------------------------------------------
map_efs(r, cat) ==
    LET t == Text(r)
    IN  CASE "Provisioned Throughput" \in t -> Ignore("storage", 80)
          [] "Provisioned Throughput" \notin t /\ "backup" \in t -> Pass("backup", 60)
          [] ~Hits(t, {"Provisioned Throughput", "backup"}) /\ "data access" \in t ->
                 Ignore("storage", 80)
          [] OTHER -> MapOrPass(cat, "storage",
                                IF "-IA" \in t THEN "Filestore Basic HDD" ELSE "Filestore Basic SSD", 75)

map_fsx(r, cat) ==
    LET t == r.product \cup r.usage
    IN  CASE Hits(t, {"backup", "snapshot"}) -> Pass("storage", 70)
          [] ~Hits(t, {"backup", "snapshot"}) /\ "lustre" \in t ->
                 MapOrPass(cat, "storage", "Filestore Zonal", 65)
          [] ~Hits(t, {"backup", "snapshot", "lustre"}) /\ "windows" \in t ->
                 MapOrPass(cat, "storage", "Filestore Regional", 65)
          [] OTHER -> Pass("storage", 50)

map_dynamodb_storage(r, cat) ==
    IF "PITR" \in Text(r)
    THEN MapOr(cat, "pitr-storage", "Firestore PITR Storage", 85, 55)
    ELSE MapOr(cat, "storage", "Firestore Storage", 85, 55)
=============================================================================
