--------------------------- MODULE ServiceMappers ---------------------------
(***************************************************************************)
(* Static mappers of the managed services: caches, databases, analytics,   *)
(* monitoring and the services that have no priced equivalent.             *)
(***************************************************************************)
EXTENDS MappingEntries

CONSTANTS
    CacheRam,           \* cache node type |-> GiB
    MemorystoreTiers,   \* the sizes sold: a sequence of <<tier, size, GiB>>, by GiB
    NodeGib,            \* assumptions dax_node_gib and memorydb_node_gib
    UnitsPerOp          \* assumption dynamodb_*_to_firestore_*: 0 switches it off

map_guardduty(r)           == Pass("security", 60)
map_inspector(r)           == Pass("security", 60)
map_kinesis(r)             == Pass("messaging", 55)
map_ssm_parameter_store(r) == Pass("api-requests", 45)
map_marketplace(r)         == Pass("saas", 90)
map_mwaa(r)     == Pass(IF "worker" \in Text(r) THEN "worker" ELSE "environment", 45)
map_xray(r, cat) == MapOrPass(cat, "tracing", "Spans ingested", 75)

map_dynamodb_capacity(r, cat) ==
    LET write       == Hits(Text(r), {"write", "WCU"})
        provisioned == Hits(Text(r), {"CapacityUnit", "RCU", "WCU"})
        comp        == IF write THEN "writes" ELSE "reads"
    IN  IF provisioned /\ UnitsPerOp = 0 THEN Pass(comp, 50)
        ELSE MapOr(cat, comp, IF write THEN "Firestore Entity Writes" ELSE "Firestore Read Ops", 55, 50)

\* Looker Studio Pro has a list price and no SKU: the row is mapped without one.
map_quicksight(r) ==
    LET viewer == Hits(AnyText(r), {"reader", "session"})
    IN  CASE "Q-" \in AnyText(r) -> Pass("bi", 55)
          [] "Q-" \notin AnyText(r) /\ ("author" \in AnyText(r) \/ ("user-month" \in AnyText(r) /\ ~viewer)) ->
                 Out("bi", "map", "Looker Studio Pro", 80)
          [] OTHER -> Pass("bi", IF viewer THEN 55 ELSE 50)

map_rds_extended_support(r, cat) ==
    IF r.engine = None THEN Ignore("support", 55)
    ELSE MapOr(cat, "support",
               "Extended Support " \o r.engine \o (IF r.multiaz THEN " Regional" ELSE " Zonal"), 85, 55)

-----------------------------------------------------------------------------
\* Cloud SQL: the engine of the line, MySQL when nothing names one.
SqlDesc(engine, ha, part) ==
    "Cloud SQL " \o engine \o (IF ha THEN " Regional " ELSE " Zonal ") \o part

map_db_row(r, cat) ==
    LET engine == IF r.engine = "postgresql" THEN "PostgreSQL" ELSE "MySQL"
        conf   == IF r.engine \in {"postgresql", "mysql", "mariadb"} THEN 90 ELSE 55
    IN  MapOrPass(cat, "core", SqlDesc(engine, r.multiaz, "vCPU"), conf)
        \cup MapOrPass(cat, "ram", SqlDesc(engine, r.multiaz, "RAM"), conf)

Acu(r) == Hits(r.usage, {"ServerlessV2", "ACU"}) \/ r.unit \in {"acu-hrs", "acu-hours", "acu-hr"}

\* An Aurora capacity unit is CPU and memory; other rows need an instance type.
map_managed_db(r, cat) ==
    LET engine == IF Hits(r.product \cup r.op, {"PostgreSQL"}) THEN "PostgreSQL" ELSE "MySQL"
    IN  CASE Acu(r) -> MapOrPass(cat, "core", SqlDesc(engine, FALSE, "vCPU"), 65)
                       \cup MapOrPass(cat, "ram", SqlDesc(engine, FALSE, "RAM"), 65)
          [] ~Acu(r) /\ r.itype \in DOMAIN InstanceSpecs -> map_db_row(r, cat)
          [] OTHER -> Llm

-----------------------------------------------------------------------------
\* _elasticache_ram: DAX and MemoryDB assume a node size; 0 is "not known".
elasticache_ram(r) ==
    CASE Hits(r.product, {"dax", "memorydb"}) -> NodeGib
      [] OTHER -> IF r.itype \in DOMAIN CacheRam THEN CacheRam[r.itype] ELSE 0

\* The smallest size of the tier with room for the node, the largest size when
\* the node is above them all.
MemorystoreSize(tier, ram) ==
    LET mine == {i \in DOMAIN MemorystoreTiers : MemorystoreTiers[i][1] = tier}
        fits == {i \in mine : MemorystoreTiers[i][3] >= ram}
    IN  IF mine = {} THEN "M1"
        ELSE MemorystoreTiers[IF fits # {} THEN CHOOSE i \in fits : \A j \in fits : i <= j
                                           ELSE CHOOSE i \in mine : \A j \in mine : j <= i][2]

map_memcached(r, cat) ==
    IF r.itype \notin DOMAIN InstanceSpecs THEN Pass("cache", 50)
    ELSE MapOrPass(cat, "cache_cpu", "Custom Core M1", 75)
         \cup (IF r.itype \in DOMAIN CacheRam THEN MapOrPass(cat, "cache_ram", "Custom RAM M1", 75) ELSE {})

map_elasticache(r, cat) ==
    LET tier == IF r.multiaz THEN "Standard " ELSE "Basic "
        ram  == elasticache_ram(r)
    IN  CASE Hits(r.product \cup r.op, {"memcached"}) -> map_memcached(r, cat)
          [] ~Hits(r.product \cup r.op, {"memcached"}) /\ ram = 0 -> Pass("cache", 50)
          [] OTHER -> MapOrPass(cat, "cache", "Redis " \o tier \o MemorystoreSize(tier, ram),
                                IF r.deployment THEN 85 ELSE 70)

-----------------------------------------------------------------------------
\* Redshift nodes become BigQuery slots, which are listed and never priced here.
RedshiftNode(r) ==
    Pass("compute", CASE "Node:" \notin Text(r) -> 40
                      [] "Node:" \in Text(r) -> IF r.pm = "Committed" THEN 50 ELSE 45)

map_redshift(r, cat) ==
    LET t == AnyText(r)
    IN  CASE "CS:" \in r.usage -> Pass("compute", 60)
          [] "CS:" \notin r.usage /\ Hits(t, {"backup", "snapshot"}) -> Pass("backup", 70)
          [] "CS:" \notin r.usage /\ ~Hits(t, {"backup", "snapshot"}) /\ "ManagedStorage" \in t ->
                 MapOrPass(cat, "storage", "BigQuery Active Storage", 80)
          [] OTHER -> IF Hits(t, {"Serverless", "RPU"}) THEN Pass("compute", 45) ELSE RedshiftNode(r)

Cw(r, patterns) == Hits(AnyText(r), patterns)

\* Google's own metrics are free: few metrics are taken for those.
CustomMetrics(r, cat) ==
    IF r.qty > 1000 THEN MapOr(cat, "custom-metrics", "Metric Volume", 55, 40)
                    ELSE Ignore("custom-metrics", 60)

LogVolume(r, cat) ==
    IF "PutLogEvents" \notin AnyText(r) /\ r.unit \in GBMonth
    THEN MapOr(cat, "logs", "Log Retention cost", 90, 60)
    ELSE MapOr(cat, "logs", "Log Storage cost", IF "PutLogEvents" \in AnyText(r) THEN 92 ELSE 90, 60)

map_cloudwatch(r, cat) ==
    CASE Cw(r, {"log export"}) -> Ignore("log-export", 93)
      [] ~Cw(r, {"log export"}) /\ Cw(r, {"alarm"}) -> Ignore("alarms", 95)
      [] ~Cw(r, {"log export", "alarm"}) /\ Cw(r, {"api requests"}) -> Ignore("api-requests", 90)
      [] ~Cw(r, {"log export", "alarm", "api requests"}) /\ Cw(r, {"MetricMonitor"}) ->
             CustomMetrics(r, cat)
      [] ~Cw(r, {"log export", "alarm", "api requests", "MetricMonitor"})
             /\ Cw(r, {"dashboard", "db insights"}) ->
             Ignore("monitoring", IF Cw(r, {"dashboard"}) THEN 95 ELSE 90)
      [] ~Cw(r, {"log export", "alarm", "api requests", "MetricMonitor", "dashboard", "db insights"})
             /\ Cw(r, {"PutLogEvents", "Log"}) -> LogVolume(r, cat)
      [] OTHER -> Pass("monitoring", 70)

map_athena(r, cat) ==
    LET sku == resolve_with_fallback(cat.names, <<"BigQuery Analysis regional", "BigQuery Analysis">>)
    IN  IF "data scanned" \notin r.usage THEN Pass("analysis", 50)
        ELSE IF sku = None THEN Pass("analysis", 85) ELSE Out("analysis", "map", sku, 85)

\* EMR: only the surcharge is in the line; the nodes are lines of their own.
map_emr(r, cat) ==
    CASE Hits(AnyText(r), {"spot", "storage", "backup"}) -> Pass("management", 55)
      [] ~Hits(AnyText(r), {"spot", "storage", "backup"}) /\ r.itype \in DOMAIN InstanceSpecs ->
             MapOrPass(cat, "management", "Dataproc licensing", 70)
      [] OTHER -> Pass("management", 45)

map_glue(r, cat) ==
    MapOrPass(cat, "vcpu", "Dataflow vCPU", 65) \cup MapOrPass(cat, "ram", "Dataflow RAM", 65)
=============================================================================
