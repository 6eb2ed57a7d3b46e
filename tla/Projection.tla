----------------------------- MODULE Projection -----------------------------
(***************************************************************************)
(* One job's projection: the scripts that run_all.py calls from phase 2 to *)
(* phase 5 and those of a recalculation, in the order of orchestrate.go    *)
(* and admin_handlers.go, over the data they share: the mechanic groups    *)
(* and the manifest, the mapping files, the table aws_li_to_gcp_li, the    *)
(* rate table and the refresh store.  The LLM agents are external: they    *)
(* write any of Drafts for the lines they are given, or nothing.           *)
(*                                                                         *)
(* todo is the sequence of scripts still to run.  A script named with a    *)
(* leading '?' in orchestrate.go may fail without stopping the run; in a   *)
(* recalculation every one may.  With the directive layer, the default,    *)
(* the answers of the agents go through the ledger of Directives.tla.      *)
(*                                                                         *)
(* An operator Mutant... is the operation of that name with a mistake that *)
(* the properties are to find; nothing uses it.                            *)
(***************************************************************************)
EXTENDS Directives

CONSTANTS
    Bills,          \* the bills a job may have: sequences of bill lines
    Catalogs,       \* the catalogues they may be projected with
    Layers,         \* DIRECTIVE_LAYER: a subset of BOOLEAN; unset it is on
    Drafts,         \* what an agent may map a line to: sets of drafts
    Continent,      \* GCP region |-> the regions of its continent
    TrustedTarget,  \* the draft an accepted finding records
    Answers,        \* what an agent may answer about a flagged line
    MaxFaults,      \* bound: scripts that fail in a behaviour
    MaxExtras       \* bound: answers about flagged lines, and recalculations

ASSUME BoundsAssumption ==
    MaxFaults \in Nat /\ MaxExtras \in Nat /\ Layers \subseteq BOOLEAN

\* A bill is a finite list of lines, each with a cost.
ASSUME BillsAssumption ==
    \A b \in Bills :
        /\ Len(b) \in Nat /\ DOMAIN b = 1 .. Len(b)
        /\ \A k \in DOMAIN b : "cost" \in DOMAIN b[k] /\ b[k].cost \in Int

\* A SKU has a place in its file, and a rate unless the file has none for it.
ASSUME CatalogsAssumption ==
    \A c \in Catalogs : \A s \in c : s.id \in Nat /\ s.rate \in Nat \cup {NoRate}

\* Every line has a GCP region, "global" if ingest.py knows no other.
ASSUME RegionsAssumption ==
    \A b \in Bills : \A k \in DOMAIN b : b[k].region \in DOMAIN Continent

\* The columns of a row of a mapping file, which agents and findings fill as well.
MappingColumns ==
    {"key", "comp", "strategy", "sku", "name", "mult", "conf", "reason", "bd", "svcOk"}

ASSUME DraftsAssumption ==
    \A draft \in (UNION Drafts) \cup {TrustedTarget} : DOMAIN draft = MappingColumns

VARIABLES
    bill, skus,
    layer,              \* isDirectiveLayerEnabled()
    status, todo,
    unchecked,          \* diagnostics.jsonl: mapping_coverage was not evaluated
    group, manifest,    \* mechanic_group, phase2_manifest.json
    files,              \* mappings/*_mappings.json
    exists, table,      \* aws_li_to_gcp_li: is it there, and its rows
    rates,              \* gcp_sku_rates
    trusted,            \* refresh_store.json: canonical service |-> draft
    ledger, overrides,  \* directives.json; job_overrides.json: line |-> "ignore" or "rate"
    added,              \* lines the retry agent of phase 2 inserted
    review, triage,     \* what is flagged, proposed and answered in phases 3, 5
    faults, answers, recalcs

inputVars == <<bill, skus, layer>>
flowVars  == <<status, todo, unchecked, faults, recalcs>>
planVars  == <<group, manifest, files>>
tableVars == <<exists, table, added>>
fixVars   == <<review, triage, answers>>
storeVars == <<trusted, ledger, overrides>>
vars == <<inputVars, flowVars, planVars, tableVars, fixVars, rates, storeVars>>

LLM_GROUPS == {"compute_breakdown", "managed_db", "misc"}
Files == {FileOrder[i] : i \in DOMAIN FileOrder}
NoRates == [key \in {} |-> 0]

\* With the directive layer the answers of the agents reach the table through
\* the ledger; without it two scripts of their own apply them.
ByDirectives == <<"directives_from_legacy", "apply_directives">>

PostMapping(on) ==
    <<"merge_mappings", "service_classifier", "fix_storage_misroute">>
    \o (IF on THEN ByDirectives ELSE <<>>) \o <<"reconcile_capacity">>

PostReview(on) == IF on THEN ByDirectives ELSE <<"apply_review_fixes">>
PostRates      == <<"validate_fix">>
PostTriage(on) ==
    (IF on THEN ByDirectives ELSE <<"apply_outlier_fixes">>)
    \o <<"incremental_rerate", "validate_fix", "outlier_gate">>

Pipeline(on) ==
    <<"classify_mechanics", "apply_commitment_ignores", "apply_static_mappings", "mapping_agent">>
    \o PostMapping(on) \o <<"mapping_coverage", "auto_review", "review_agent">>
    \o PostReview(on) \o <<"no_illegal_passthroughs", "apply_rates">>
    \o PostRates \o <<"no_null_projected_cost", "detect_outliers", "auto_triage",
                      "incremental_rerate", "triage_agent">>
    \o PostTriage(on) \o <<"over_and_under_projection">>

RecalculateScripts ==
    <<"classify_mechanics", "apply_commitment_ignores", "apply_static_mappings",
      "merge_mappings", "service_classifier", "apply_rates">> \o ByDirectives

Lines == DOMAIN bill
Covered == {row.key : row \in table}

\* What the catalogue offers in each region: its SKUs, and the names that resolve
\* there.
Names == {s.desc : s \in skus} \cup {key[1] : key \in DOMAIN ResolvedSkus}

Cats ==
    [region \in DOMAIN Continent |->
        [skus   |-> skus,
         region |-> region,
         names  |-> {d \in Names : resolve_sku(skus, d, region, Continent[region]) # 0}]]

-----------------------------------------------------------------------------
At(s) == status = "running" /\ todo # <<>> /\ Head(todo) = s

Continue == todo' = Tail(todo) /\ UNCHANGED <<status, unchecked, faults, recalcs>>

Then(scripts) == todo' = scripts \o Tail(todo) /\ UNCHANGED <<status, unchecked, faults, recalcs>>

\* failure.txt is written and run_all.py exits.
Fail == status' = "failed" /\ todo' = <<>> /\ UNCHANGED <<unchecked, recalcs>>

\* A script that fails.  What it left behind is up to the action.
Fault == faults < MaxFaults /\ faults' = faults + 1

Skip == Fault /\ todo' = Tail(todo) /\ UNCHANGED <<status, unchecked, recalcs>>

Required == {"classify_mechanics", "apply_rates"}

Agents == {"mapping_agent", "review_agent", "triage_agent"}

CoverageGates ==
    {"mapping_coverage", "mapping_coverage_after_retry", "mapping_coverage_at_last"}

Gates == CoverageGates \cup
    {"no_illegal_passthroughs", "no_null_projected_cost", "over_and_under_projection"}

Steps ==
    (UNION {ToSet(Pipeline(on)) : on \in BOOLEAN})
        \cup {"ensure_full_coverage", "mapping_coverage_after_retry", "mapping_coverage_at_last"}

Scripts == Steps \ (Agents \cup Gates)

\* A script that fails before it changes anything.
ScriptFails ==
    /\ status = "running" /\ todo # <<>>
    /\ Head(todo) \in Scripts
    /\ IF Head(todo) \in Required /\ recalcs = 0 THEN Fault /\ Fail ELSE Skip
    /\ UNCHANGED <<inputVars, planVars, tableVars, fixVars, rates, storeVars>>

-----------------------------------------------------------------------------
(* Phase 2: from the bill to the mapping files.                            *)

\* A misc line of a service the refresh store trusts is mapped at once, to the
\* file "refresh"; without such a line an older file stays.
TrustedLines(groups) ==
    {k \in Lines : groups[k] = "misc" /\ bill[k].canonical \in DOMAIN trusted}

\* A draft may follow the strategy the manifest recommends for its line.
Keyed(k, draft) ==
    [draft EXCEPT !.key = k,
                  !.strategy = IF @ = "recommended" THEN misc_strategy(bill[k]) ELSE @]

Grouped(groups, known) ==
    /\ group' = groups
    /\ manifest' = [g \in LLM_GROUPS |->
                       {k \in Lines : groups[k] = g} \ (IF g = "misc" THEN known ELSE {})]
    /\ files' = IF known = {} THEN files
                ELSE [files EXCEPT !["refresh"] =
                         {Keyed(k, trusted[bill[k].canonical]) : k \in known}]

Classify ==
    /\ At("classify_mechanics")
    /\ LET discounted == \E k \in Lines : bill[k].lit = "DiscountedUsage"
       IN  \E groups \in {[k \in Lines |-> classify([bill[k] EXCEPT !.discounted = discounted])]} :
               Grouped(groups, TrustedLines(groups))
    /\ Continue
    /\ UNCHANGED <<inputVars, tableVars, fixVars, rates, storeVars>>

IgnoreRow(k) ==
    [key |-> k, comp |-> None, strategy |-> "ignore", sku |-> None, name |-> None, mult |-> 1,
     conf |-> 100, reason |-> None, bd |-> FALSE, svcOk |-> TRUE]

ApplyCommitmentIgnores ==
    /\ At("apply_commitment_ignores")
    /\ files' = [g \in Files |->
                    IF g \in {"commitment_discount", "negative_cost"}
                    THEN {IgnoreRow(k) : k \in {q \in Lines : group[q] = g}} ELSE files[g]]
    /\ Continue
    /\ UNCHANGED <<inputVars, group, manifest, tableVars, fixVars, rates, storeVars>>

\* What the handlers of the groups of the bill return.
Handled == [g \in STATIC_GROUPS \cap {group[k] : k \in Lines} |-> run_handler(bill, group, g, Cats)]

\* One file after the other; a group that maps nothing leaves its file alone.
StaticFiles(handled, groups) ==
    [g \in Files |-> IF g \in groups /\ handled[g].rows # {} THEN handled[g].rows ELSE files[g]]

\* Afterwards the manifest asks for what the handlers could not map, as misc.
Pruned(handled) ==
    [g \in LLM_GROUPS |-> IF g = "misc"
                          THEN manifest[g] \cup UNION {handled[h].llm : h \in DOMAIN handled}
                          ELSE {}]

\* Killed on the way, it leaves one of the files unwritten at least, and the
\* manifest as it was.
ApplyStaticMappings ==
    /\ At("apply_static_mappings")
    /\ \E handled \in {Handled} :
           \/ /\ files' = StaticFiles(handled, DOMAIN handled)
              /\ manifest' = Pruned(handled)
              /\ Continue
           \/ /\ \E lost \in DOMAIN handled : files' = StaticFiles(handled, DOMAIN handled \ {lost})
              /\ Skip
              /\ UNCHANGED manifest
    /\ UNCHANGED <<inputVars, group, tableVars, fixVars, rates, storeVars>>

\* The agent writes the files of the three groups.  A line it is asked about
\* gets the rows of a draft, none if it is dropped; the file of a group it is
\* not asked about stays or is overwritten by an empty one.
MappingAgent ==
    /\ At("mapping_agent")
    /\ \E drafts \in [UNION {manifest[g] : g \in LLM_GROUPS} -> Drafts] :
       \E cleared \in SUBSET {g \in LLM_GROUPS : manifest[g] = {} /\ files[g] # {}} :
           files' = [g \in Files |->
               CASE g \in LLM_GROUPS /\ manifest[g] # {} ->
                        UNION {{Keyed(k, d) : d \in drafts[k]} : k \in manifest[g]}
                 [] g \in cleared -> {}
                 [] OTHER -> files[g]]
    /\ Continue
    /\ UNCHANGED <<inputVars, group, manifest, tableVars, fixVars, rates, storeVars>>

\* The model API refuses: phase 2 is critical.
MappingAgentBlocked ==
    /\ At("mapping_agent")
    /\ Fault /\ Fail
    /\ UNCHANGED <<inputVars, planVars, tableVars, fixVars, rates, storeVars>>

-----------------------------------------------------------------------------
(* Phase 2: from the mapping files to the table, and its gate.             *)

MutantMergeMappings ==
    /\ At("merge_mappings")
    /\ table' = merge_mappings(files, bill, group, skus)
    /\ Continue
    /\ UNCHANGED <<inputVars, planVars, exists, added, fixVars, rates, storeVars>>

\* ensure_table first, then everything in one transaction.
MergeMappings ==
    /\ At("merge_mappings")
    /\ exists' = TRUE
    /\ table' = merge_mappings(files, bill, group, skus)
    /\ Continue
    /\ UNCHANGED <<inputVars, planVars, added, fixVars, rates, storeVars>>

MergeMappingsRollsBack ==
    /\ At("merge_mappings")
    /\ exists' = TRUE
    /\ Skip
    /\ UNCHANGED <<inputVars, planVars, table, added, fixVars, rates, storeVars>>

Rewrite(script, rows) ==
    /\ At(script)
    /\ table' = rows
    /\ Continue
    /\ UNCHANGED <<inputVars, planVars, exists, added, fixVars, rates, storeVars>>

ServiceClassifier ==
    Rewrite("service_classifier", service_classifier(table, bill, group))

FixStorageMisroute ==
    Rewrite("fix_storage_misroute", fix_storage_misroute(table, bill, group))

ReconcileCapacity ==
    Rewrite("reconcile_capacity", reconcile_capacity(table, bill))

\* The gate counts lines without a row.
Gaps == Lines \ Covered

\* A gate whose query cannot be evaluated: there is no table for it, or DuckDB
\* fails.  Neither the agent nor the backstop is asked; diagnostics.jsonl says so
\* and the run goes on.
GateNotEvaluated ==
    /\ \E gate \in Gates : At(gate) /\ unchecked' = (unchecked \/ gate \in CoverageGates)
    /\ IF exists THEN Fault ELSE UNCHANGED faults
    /\ todo' = Tail(todo)
    /\ UNCHANGED <<status, recalcs, inputVars, planVars, tableVars, fixVars, rates, storeVars>>

\* The gate, where its query is evaluated.
CoverageGate(gate) == At(gate) /\ exists

CoveragePasses ==
    /\ CoverageGate("mapping_coverage")
    /\ Gaps = {}
    /\ Continue
    /\ UNCHANGED <<inputVars, planVars, tableVars, fixVars, rates, storeVars>>

\* The agent of the retry inserts into the table; then the scripts after the
\* mapping agent run again, the merge among them, and the gate once more.
RetryAgent ==
    /\ CoverageGate("mapping_coverage")
    /\ Gaps # {}
    /\ \E drafts \in [Gaps -> Drafts] :
           LET rows == UNION {{Record(Keyed(k, d)) : d \in drafts[k]} : k \in Gaps}
           IN  /\ table' = table \cup rows
               /\ added' = {row.key : row \in rows}
    /\ Then(PostMapping(layer) \o <<"mapping_coverage_after_retry">>)
    /\ UNCHANGED <<inputVars, planVars, exists, fixVars, rates, storeVars>>

RetryAgentBlocked ==
    /\ CoverageGate("mapping_coverage")
    /\ Gaps # {}
    /\ Fault /\ Fail
    /\ UNCHANGED <<inputVars, planVars, tableVars, fixVars, rates, storeVars>>

MutantCoverageAfterRetry ==
    /\ CoverageGate("mapping_coverage_after_retry")
    /\ IF Gaps = {} THEN Continue ELSE Then(PostMapping(layer) \o <<"mapping_coverage_after_retry">>)
    /\ UNCHANGED <<inputVars, planVars, tableVars, fixVars, rates, storeVars>>

CoverageAfterRetry ==
    /\ CoverageGate("mapping_coverage_after_retry")
    /\ IF Gaps = {} THEN Continue ELSE Then(<<"ensure_full_coverage", "mapping_coverage_at_last">>)
    /\ UNCHANGED <<inputVars, planVars, tableVars, fixVars, rates, storeVars>>

\* _is_ignore: what the backstop leaves out of the projection.
IsIgnore(k) == group[k] \in {"commitment_discount", "negative_cost"} \/ bill[k].cost < 0

Backstop(k) ==
    Record([IgnoreRow(k) EXCEPT !.conf = 10,
                                !.strategy = IF IsIgnore(k) THEN "ignore" ELSE "passthrough",
                                !.reason = IF IsIgnore(k) THEN None ELSE "llm_dropped"])

MutantEnsureFullCoverage ==
    Rewrite("ensure_full_coverage",
            table \cup {Backstop(k) : k \in {q \in Lines \ Covered : bill[q].cost >= Materiality}})

EnsureFullCoverage ==
    Rewrite("ensure_full_coverage", table \cup {Backstop(k) : k \in Lines \ Covered})

MutantCoverageAtLast ==
    /\ CoverageGate("mapping_coverage_at_last")
    /\ Continue
    /\ UNCHANGED <<inputVars, planVars, tableVars, fixVars, rates, storeVars>>

CoverageAtLast ==
    /\ CoverageGate("mapping_coverage_at_last")
    /\ IF Gaps = {} THEN Continue ELSE Fail /\ UNCHANGED faults
    /\ UNCHANGED <<inputVars, planVars, tableVars, fixVars, rates, storeVars>>

-----------------------------------------------------------------------------
(* The directive layer, after the agents and at the end of a recalculation. *)

Legacy == convert_legacy_to_directives(group, review.fixes, triage.fixes, overrides)

DirectivesFromLegacy ==
    /\ At("directives_from_legacy")
    /\ ledger' = directives_from_legacy(ledger, Legacy)
    /\ Continue
    /\ UNCHANGED <<inputVars, planVars, tableVars, fixVars, rates, trusted, overrides>>

\* apply_rates.py has made gcp_projection a view.
Projected == recalcs > 0 \/ "apply_rates" \notin ToSet(todo)

\* In a run, not in a recalculation, which names a user, an empty ledger is
\* filled first.
ApplyDirectives ==
    /\ At("apply_directives")
    /\ ledger' = IF ledger = <<>> /\ exists /\ recalcs = 0
                 THEN directives_from_legacy(<<>>, Legacy) ELSE ledger
    /\ table' \in apply_directives(table, ledger', Projected)
    /\ Continue
    /\ UNCHANGED <<inputVars, planVars, exists, added, fixVars, rates, trusted, overrides>>

-----------------------------------------------------------------------------
(* Phases 3 to 5: review, rates, triage.  Their gates let the run go on.   *)

NoFiles == [flagged |-> {}, candidates |-> <<>>, fixes |-> <<>>]

AutoReview ==
    /\ At("auto_review")
    /\ review' = [review EXCEPT !.candidates = auto_review(table, bill, skus, Cats)]
    /\ Continue
    /\ UNCHANGED <<inputVars, planVars, tableVars, triage, answers, rates, storeVars>>

\* What an agent writes: answers about some of the lines, within the bound.  It
\* may answer about any line: the script that applies them checks the scope.
Written ==
    UNION {[asked -> Answers] : asked \in {q \in SUBSET Lines : Cardinality(q) + answers <= MaxExtras}}

ReviewAgent ==
    /\ At("review_agent")
    /\ \E fixes \in Written :
           /\ review' = [review EXCEPT !.fixes = fixes]
           /\ answers' = answers + Cardinality(DOMAIN fixes)
    /\ Continue
    /\ UNCHANGED <<inputVars, planVars, tableVars, triage, rates, storeVars>>

\* The model API refuses in a phase that is not critical: the rest of the phase
\* is left out, its gate included.
AgentBlocked(agent, post) ==
    /\ At(agent)
    /\ Fault
    /\ todo' = SubSeq(todo, Len(post) + 3, Len(todo))
    /\ UNCHANGED <<status, unchecked, recalcs, inputVars, planVars, tableVars, fixVars, rates, storeVars>>

ReviewAgentBlocked == AgentBlocked("review_agent", PostReview(layer))

ApplyReviewFixes ==
    Rewrite("apply_review_fixes", apply_review_fixes(table, bill, review.candidates, review.fixes))

\* A gate that is not passed: the agent is asked once more and told to correct
\* the rows of these lines in the table itself, which it does for one of them or
\* for none; the scripts after the agent run again, and the run goes on.
SoftGate(gate, bad, post) ==
    /\ At(gate)
    /\ \/ /\ bad = {}
          /\ Continue
          /\ UNCHANGED <<table, answers>>
       \/ /\ bad # {}
          /\ Then(post)
          /\ UNCHANGED <<table, answers>>
       \/ \E k \in bad, edit \in Answers :
              /\ answers < MaxExtras
              /\ table' = {IF row.key = k THEN apply_override(row, edit) ELSE row : row \in table}
              /\ answers' = answers + 1
              /\ Then(post)
    /\ UNCHANGED <<inputVars, planVars, exists, added, review, triage, rates, storeVars>>

SoftGateBlocked(gate, bad) ==
    /\ At(gate)
    /\ bad # {}
    /\ Skip
    /\ UNCHANGED <<inputVars, planVars, tableVars, fixVars, rates, storeVars>>

IllegalLines ==
    {k \in Lines : /\ \E row \in Rows(table, k) : row.strategy = "passthrough"
                   /\ Hits(bill[k].product, {"elastic compute cloud", "elastic block store",
                          "relational database service", "aurora", "elasticache",
                          "simple storage service", "load balanc"})
                   /\ ~Hits(bill[k].product, {"natgateway", "nat:"})}

NoIllegalPassthroughs        == SoftGate("no_illegal_passthroughs", IllegalLines, PostReview(layer))
NoIllegalPassthroughsBlocked == SoftGateBlocked("no_illegal_passthroughs", IllegalLines)

Reprice(script, priced) ==
    /\ At(script)
    /\ table' = priced.table
    /\ rates' = priced.rates
    /\ Continue
    /\ UNCHANGED <<inputVars, planVars, added, fixVars, storeVars>>

\* row_state.ensure_schema creates the table if the mapping left none.
ApplyRates ==
    /\ Reprice("apply_rates", apply_rates(table, rates, bill, skus))
    /\ exists' = TRUE

IncrementalRerate ==
    /\ Reprice("incremental_rerate", incremental_rerate(table, rates, bill, skus))
    /\ UNCHANGED exists

ValidateFix ==
    /\ Reprice("validate_fix", validate_fix(table, rates, bill, group, skus))
    /\ UNCHANGED exists

\* Every repair commits on its own: killed, it leaves the first of them behind.
ValidateFixDies ==
    /\ At("validate_fix")
    /\ table' = repair_illegal_passthrough(repair_null_sku_names(table, bill, group), rates, bill)
    /\ Skip
    /\ UNCHANGED <<inputVars, planVars, exists, added, fixVars, rates, storeVars>>

NullLines ==
    {k \in Lines : bill[k].cost > 1 /\ \E row \in Rows(table, k) :
        Mapped(row) /\ ~HasCost(row, rates, bill[k], compute_dominant_region(bill))}

\* The gate also counts rows of which gcp_service is missing or names a service of
\* AWS.  The rows here do not say it: these lines may be among them or not.
MayLackService ==
    {k \in Lines : /\ is_workload(bill[k]) /\ bill[k].cost > 1
                   /\ \E row \in Rows(table, k) : row.strategy # "ignore"}

NoNullProjectedCost ==
    \E bad \in {NullLines, NullLines \cup MayLackService} :
        SoftGate("no_null_projected_cost", bad, PostRates)

NoNullProjectedCostBlocked ==
    SoftGateBlocked("no_null_projected_cost", NullLines \cup MayLackService)

DetectOutliers ==
    /\ At("detect_outliers")
    /\ triage' = [triage EXCEPT !.flagged = outliers(table, rates, bill)]
    /\ Continue
    /\ UNCHANGED <<inputVars, planVars, tableVars, review, answers, rates, storeVars>>

AutoTriage ==
    /\ At("auto_triage")
    /\ triage' = [triage EXCEPT !.candidates = auto_triage(triage.flagged, table, bill, Cats)]
    /\ Continue
    /\ UNCHANGED <<inputVars, planVars, tableVars, review, answers, rates, storeVars>>

TriageAgent ==
    /\ At("triage_agent")
    /\ \E fixes \in Written :
           /\ triage' = [triage EXCEPT !.fixes = fixes]
           /\ answers' = answers + Cardinality(DOMAIN fixes)
    /\ Continue
    /\ UNCHANGED <<inputVars, planVars, tableVars, review, rates, storeVars>>

TriageAgentBlocked == AgentBlocked("triage_agent", PostTriage(layer))

ApplyOutlierFixes ==
    /\ Reprice("apply_outlier_fixes",
               apply_outlier_fixes(table, rates, bill, skus, triage.candidates, triage.fixes))
    /\ UNCHANGED exists

OutlierGate == Rewrite("outlier_gate", outlier_gate(table, rates, bill))

\* Far more than on AWS, or nothing at all.
OffLines ==
    LET Cost(row) == RowCost(table, rates, bill, row, "OnDemand")
    IN  {k \in Lines : is_workload(bill[k]) /\ \E row \in Rows(table, k) :
            /\ Mapped(row) /\ HasCost(row, rates, bill[k], compute_dominant_region(bill))
            /\ \/ bill[k].cost > 20 /\ Cost(row) > 3 * bill[k].cost
               \/ bill[k].cost > 10 /\ Cost(row) = 0}

OverAndUnderProjection        == SoftGate("over_and_under_projection", OffLines, PostTriage(layer))
OverAndUnderProjectionBlocked == SoftGateBlocked("over_and_under_projection", OffLines)

Finish ==
    /\ status = "running" /\ todo = <<>>
    /\ status' = "done"
    /\ UNCHANGED <<todo, unchecked, faults, recalcs>>
    /\ UNCHANGED <<inputVars, planVars, tableVars, fixVars, rates, storeVars>>

-----------------------------------------------------------------------------
(* What happens to a finished job.                                         *)

\* A reviewer's finding about the service of a misc line is accepted: the
\* refresh store trusts its target from now on.
PromoteFinding ==
    /\ status = "done"
    /\ \E k \in Lines :
           /\ group[k] = "misc" /\ bill[k].canonical # None
           /\ bill[k].canonical \notin DOMAIN trusted
           /\ trusted' = [c \in DOMAIN trusted \cup {bill[k].canonical} |->
                             IF c \in DOMAIN trusted THEN trusted[c] ELSE TrustedTarget]
    /\ UNCHANGED <<inputVars, flowVars, planVars, tableVars, fixVars, rates, ledger, overrides>>

\* An administrator changes the overrides.  The server writes its entries of the
\* ledger anew and starts a recalculation, which goes through its scripts
\* whatever their exit codes; here one ends before the next begins.
RecalculateWith(changed) ==
    /\ status = "done"
    /\ answers + recalcs < MaxExtras
    /\ overrides' = changed
    /\ ledger' = syncDirectivesFromOverrides(ledger, changed)
    /\ status' = "running"
    /\ todo' = RecalculateScripts
    /\ recalcs' = recalcs + 1
    /\ UNCHANGED <<inputVars, planVars, tableVars, fixVars, rates, trusted, unchecked, faults>>

OverrideLineItem ==
    \E k \in Lines, kind \in {"ignore", "rate"} :
        RecalculateWith([q \in DOMAIN overrides \cup {k} |-> IF q = k THEN kind ELSE overrides[q]])

\* Also without an override to delete.
DeleteLineItemOverride ==
    \E k \in Lines : RecalculateWith(Restrict(overrides, DOMAIN overrides \ {k}))

-----------------------------------------------------------------------------
Init ==
    /\ bill \in Bills
    /\ skus \in Catalogs
    /\ layer \in Layers
    /\ status = "running" /\ todo = Pipeline(layer) /\ unchecked = FALSE
    /\ group = [k \in Lines |-> None]
    /\ manifest = [g \in LLM_GROUPS |-> {}]
    /\ files = [g \in Files |-> {}]
    /\ exists = FALSE /\ table = {} /\ added = {}
    /\ rates = NoRates
    /\ trusted = NoRates
    /\ ledger = <<>> /\ overrides = NoRates
    /\ review = NoFiles /\ triage = NoFiles
    /\ faults = 0 /\ answers = 0 /\ recalcs = 0

RunScript ==
    \/ ScriptFails
    \/ Classify \/ ApplyCommitmentIgnores
    \/ ApplyStaticMappings \/ MappingAgent \/ MappingAgentBlocked
    \/ MergeMappings \/ MergeMappingsRollsBack
    \/ ServiceClassifier \/ FixStorageMisroute \/ ReconcileCapacity
    \/ DirectivesFromLegacy \/ ApplyDirectives
    \/ GateNotEvaluated \/ CoveragePasses \/ RetryAgent \/ RetryAgentBlocked
    \/ CoverageAfterRetry \/ EnsureFullCoverage \/ CoverageAtLast
    \/ AutoReview \/ ReviewAgent \/ ReviewAgentBlocked \/ ApplyReviewFixes
    \/ NoIllegalPassthroughs \/ NoIllegalPassthroughsBlocked
    \/ ApplyRates \/ ValidateFix \/ ValidateFixDies
    \/ NoNullProjectedCost \/ NoNullProjectedCostBlocked
    \/ DetectOutliers \/ AutoTriage \/ IncrementalRerate
    \/ TriageAgent \/ TriageAgentBlocked \/ ApplyOutlierFixes \/ OutlierGate
    \/ OverAndUnderProjection \/ OverAndUnderProjectionBlocked
    \/ Finish

\* Nobody accepts a finding or changes an override any more.
Stopped == status # "running" /\ UNCHANGED vars

Next == RunScript \/ PromoteFinding \/ OverrideLineItem \/ DeleteLineItemOverride \/ Stopped

Spec == Init /\ [][Next]_vars

\* run_all.py goes on as long as there is a script to run.  This is
\* WF_vars(RunScript) with its ENABLED written out, and RunScript the only step
\* of a running job: a running job that can take no step would be a deadlock.
FairSpec == Spec /\ ([]<>(status # "running") \/ []<><<status = "running">>_vars)

-----------------------------------------------------------------------------
(* Properties.                                                             *)

\* The steps still to run are steps of orchestrate.go, the shared data speaks of
\* lines of the bill only, and the bounds hold.
TypeOK ==
    /\ status \in {"running", "done", "failed"} /\ todo \in Seq(Steps) /\ unchecked \in BOOLEAN
    /\ DOMAIN group = Lines /\ manifest \in [LLM_GROUPS -> SUBSET Lines] /\ DOMAIN files = Files
    /\ exists \in BOOLEAN /\ Covered \subseteq Lines /\ added \subseteq Lines
    /\ exists \/ table = {}
    /\ DOMAIN overrides \subseteq Lines /\ {ledger[i].key : i \in DOMAIN ledger} \subseteq Lines
    /\ faults \in 0 .. MaxFaults /\ answers \in 0 .. MaxExtras /\ recalcs \in 0 .. MaxExtras

\* The report of the run itself, before any recalculation.
Report == status = "done" /\ recalcs = 0

\* A gap in a report is never silent.  Whatever the agents drop and whichever
\* script fails, a run that ends with a report has a row for every line of the
\* bill, between the merge, the retry and the backstop of phase 2, and no later
\* script drops one; or the gate that counts the lines could not be evaluated, and
\* diagnostics.jsonl says that it was not.
EveryLineCovered == Report => Lines \subseteq Covered \/ unchecked

\* Lines that a validate_fix.py killed half-way may have mapped again.
Repairable(k) ==
    \/ group[k] = "object_storage"
    \/ is_workload(bill[k]) /\ Hits(bill[k].product, MAPPABLE_SERVICE_PATTERNS)

\* Every mapped row of a line above five dollars has a price in the report,
\* between the look-up of missing SKUs, the safety net of apply_rates.py and
\* validate_fix.py: without exception if nothing failed, and whatever failed if
\* no agent edited a line and validate_fix.py did not map the line anew.  (The
\* rows that apply_rates.py moves to outlier_triage are no longer mapped.)
MappedRowsPriced ==
    Report => \A row \in table :
        /\ Mapped(row) /\ bill[row.key].cost > 5
        /\ faults = 0 \/ (answers = 0 /\ ~Repairable(row.key))
        => HasCost(row, rates, bill[row.key], compute_dominant_region(bill))

\* A run fails for a script or an agent that failed, never for what the bill,
\* the catalogue or the answers of the agents are.
OnlyFaultsFail == status = "failed" => faults > 0

\* A credit on the bill neither adds to the projection nor takes from it, in
\* the report and after every recalculation: no row of its line costs anything,
\* unless an agent answered about the line or inserted a row for it.
CreditsAddNothing ==
    status = "done" =>
        \A row \in table :
            /\ bill[row.key].cost < 0
            /\ row.key \notin added \cup DOMAIN review.fixes \cup DOMAIN triage.fixes
            => RowCost(table, rates, bill, row, "OnDemand") = 0

\* The groups whose handlers rent an instance, whole, of a machine family.
InstanceGroups ==
    {"compute_arm", "compute_burstable", "compute_windows", "msk", "opensearch"}

\* An Arm instance is never priced on x86 hardware by the static mappers,
\* whatever is cheaper or unavailable in the region.
ArmStaysArm ==
    \A row \in table :
        /\ row.key \notin added /\ answers = 0 /\ Mapped(row) /\ row.comp \in {"core", "ram"}
        /\ group[row.key] \in InstanceGroups
        /\ HasSpecs(bill[row.key]) /\ Type(bill[row.key]).arm
        => \E f \in Families : f.arch = "arm" /\ row.sku \in {Core(f.label), Ram(f.label)}

\* The account-wide Cloud Armor fee is projected exactly once in a month in
\* which a region of the bill sells it, however many lines and regions it has
\* (unless an agent says otherwise, or the SKU was resolved before the catalogue
\* lost it).
Enrolled(m) == {row \in table : row.sku = ENTERPRISE_ENROLLMENT /\ bill[row.key].month = m}

EnrolledOnce ==
    /\ Report /\ faults = 0 /\ answers = 0
    /\ \A key \in DOMAIN ResolvedSkus :
           key[1] = ENTERPRISE_ENROLLMENT => ENTERPRISE_ENROLLMENT \in valid_skus(skus)
    =>
        \A m \in {bill[k].month : k \in {q \in Lines : EnterpriseFeature(bill[q])}} :
            Cardinality(Enrolled(m)) =
                IF \E k \in Lines : /\ bill[k].month = m /\ EnterpriseFeature(bill[k])
                                    /\ ENTERPRISE_ENROLLMENT \in Cats[bill[k].region].names
                THEN 1 ELSE 0

\* No row of a report is priced a multiple above what the line costs today.
ClampedAfterGate ==
    Report /\ faults = 0 => \A row \in table : Mapped(row) => ~Blowup(table, rates, bill, row)

\* The scripts come to an end.
Terminates == status = "running" ~> status # "running"

\* "Enables legacy jobs to run through the single apply_directives.py pipeline
\* and produce identical projections": with the directive layer the answers of
\* the review about flagged lines lead to the mapping to which they lead without
\* it.  They do not: a confirmed candidate, a SKU or a multiplier is lost.
Mapping(rows) == {[key |-> r.key, comp |-> r.comp, sku |-> r.sku, mult |-> r.mult,
                   strategy |-> r.strategy] : r \in rows}

IdenticalProjections ==
    [][At("apply_directives") /\ todo[2] = "no_illegal_passthroughs" /\ faults = 0
       /\ DOMAIN review.fixes \subseteq DOMAIN review.candidates =>
          Mapping(table') =
              Mapping(apply_review_fixes(table, bill, review.candidates, review.fixes))]_vars

\* "Suppress / un-suppress a row [...] Soft flag, reversible": once its override
\* is deleted and the job is recalculated, a line is out of the projection only
\* if its group, its mapping files, the policy of its service or an agent say so.
\* A copy of the override that directives_from_legacy.py made stays in the ledger.
SuppressionReversible ==
    status = "done" /\ recalcs > 0 /\ faults = 0 /\ answers = 0 =>
        \A row \in table :
            row.strategy = "ignore" /\ row.key \notin DOMAIN overrides =>
                \/ group[row.key] \in {"commitment_discount", "negative_cost"}
                \/ policy(bill[row.key]).mode = "ignore"
                \/ \E g \in Files : \E f \in files[g] : f.key = row.key /\ f.strategy = "ignore"
=============================================================================
