# A TLA+ model of CUR-to-GCP: its jobs and its projections

The program turns an AWS cost-and-usage report into a projected GCP bill. A Go
web server accepts a bill, creates a *job*, and spawns a detached agent process
(`python3 run_all.py`, which in turn runs scripts and the LLM command line
`agy`) in the job's directory. The server and the agent share nothing but files
and a pid: the server learns how a job went by polling the process and looking at
the files it left. The scripts and the agents work on one DuckDB file: they
classify the lines of the bill, map them to GCP SKUs, price the mapping and
repair it. This directory holds specifications of both halves, the job machinery
and the projection pipeline, the TLC runs that check them on small instances,
and TLAPS proofs of the core invariants for every size of instance.

## 1. The system

| part (under `src/`) | state it keeps | operations | interacts through |
|---|---|---|---|
| **Job lifecycle**: `internal/jobs/handler.go`, `admin_handlers.go`, `job_assumptions_handler.go`, `internal/db/jobs.go` | a row per job (`status`, `agent_pid`, `attempts`), a directory per job (`cancelled`, `report*.html`, `failure.txt`, `orchestrator.lock`), `DataDir/STOP_ALL` | create, retry, re-run with other assumptions, refine, cancel, cancel all, resume all, delete | unconditional SQL updates, files, `go watcher.Watch` |
| **Watcher**: `internal/jobs/watcher.go` | a goroutine per job with the pid it polls and the row it has read | poll, kill a stale process, finalize (done, failed, cancelled, retry) | row, files, signal 0, SIGKILL |
| **Process control and startup**: `proc_unix.go`, `cmd/server/main.go`, `systemd/cur-web.service` | the processes of the host | killGroup, pidAlive, reapOrphanAgents, orphan reaper at startup | signals, `ps`, systemd |
| **Spawner**: `spawner.go`, `StartOrchestrated` in `orchestrate.go` | none | check STOP_ALL, prepare the directory, `setsid` spawn | directory, pid |
| **Orchestrator**: the Python program in `orchestrate.go` | `phase_checkpoint.json`, `orchestrator.lock`, the DuckDB file, place in the phase loop | lock guard, resume, the six phases with scripts, gates, retries, quota checks, checkpoint | files; exits with its work or its failure in the directory |
| **Report regeneration**: `RegenerateReport`, `Recalculate`, `RerunJobAssumptions` | `regenLocks` (a mutex and a set of job ids) | claim a job, work, release | mutex; the DuckDB file |
| **Admission and uploads**: `checkUserQuota`, `Create`, chunked uploads, shared bills, `ratelimit.go` | quota counters, part files, bills | submit, upload chunk, complete | SQL counts, files |
| **Catalog refresh**: `catalog_refresher.go` | a status file, `refreshRunMu` | timer, trigger, restart | status file |
| **Findings, overrides, directive stores**: `admin_handlers.go`, `refinement_handlers.go` | `refresh_store.json`, override and directive files | action a finding, override a line, apply a refinement | read-modify-write of files, background recalculation |
| **Progress and log facets**: `progress.go`, `facets.go` | none | read what the agent writes | files |
| **Mapping pipeline**: phases 2 to 5 of `orchestrate.go`, `skill/.../scripts/` | the mapping files, the manifest, the table `aws_li_to_gcp_li`, the rate table, `refresh_store.json` | some twenty scripts and three agents, gates with retries, recalculation | the DuckDB file, JSON files, exit status, `failure.txt` |
| **Line classification**: `classify_mechanics.py`, `spec_dispatch.py` | `mechanic_group` | classify a line | read by the mappers and the manifest |
| **Static mappers**: `apply_static_mappings.py` | one mapping file per group | a handler per group: choice of SKU, strategy, confidence | mapping files, manifest |
| **Merge and rewrites**: `merge_mappings.py`, `service_classifier.py`, `fix_storage_misroute.py`, `reconcile_capacity.py` | the table | validate, deduplicate, apply the service policy | the table |
| **Rates and view**: `apply_rates.py`, `incremental_rerate.py`, `projection_view.py`, `outlier_gate.py` | the rate table, the view `gcp_projection` | fill rates, reroute what has none, clamp | the table |
| **Review and triage**: `auto_review.py`, `detect_outliers.py`, `auto_triage.py`, `apply_*_fixes.py` | candidate and answer files | flag, propose, apply what the agent answers | files, the table |
| **Repairs**: `validate_fix.py` | none | a dozen repairs in a fixed order | the table, the rate table |
| **Directive layer**: `directives*.py`, `directive_resolver.py`, `apply_directives.py` | the ledger `directives.json` | translate old files, resolve, apply | the ledger, the table; shared with the server's overrides |
| Ingestion, report rendering | the bill lines; none | parse; lay out | the DuckDB file |
| Authentication, analytics, system health, notifications, object storage, front end | – | – | – |

### What is hard

* **Nobody owns a row.** Every `UPDATE jobs SET status=...` is unconditional.
  Handlers, watchers, a cancel and the startup reaper write the same row after
  reading it several file operations earlier.
* **The agents outlive the server** (`Setsid`, `KillMode=process`). After a
  restart the server has rows, pids and files, and must give each pending or
  running row a watcher or a terminal status again.
* **Cancelling is three media**: a sentinel file the agent polls at its phase
  boundaries, a status in the row, and a SIGKILL of whatever pid the row had.
* **The orchestrator resumes** after kills in the middle of a phase or of a
  checkpoint write, and is started again by the watcher, by a retry and by a
  re-run, each of which cleans up a different subset of the files.
* **The pipeline is a chain of rewrites of one table.** Whether a line is covered,
  priced or left out at the end depends on twenty scripts, three agents and
  their retries together. Most scripts may fail without stopping the run, and
  some commit half of what they do.
* **Decisions travel through files with different formats**: an agent's answer, an
  administrator's override and an accepted finding each go through a file, a
  translation and a ledger before they reach the table, and a recalculation
  replays them.
* **Several goroutines work for one job**: two watchers after a Retry that raced a
  re-run, a delete racing a spawn, a cancel racing all of them.

`PROJECT.json` lists these hazards one by one, at their lines, with the properties
that cover them.

### What makes each part correct

* *Job lifecycle, watcher, startup*: no running row is forgotten
  (`RunningIsOwned`, `JobSettles`); `done` is backed by a report
  (`DoneIsEarned`); a cancel is not undone (`CancelSticks`, `CancelIsTerminal`);
  the retry budget bounds the automatic restarts (`RetryBudget`).
* *Process control, spawner*: a cancelled job's processes come to an end
  (`SentinelStopsRun`, `SweepIsComplete`); one orchestrator per directory
  (`OneOrchestrator`).
* *Orchestrator*: a resume never steps over a critical phase (`CheckpointSound`);
  a report is founded on ingested and mapped data (`ReportIsFounded`); a
  structural failure stops all progress (`FailureStops`, `FallbackRecovers`); a
  gate that blocks does (`EnforcedGateBlocks`); it ends (`PipelineEnds`) and is
  the process the server expects (`ImplementsAgent`).
* *Report regeneration*: one at a time per job, and each comes to an end
  (`RequestEnds`).
* *Mapping pipeline*: no line of the bill is lost without a record of it
  (`EveryLineCovered`); a run fails for a failure only (`OnlyFaultsFail`), and ends
  (`Terminates`); what is mapped is priced or carried (`MappedRowsPriced`).
* *Classification, mappers, merge*: an Arm line stays on Arm (`ArmStaysArm`); the
  account-wide fee is due once a month (`EnrolledOnce`); a credit adds nothing
  (`CreditsAddNothing`).
* *Rates, review, triage, repairs*: nothing is priced a multiple above what it
  costs today after the last gate (`ClampedAfterGate`).
* *Directive layer, overrides*: the layer changes the way and not the result
  (`IdenticalProjections`); a suppression can be taken back
  (`SuppressionReversible`).
* *Admission, uploads* (planned): accepted jobs never exceed the quota; a bill
  is assembled from all of its parts; a shared bill is not removed under a
  submission. *Catalog refresh, stores* (planned): one refresh at a time, a
  refresh is not blocked for ever by a crash, no accepted finding is lost.

## 2. The modules

| module | models |
|---|---|
| `JobLifecycle` | rows, directories, goroutines, agent processes seen from outside, server crash and restart |
| `MCJobLifecycle` | its instances for TLC |
| `JobLifecycleProofs` | its types, ownership of running rows, cancels, `done` rows and retry budget |
| `AgentProcess` | the abstract agent process: what the server relies on |
| `Orchestrator` | `run_all.py` from the inside; implements `AgentProcess` |
| `MCOrchestrator` | the six phases the server ships |
| `OrchestratorProofs` | its theorems, and that it implements `AgentProcess` |
| `Recalculation` | `regenLocks` and its three users |
| `MechanicRules` | the mechanic group of a bill line: exclusions, spec dispatch, the rules in their order |
| `SkuCatalog` | the catalogue seen from a region: look-up, fallback regions, the cheapest family |
| `MappingEntries` | what a mapper says of a line; the helpers all mappers share |
| `StorageMappers`, `NetworkMappers`, `RequestMappers`, `ServiceMappers`, `ComputeMappers` | the handlers of the deterministic groups |
| `StaticMapping` | `main` of `apply_static_mappings.py`: a batch per group, its errors and its leftovers |
| `MappingMerge` | the merge and the three scripts that rewrite the merged table |
| `Pricing` | rates, rerouting, view, last gate |
| `ReviewFixes`, `OutlierFixes` | what is flagged, proposed and applied in phases 3 and 5 |
| `PricingRepairs` | the repairs of `validate_fix.py` |
| `Directives` | the ledger, the shim, the resolver and the application |
| `Projection` | the pipeline: all of the above as steps of one job |
| `MCProjection` | five small bills and three catalogues |
| `TableProofs` | lemmas about the table: what each script after the merge keeps of its lines and columns |
| `ProjectionProofs` | the pipeline covers the bill and fails for failures only |
| `ProjectionDataProofs` | its types: what the scripts share speaks of lines of the bill |
| `ReportProofs` | what the repairs and the last gate see to in a report |
| `LineProofs` | credits stay out of the projection; mapped lines keep their price |
| `ArmProofs` | Arm instances stay on Arm |

### JobLifecycle

`status`, `agentPid` and `attempts` are the columns of the jobs table; `"none"`
and `"deleted"` say that there is no row yet or no more. `dir`, `sentinel`,
`report` and `failure` are the sets of jobs whose directory exists and holds the
file; `lock` is the pid in `orchestrator.lock`. `proc` and `runs` are the agent
processes of the host. `pc`, `on`, `pid`, `op`, `seen` and `todo` are the
goroutines: the step each is about to take, its job, and the locals it holds on
to (the pid it polls or will kill, the `attempts` it read, the jobs CancelAll
still has to visit).

One step is one access to shared state. Several accesses are one step only where
the last of them is the one that opens a gate to others (removing `failure.txt`
and the lock, then resetting the row). So everything a goroutine reads before a
file operation and uses after it is stale in the model exactly where it is stale
in the code: the row of `finalize` (`CheckClear` → `Examine` → `MarkDone`), the
status check of `Retry`, the pid of `cancelJob`, the STOP_ALL check of the
spawner, the lock guard of the orchestrator (`AgentBoot` → `AgentClaim`).

A handler that ends with `go watcher.Watch(...)` hands its job over and returns;
the model lets the handler's goroutine become the watcher. The agent is seen as
the server sees it: between two phases, inside one, or gone, with a report or a
`failure.txt` left behind at any moment in a phase. `AgentDies` covers every
exit that leaves nothing.

An interrupted `finalize` can find a quota or authentication marker in the log
at any time, so `Examine` may choose failure whenever there is no report.

### AgentProcess and Orchestrator

`Orchestrator` follows `run_phase` statement by statement: cancel check, resume
skip, pre-scripts, script or prompt, fallback, early quota check, post-scripts,
`failed_structurally`, quota check, gate, targeted retry, second gate,
checkpoint, and the driver loop that goes on after an exception in a
non-critical phase. Scripts, `agy` and SQL are their outcomes. A gate that
cannot be evaluated counts as passed, as in the code. `through` (which
phases left their results in the database) and `violated` (whose gate reported
violations last) are history variables; a phase that starts invalidates what it
and later phases did before. A kill can come at any step, also in the middle of
the checkpoint write. A re-run clears the checkpoint, a retry does not.

`AgentProcess` says what `JobLifecycle` expects of an agent process. That the
pipeline is such a process, `ImplementsAgent` (refinement mapping: `proc` is
`"working"` while `step` is inside a phase), is checked by TLC, fairness included.
The other side of the boundary is not checked by a tool: `JobLifecycle` has agent
actions of its own, in which pids, files and crashes take part (`AgentBoundary`,
`AgentPhaseEnds`, `AgentDies`, ...), and that they follow the steps of
`AgentProcess` is a matter of reading. It does not know about phases.

### Recalculation

The mutex and the set of `regenLocks`, and the three handlers that use them.
What the handlers do to the DuckDB file is the matter of `Projection`. Because
RegenerateReport and Recalculate block themselves, a re-run that arrives later
waits before it touches a row; `JobLifecycle` is therefore not affected beyond a
request that never starts.

### Projection and the modules below it

The modules from `MechanicRules` to `Directives` are pure: each script is an
operator from the table, the rates and the bill to a new table, each mapper one
from a line to its entries. They extend each other in the order in which the
data flows, and `Projection` calls them in the order of `orchestrate.go` and
`admin_handlers.go`. `todo` is the sequence of scripts still to run; a gate that
is not passed puts the scripts of its retry in front of it, and so does an
override with the scripts of a recalculation.

Text is abstracted to what the code asks of it: a product or usage type is the
set of patterns of the code that occur in it, a SKU is a name with its regions
and rates, all SKUs of one description are one. A row of the table is a record
of line, component, strategy, SKU, multiplier, confidence, reason and the
origin of its rate. Costs are integers, so that the thresholds of the gates
are compared exactly; unit conversions are left out, and tiered prices are
blended to one rate.

An agent is external and may do anything that the scripts accept: it maps each
line it is asked about to any of `Drafts`, drops it, or rewrites the file of a
group it is not asked about as an empty one; it answers about flagged lines, or
about others, with any of `Answers`. Scripts fail before they begin
(`ScriptFails`), and, where a part of them commits, half-way
(`ApplyStaticMappings`, `MergeMappingsRollsBack`, `ValidateFixDies`,
`apply_directives`). A model API that refuses ends phase 2 and skips the rest of
phases 3 and 5, as in `run_phase`. So a run with a fault is not a run with a
missing step: what the steps after it find is what the code would find.

A gate is a query, and a query may fail. `gate()` of `orchestrate.go` then returns
nothing, because there is no table or because DuckDB raised, and the run goes on
without the retry and, in phase 2, without the backstop; `diagnostics.jsonl` gets an
entry. `GateNotEvaluated` is this step for each of the six gates; it counts as a
failure when there is a table. `unchecked` remembers that a gate that counts
lines was passed in this way: the entry a reader of the diagnostics would find.
Phase 4's gate also counts rows whose `gcp_service` is missing or an AWS name. The
rows of the model do not carry that name, so these counts are a choice
(`MayLackService`): the gate may find such rows or not.

`apply_directives` returns the set of tables the script may leave: once
`gcp_projection` is a view, the update that sets the cost of an ignored or rated
line is refused and ends the script, with the lines before it done, in an order
the database chooses. That is why the layer's last application in phase 5 always
fails on a bill with a credit, and why an override of a rate never arrives.

## 3. The runs

| run | instance | shows |
|---|---|---|
| `lifecycle_safety` | 1 job, 2 goroutines, 2 pids, `MaxAttempts` 2, 1 crash; goroutines and pids symmetric | `TypeOK`, `RunningIsOwned`, `RetryBudget`, `DoneIsEarned`, `CancelSticks` |
| `lifecycle_liveness` | 1 job, 2 goroutines, 1 pid, no symmetry; fairness in the properties | `JobSettles`, `SentinelStopsRun` |
| `orchestrator` | the six shipped phases, 3 processes, `FairSpec` | `TypeOK`, `CheckpointSound`, `ReportIsFounded`, `FailureStops`, `PipelineEnds`, `ImplementsAgent` |
| `cancel_is_terminal` | 1 job, 2 goroutines, 2 pids | counterexample |
| `one_orchestrator` | same | counterexample |
| `sweep_is_complete` | same | counterexample |
| `fallback_recovers` | six phases, 2 processes | counterexample |
| `enforced_gate` | six phases, 2 processes | counterexample |
| `regen_lock` | 2 jobs, 2 requests | counterexample |
| `projection` | 5 bills, 3 catalogues, directive layer on and off, 1 fault, 1 answer or override; `FairSpec` | `TypeOK`, `EveryLineCovered`, `MappedRowsPriced`, `OnlyFaultsFail`, `CreditsAddNothing`, `ArmStaysArm`, `EnrolledOnce`, `ClampedAfterGate`, `Terminates` |
| `identical_projections` | the same bills, layer on, no fault, 1 answer | counterexample |
| `suppression_reversible` | the same bills, layer on, no fault, 2 overrides or deletions | counterexample |

**Why the bounds suffice.** Jobs share nothing but STOP_ALL and the sweep of
CancelAll; every safety property speaks of one job, so one job suffices to
violate it, and the proofs cover any number. Two goroutines give every pair of
racing actors (request/watcher, watcher/watcher, cancel/delete, re-run/re-run).
Two pids let an old process live on, with its lock or without, while a second
one runs. `MaxAttempts` is 2 (3 in `watcher.go`): Retry and Rerun set `attempts` to
1, so 2 is the smallest budget that lets a watcher spend an attempt. Two watchers
that both read 1 then bring the counter to 3, above the budget, which is the case
`RetryBudget` is about; `BudgetHolds` covers any value. `MaxCrashes` bounds the number of server crashes in a
behaviour; a second crash finds no state that the first could not find, as
nothing counts them. `MaxSpawns` bounds the processes of one job in
`Orchestrator`: a first run, a restart or retry, and one more that resumes from
what both left. A pid is not reused while a row, a lock file or a goroutine
refers to it, and an id is created once (`uuid.New`).

In `Projection` lines interact through the service policy, the phantom families,
the account-wide fee, the dominant region and the discount flag; the bills hold
the pairs that do, one for each property (an Arm line with one for the agent, a
credit, three lines for the fee in two months, the first of them in a region that
does not sell it, storage sold in another region
only, a fee nothing maps). The catalogues are a full one, one that lost SKUs
that others refer to, and an empty one. `MaxFaults` bounds the scripts that
fail in a behaviour. With one, a half-done step meets everything that follows. With `MaxFaults = 2` the safety properties hold as well (`Spec`, 2,957,430 states; not a listed run, because of its length), and the proofs allow any number.
`MaxExtras` bounds answers and recalculations together, so that an answer and
a recalculation are not combined; a recalculation starts from any report a run
without an answer can leave. A gate that is not evaluated uses up a fault as
well, unless the table is missing, and meets every way in which a line can
still be open. Two recalculations are allowed where the run is about them. A
background recalculation ends before the next begins.

Deadlock is checked in `JobLifecycle` and in `Projection`. It is switched off in `Orchestrator`,
where the bound on spawns ends a behaviour, and in `Recalculation`, where the run
is about everybody waiting.

**Fairness.** In `JobLifecycle` each liveness property states the fairness it
needs. `ServerFairness`: a goroutine that can take a step does (the Go
scheduler), a process that shows no activity for `staleTimeout` is killed by its
watcher, and systemd restarts a server that died (`Restart=on-failure`).
Requests, cancels and ResumeAll are never fair: nobody has to ask for anything.
`JobSettles` assumes nothing of the agents; they may hang for ever.
`SentinelStopsRun` needs that phases end (`AgentFairness`), which the scripts'
finiteness and `agy --print-timeout` justify, and says so in the property. The
same holds for `FairSpec` of `Orchestrator`. `FairSpec` of `Projection` is weak
fairness of `RunScript`: the driver loop goes on while there is a script to run.
It is written with its ENABLED expanded (`status = "running"`), because TLC
would otherwise evaluate every script again to learn that one can run; that a
running job can always take a step is the absence of deadlock. `Recalculation` assumes a waiter on
a `sync.Mutex` is not starved (Go's starvation mode), so strong fairness.

### What disagrees with the documentation

The eight runs that expect a violation each check a sentence of a document or of a
comment, quoted in `PROJECT.json` under `findings`.

1. *"Cancel is terminal only."* A cancel between the insert of a row and the first
   statement of `runJob`, or between `finalize` reading the row and writing it,
   is overwritten. `CancelSticks` is the part that does hold, and is proved.
2. *"only one run_all.py may hold the lock for a given job dir at a time"*. The
   guard reads the file and later overwrites it, and four places of the server
   remove the lock of a process that may be alive.
3. *the sweep kills every process of a cancelled job*. The command line of
   the orchestrator names no jobs directory, so the sweep does not recognise it.
   (It stops at its next phase boundary: `SentinelStopsRun`.)
4. *"Only if that retry also fails does the phase hard-fail"*. `failure.txt` of the
   first attempt survives the successful fallback and ends the run.
5. *"actually blocks the job on them"*. The gate of phase 4 ends in a warning,
   because phase 4 is not in `CRITICAL_PHASES`.
6. *`regenLocks` "serializes"*. RegenerateReport and Recalculate lock a mutex in
   a deferred function that their own goroutine still holds.

7. *"produce identical projections"* with the directive layer. The shim reads the
   candidates one level too high, and SKUs and multipliers are not applied: of
   the review's answers only the strategy of an override arrives.
8. *"Soft flag, reversible"*. The shim copies a suppression into the ledger under a
   name of its own, and deleting the override does not remove the copy.

Some behaviour of the code, reproduced by the model, contradicts no sentence a
run could check, or only the intention of a comment:

* The rows the agent inserts in the retry of phase 2 are deleted by the merge
  that runs after it (`orchestrate.go:1833`, `merge_mappings.py:453`); the
  backstop carries their lines in the end, so coverage does not depend on it.
* A mapped row without a reachable rate becomes `outlier_triage`
  (`apply_rates.py:1046`) and has no cost in the view; nothing but an agent's
  edit changes that.
* An answer about a line that was never flagged is refused only if something was
  flagged at all (`apply_outlier_fixes.py:266`).
* Each query of `auto_triage.py` replaces the candidate an earlier one had for the
  row, also with none.

## 4. The proofs

Nothing is assumed but the named assumptions on the constants, which TLC evaluates
on every instance:

| assumption | says | because |
|---|---|---|
| `ConstantsAssumption` (`JobLifecycle`) | `NoJob` and `NoPid` are no job and no pid, the set of goroutines is finite, the retry budget is positive | markers of the model; `MaxAttempts` is 3 |
| `PhasesAssumption` (`Orchestrator`) | the critical phases come before the last one, which is a script; only critical phases have a fallback | `phaseSpecs`, `CRITICAL_PHASES` |
| `BoundsAssumption` (`Projection`) | the bounds are numbers, the layers Booleans | bounds of the model |
| `BillsAssumption` (`Projection`) | a bill is a finite list of lines, each with a cost | rows of `aws_li_catalog` |
| `DraftsAssumption` (`Projection`) | what agents draft and findings promote has the columns of a mapping file | `COLUMNS` of `merge_mappings.py`, which fills what is missing |
| `RegionsAssumption` (`Projection`) | every line has a region among those the catalogue is asked about | the region update in `ingest.py` falls back to `global` |
| `CatalogsAssumption` (`Projection`) | a SKU has a numbered place in its file, and a rate that is a natural number or `NoRate` | the SKU files; rates are counted in a unit that is small enough |
| `FamiliesAssumption` (`SkuCatalog`) | the families have an order | the order of discovery decides between equal costs in `cheapest_in_scope` |
| `SpecsAssumption` (`ComputeMappers`) | vCPUs and memory of a type are natural numbers | the tables and formulas of `parse_instance` |
| `ArmFamiliesAssumption` (`ComputeMappers`) | the defaults T2A and C4A are families, and Arm ones | `_GP_FAMILY_ARCH`; nothing else is said of the families or of what they cost |
| `EnterpriseAssumption` (`PricingRepairs`) | no machine family has an Enterprise edition | `_downgrade_enterprise_plus` looks at Cloud SQL rows only |
| `GateAssumption` (`Pricing`) | the thresholds of the last gate are natural numbers | `review-config.json`, read by `outlier_gate.py` |

Jobs, pids, phases, crashes, processes, failures and answers are any number.
Bills, catalogues, specs, families, refresh stores and resolved SKUs are any that
satisfy these rows: which SKUs and families there are, where they are sold and
what they cost is left open, a catalogue that sells nothing included.

`JobLifecycleProofs`, about `JobLifecycle`:

* `TypeCorrect`: `Spec => []TypeOK`. `TypeOK` is inductive; it includes that a
  pid has a job exactly while its process lives and that a goroutine has a job
  exactly in the steps that need one, without which `runs[p]` and `on[t]` could
  not index the other functions.
* `OwnershipHolds`: `Spec => []RunningIsOwned`, inductive relative to `TypeOK`.
  The difficulty is not the steps that make a row running but those by which a
  goroutine leaves it: each of them (`MarkDone`, `CheckGone`, `CheckCancelled`,
  a refused re-run, ...) either was no owner, or leaves a row that is not pending
  or running. `HandsOver(t)` is that rule for one goroutine; lemma `HandOver`
  shows that it suffices, and two lemmas that every request and every step of a
  goroutine keeps it. `Startup` gives every orphan a goroutine or a status.
* `CancelHolds`: `Spec => CancelSticks`. A job is `Settled` when its row is
  cancelled and every goroutine on it has yet to look at the row; `Respects(t)`
  is what a step of a goroutine may do to such a job. The interesting cases are
  `CheckClear`, which a cancelled row disables, and `Startup`, which does not
  list cancelled rows.
* `DoneHolds`: `Spec => DoneIsEarned`. The strengthening `Earned` says what a
  goroutine in `markDone` can rely on: the report, or a row already archived, or
  a Delete between removing the directory and archiving the row. It needs that
  no goroutine works on a job without a row (`status # "none"`), or the archive
  could miss it.
* `BudgetHolds`: `Spec => []RetryBudget`. `Spenders(j)` are the goroutines that
  read `attempts` below the budget and have not incremented it yet. The sum of
  `attempts` and of their number is the quantity that stays bounded: a goroutine
  joins them only while `attempts` is below the budget, and leaves them when it
  increments.

`OrchestratorProofs`, about `Orchestrator`:

* `TypeCorrect`: `Spec => []TypeOK`.
* `ResumeIsSound`: `Spec => []CheckpointSound`, and `ReportHolds`:
  `Spec => ReportIsFounded`, both from `Sound`. `CheckpointSound` is not
  inductive: a phase that starts discards the results of the phases after it, so
  one has to know that it lies after the checkpoint (`Placed`), that the phases
  a process skips are those the checkpoint names, and that a critical phase
  gets to its checkpoint only with a gate that reports nothing (`Passed`).
* `FailureHolds`: `Spec => FailureStops`, from `Halting`: while `failure.txt` is
  there, a process can only be between a failed ingest attempt and
  `failed_structurally`, in a phase in which a quota wall is fatal as well.
* `PipelineIsAgent`: `Spec => Agent!Safety`. Every step of the pipeline is a step
  of `AgentProcess` or changes nothing it shows.

`TableProofs`, about the operators `Projection` is built from: every script after
the merge rewrites rows, neither adds a line nor drops one, and leaves a row its
columns. Each operator has a lemma; those of composed scripts (`apply_rates`,
`validate_fix`, the two `apply_*_fixes`, `apply_directives`) combine the lemmas of
their parts. The columns matter because an `EXCEPT` on a row that lacks the
column changes nothing, and half of what a repair promises is such a change.

`ProjectionProofs`, about `Projection`:

* `FailuresAreFaults`: `Spec => []OnlyFaultsFail`, and `ReportsCoverTheBill`:
  `Spec => []EveryLineCovered`, both from the inductive `IInv`. Coverage itself is
  not inductive: the table is empty, then partly filled, then emptied and filled
  again by the merge of a retry. What is inductive speaks of the table and of the
  plan together: `PlanOrdered` says that the steps still to run have their order
  (each merge before a coverage gate, the last gate right behind the backstop,
  the later agents, whose refusal skips a stretch of the plan, behind every
  gate), `BehindGates` that once no coverage gate is ahead the lines are covered,
  or a gate was not evaluated (`unchecked`), and `LastGateMet` that the gate which may
  end the run finds no gap unless something failed. `EveryLineCovered` names that way out: a gate that cannot
  be evaluated asks neither agent nor backstop, so a report with a gap can exist,
  and what holds is that the diagnostics then say so. `TableThere`: there is a table
  when there are rows, and when the backstop is asked. Which sequences follow
  which is a set of lemmas about sequences, stated for any plan.
  `TableProofs` supplies what the steps between the gates do to the table.

`ProjectionDataProofs`, about the same module:

* `TypesHold`: `Spec => []TypeOK`. `TypeOK` says of the keys of the ledger and of the
  overrides only that they are lines, and is not inductive: a directive comes from
  an answer, an answer from a flagged row, a row from a mapping file, a file from
  a manifest. `DataTyped` types all of them (`PlanTyped`, `RowsTyped`,
  `DecisionsTyped`, `Counted`). It needs lemmas about what the static mappers say of
  a batch, which lines the reviews and the triage flag, what the resolver keeps,
  and that the outcome of a half-done `apply_directives` is one of its outcomes.

`ReportProofs`, about what the end of the pipeline sees to:

* `ReportIsClamped`: `Spec => []ClampedAfterGate`, from `ToBeClamped`: while nothing
  has failed, behind every script that may still change a cost there is another
  `outlier_gate`, and the rows are clamped unless one is still to come. So the
  proof is about the plan and about one script. That the gate leaves no blow-up is
  lemma `GateClamps`: the gate looks at rows with a price only, so a mapped row without
  one must cost nothing, and clamping one row must change the cost of no other.
* `ToBePriced`, the same for `validate_fix.py` and the price of a mapped row, is the
  half of `MappedStaysPriced` about runs without a failure.

`LineProofs`, about single lines through the whole pipeline:

* `CreditsStayOut`: `Spec => []CreditsAddNothing`, from the inductive `CInv`, with
  `IInv` and `DataTyped`. A credit must stay silent (`Silent`: left out, and without a
  SKU) in every place from which a row can reach the table: the classification
  (`CreditsGrouped`), manifests and mapping files (`CreditsPlanned`), the ledger
  (`LedgerIgnores`), and the table (`CreditsSilent`). The exemption of lines an
  agent has answered about makes the order of the plan part of the invariant:
  the answers are replaced whenever an agent is asked again, and a line it no
  longer answers about would lose its exemption. `ToldOnce` and `PlanApart` say that no
  agent is asked twice. Each rewriting script has a lemma that it keeps a silent
  row silent.
* `MappedStaysPriced`: `Spec => []MappedRowsPriced`, from `ToBePriced` and
  `StillPriced`: unless `apply_rates.py` is still to come, every mapped row above five
  dollars has a price, lines a repair may map anew aside. Behind `apply_rates.py` rates
  are added and never taken away (`RatesKept`, `IncrementalRatesKept`), and without an
  answer of an agent the late scripts map no other row and change no SKU of a mapped
  one (`SameMapped`, `LateKeepsPrice`), or end with a look at every price. A failing
  `apply_rates.py` ends the run, so a report without rates need not be excused.

`ArmProofs`, about the instances on Arm:

* `ArmLinesStayArm`: `Spec => []ArmStaysArm`, from the inductive `ArmInv` with `IInv`,
  `DataTyped` and `CInv`. That the handlers choose among Arm families is the easy
  half (`ArmChosen`, `HandlerOnArm`, for any costs: an empty scope leaves the
  default, which is on Arm). The table is rewritten by a dozen scripts behind them,
  and one of them moves lines to other SKUs on purpose: `validate_fix.py` replaces
  a SKU without a rate in its region by the one sold there that shares most words
  with it, whatever machine that is. It finds nothing to replace on an Arm line, for
  a reason that spans three scripts: the handlers name a part only if its region
  sells it by the hour (`Good`, from the strict look-up); `apply_rates.py` fills in a
  rate for each of these (`Near`); and the repairs pass over what has a rate. So the
  invariant is about places and order: mapping files and table hold good parts or
  none (`ArmPlanned`, `ArmTable`), the rates have reached them or are still to come
  (`ArmReached`), repairs come behind the rates, and a recalculation has no repairs
  (`RepairsRated`). `repair_families` moves parts of broken-down lines only, which
  the handlers never make of an Arm instance (`OnGood`).
  `ArmGrouped` says that the group of a line is what its classification
  gives, so no agent's file holds it.

### What the proofs changed

Three properties were true on the checked instances and false in general; for the
first two TLC shows it with `MaxFaults = 2`.

* `MappedRowsPriced` said that without an edit of an agent every mapped row has a
  price *whatever* failed. A `validate_fix.py` that dies half-way may just have
  mapped a line anew (`_repair_illegal_passthrough`, `_repair_null_sku_names`),
  before the step that would have taken an unpriced row out again. The property now
  names these lines (`Repairable`).
* `CreditsAddNothing` left out the lines for which the agent of phase 2's retry inserted
  a row. The merge after the retry deletes such a row, unless it fails. The
  property now exempts them (`added`), and speaks of each row and not of their sum,
  in which a positive and a negative row could cancel.
* `ArmStaysArm` spoke of every line a static handler has mapped. Other handlers have
  components of the same names: a Glue line has a `ram` that is "Dataflow RAM", and
  a draft of the agent for any other group may call its part `core`. The property is
  about the five groups whose handlers rent a whole instance (`InstanceGroups`).

Sequences of lines became functions of their places (`Batch`, `HandlerResult`), and
two filters of the ledger one operator (`Without`), because no installed prover
can instantiate an operator that takes an operator.

### Model-checked only

* Liveness (`JobSettles`, `SentinelStopsRun`, `PipelineEnds`, `Terminates`) and the
  fairness part of `ImplementsAgent` are beyond the prover.
* `EnrolledOnce` counts the rows of a fee. In general it is false: a draft may name
  the fee's SKU for another line, a repair may move a line to it by the words they
  share, and a fee that the catalogue names without a rate ends up carried
  (TLC finds the last one when the rate is taken out of the catalogue). So it is a
  property of the drafts and catalogues of the instance, which hold the
  cases the code distinguishes: the fee sold in one region of the bill, or in none.

## 5. What is not modelled

* Uploads, quotas, shared bills, rate limiting: planned (below). In
  `JobLifecycle`, `Create` begins with the insert of the row.
* Ingestion: the bills of `MCProjection` are what it would leave in the catalogue
  table. `normalize` and currency conversions come before the model begins.
* The rendering of the report and the scripts of phase 6, which read the view.
  `render_report.py` is one outcome; a renderer that fails after it wrote a
  report is abstracted to one that fails.
* In the mappers: unit conversions, tier blending, shared-core machine types, the
  notes for people.
* In the pipeline: scripts that change no mapping (`render_notes.py`,
  `apply_architecture_notes.py`, `verify_golden_mappings.py`,
  `assert_pricing_matrix.py`, `ensure_catalog_coverage.py`), the reset of AWS names in
  `gcp_service`; phase 4's gate may find such a name or not (`MayLackService`).
* In the directive layer: ledgers of single users, the directives of a
  refinement, and all actions but strategies and costs of single lines.
* Modelled, but not reached by the bills of the run: Fargate lines, the triage
  queries C and I, and the repair of a spot rate that stands in for an on-demand
  one.
* Two background recalculations at once, and the read-modify-write races of
  `refresh_store.json`, `job_overrides.json` and `directives.json`.
* Prompts; what an agent writes that the scripts would refuse to parse.
* Object storage: a job directory restored on demand.
* Notifications, digests, analytics, progress and log facets: no influence on
  the state modelled.
* Authentication, and everything that only reads.

## 6. Plan

Done: the job machinery (`JobLifecycle`, `AgentProcess`, `Orchestrator`, the lock
part of `Recalculation`) and the projection pipeline with its directive layer,
with their proofs. Next, in this order:

1. `Admission`: `checkUserQuota` against the insert of the row, chunked uploads
   (`UploadChunk`, `CompleteChunkedUpload`), shared bills and their deletion.
   Abstract specification: a bill is either absent or complete. Properties: how
   far concurrent submissions can exceed the quota, a job's input is the whole
   bill, a repeated completion creates no second job from half of the parts.
2. `CatalogRefresh`: status file, staleness, trigger and timer, restart;
   together with the read-modify-write stores (`promoteFindingToRefreshStore`,
   overrides, directives) and two background recalculations at once.
3. `Scans`: pure algorithms against reference definitions over bounded inputs:
   the quota scan of the log, the token bucket of the rate limiter, progress.
