---------------------------- MODULE Orchestrator ----------------------------
(***************************************************************************)
(* run_all.py from the inside: the phase pipeline of one job, the          *)
(* checkpoint it resumes from and the files it leaves behind, across every *)
(* process that ever runs it (the first spawn, automatic restarts, retries *)
(* and re-runs by the user).  Who spawns and stops it, and when two of     *)
(* them run at once, is the matter of JobLifecycle.                        *)
(*                                                                         *)
(* Scripts, agy calls and SQL gates are their outcomes: a script exits 0   *)
(* or not, an agy call leaves a quota marker in the log or not, a gate     *)
(* passes, reports violations, or cannot be evaluated (then the run goes   *)
(* on as if it had passed).  An operator named Mutant... is a plausible    *)
(* bug of the definition that follows it.                                  *)
(***************************************************************************)
EXTENDS Naturals

CONSTANTS
    LastPhase,    \* TOTAL_PHASES
    Critical,     \* CRITICAL_PHASES
    Scripted,     \* phases that run a script in place of agy
    Fallback,     \* ... of these, the ones with an on_failure_prompt
    HardPre,      \* phases with a pre_llm_script that may not fail
    Gated,        \* phases with a check_sql
    Enforced,     \* phases whose gate is meant to block the job
    MaxSpawns     \* bound: processes in a behaviour

Phases == 1 .. LastPhase

ASSUME PhasesAssumption ==
    /\ LastPhase \in Nat \ {0}
    /\ MaxSpawns \in Nat
    /\ LastPhase \in Scripted
    /\ Critical \subseteq Phases \ {LastPhase}
    /\ Fallback \subseteq Critical   \* only Ingestion has an OnFailurePrompt
    /\ \A S \in {Scripted, Fallback, HardPre, Gated, Enforced} :
        S \subseteq Phases

VARIABLES
    alive, spawns,      \* is there a process, and the number of them so far
    start,              \* its START_PHASE
    phase, step,        \* where it is in the loop over PHASES
    outcome,            \* the status its checkpoint is about to record
    last, mark,         \* phase_checkpoint.json: last_completed, phases
    failure, report, signal,
    through,            \* history: phases whose results are in the DuckDB file
    violated            \* history: phases whose gate reported violations last

progressVars == <<phase, step, outcome>>
ckptVars     == <<last, mark>>
fileVars     == <<failure, report, signal>>
historyVars  == <<through, violated>>
vars == <<alive, spawns, start, progressVars, ckptVars, fileVars, historyVars>>

Marks == {"none", "ok", "warning", "skipped"}
Steps == {"off", "boundary", "pre", "work", "fallback", "early", "post", "gate",
          "retry", "regate", "checkpoint"}
InPhase == Steps \ {"off", "boundary"}

NoMarks == [p \in Phases |-> "none"]

At(s) == alive /\ step = s

Goto(s) == step' = s /\ UNCHANGED <<alive, phase>>

\* sys.exit, SIGKILL, or the end of the loop.
Stop == alive' = FALSE /\ step' = "off" /\ UNCHANGED phase

\* failure.txt is written, then sys.exit.
Fail == failure' = TRUE /\ Stop

NextPhase ==
    /\ phase' = phase + 1
    /\ step' = "boundary"
    /\ UNCHANGED alive

\* The phase ends with a checkpoint of the given status.
Settle(s) == outcome' = s /\ Goto("checkpoint")

-----------------------------------------------------------------------------
(* Spawning.  run_all.py resumes after the phase the checkpoint names.     *)

Resume ==
    /\ ~alive
    /\ spawns < MaxSpawns
    /\ alive' = TRUE
    /\ spawns' = spawns + 1
    /\ phase' = 1
    /\ step' = "boundary"
    /\ UNCHANGED <<outcome, report, signal>>

\* Create, and the automatic restart of finalize: no signal, no report, no
\* failure.txt.
Spawn ==
    /\ ~signal /\ ~report /\ ~failure
    /\ Resume
    /\ start' = last + 1
    /\ UNCHANGED <<ckptVars, failure, historyVars>>

\* Retry: of a failed job; failure.txt is removed.  A report is there if it was
\* a refinement or a re-run that failed.  (Its reset of the checkpoint looks for
\* `"phase": 1`, which the file never holds.)
Retry ==
    /\ spawns > 0
    /\ Resume
    /\ failure' = FALSE
    /\ start' = last + 1
    /\ UNCHANGED <<ckptVars, historyVars>>

\* RerunJobAssumptions: the checkpoint goes too, and all results with it; the
\* old report stays.
Rerun ==
    /\ spawns > 0
    /\ Resume
    /\ failure' = FALSE
    /\ start' = 1
    /\ last' = 0
    /\ mark' = NoMarks
    /\ through' = {}
    /\ violated' = {}

-----------------------------------------------------------------------------
(* run_phase, in the order of the code.                                    *)

MutantBoundaryOffByOne ==
    /\ At("boundary")
    /\ IF phase > LastPhase + 1 \/ signal
       THEN Stop /\ UNCHANGED through
       ELSE IF phase < start
       THEN NextPhase /\ UNCHANGED through
       ELSE Goto("pre") /\ through' = through \cap 1 .. (phase - 1)
    /\ UNCHANGED <<spawns, start, outcome, ckptVars, fileVars, violated>>

MutantBoundary ==
    /\ At("boundary")
    /\ IF phase > LastPhase
       THEN Stop /\ UNCHANGED through
       ELSE IF phase < start
       THEN NextPhase /\ UNCHANGED through
       ELSE Goto("pre") /\ through' = through \cap 1 .. (phase - 1)
    /\ UNCHANGED <<spawns, start, outcome, ckptVars, fileVars, violated>>

\* A cancel signal ends the run, also before a phase that would be skipped.
\* A phase that starts overwrites what it, and the phases after it, did before.
Boundary ==
    /\ At("boundary")
    /\ IF phase > LastPhase \/ signal
       THEN Stop /\ UNCHANGED through
       ELSE IF phase < start
       THEN NextPhase /\ UNCHANGED through
       ELSE Goto("pre") /\ through' = through \cap 1 .. (phase - 1)
    /\ UNCHANGED <<spawns, start, outcome, ckptVars, fileVars, violated>>

\* run_script: a soft ('?') script may fail, any other one ends the run.
PreScripts ==
    /\ At("pre")
    /\ \/ Goto("work") /\ UNCHANGED failure
       \/ phase \in HardPre /\ Fail
    /\ UNCHANGED <<spawns, start, outcome, ckptVars, report, signal, historyVars>>

\* agy runs the prompt (whatever it returns), or the script succeeds.  The
\* script of the last phase is render_report.py.
Work ==
    /\ At("work")
    /\ Goto("early")
    /\ report' = (report \/ phase = LastPhase)
    /\ UNCHANGED <<spawns, start, outcome, ckptVars, failure, signal, historyVars>>

\* The script fails.  ingest.py has then as a rule written failure.txt itself.
WorkFails ==
    /\ At("work")
    /\ phase \in Scripted
    /\ IF phase \in Fallback
       THEN failure' \in {failure, TRUE} /\ Goto("fallback")
       ELSE Fail
    /\ UNCHANGED <<spawns, start, outcome, ckptVars, report, signal, historyVars>>

\* agy normalises the input and the script is retried, exactly once.
FallbackRetry ==
    /\ At("fallback")
    /\ \/ Goto("early") /\ UNCHANGED failure
       \/ Fail
    /\ UNCHANGED <<spawns, start, outcome, ckptVars, report, signal, historyVars>>

MutantQuotaWall(s) == Settle(s) /\ UNCHANGED failure

\* A quota or auth wall: the end of the run, or of a non-critical phase.
QuotaWall(s) ==
    IF phase \in Critical
    THEN Fail /\ UNCHANGED outcome
    ELSE Settle(s) /\ UNCHANGED failure

EarlyQuotaCheck ==
    /\ At("early")
    /\ \/ Goto("post") /\ UNCHANGED <<outcome, failure>>
       \/ QuotaWall("skipped")
    /\ UNCHANGED <<spawns, start, ckptVars, report, signal, historyVars>>

MutantPostScripts ==
    /\ At("post")
    /\ \/ QuotaWall("warning")
       \/ Goto("gate") /\ UNCHANGED <<outcome, failure>>
    /\ UNCHANGED <<spawns, start, ckptVars, report, signal, historyVars>>

\* The post-LLM scripts are all soft; then failed_structurally and the quota.
PostScripts ==
    /\ At("post")
    /\ IF failure
       THEN Stop /\ UNCHANGED <<outcome, failure>>
       ELSE \/ QuotaWall("warning")
            \/ Goto("gate") /\ UNCHANGED <<outcome, failure>>
    /\ UNCHANGED <<spawns, start, ckptVars, report, signal, historyVars>>

\* No gate, a gate that passes, or one that cannot be evaluated.
GatePasses ==
    /\ At("gate")
    /\ Settle("ok")
    /\ violated' = violated \ {phase}
    /\ UNCHANGED <<spawns, start, ckptVars, fileVars, through>>

GateViolated ==
    /\ At("gate")
    /\ phase \in Gated
    /\ Goto("retry")
    /\ violated' = violated \cup {phase}
    /\ UNCHANGED <<spawns, start, outcome, ckptVars, fileVars, through>>

\* agy gets the violations; quota first, then the post-LLM scripts again.
TargetedRetry ==
    /\ At("retry")
    /\ \/ Goto("regate") /\ UNCHANGED <<outcome, failure>>
       \/ QuotaWall("warning")
    /\ UNCHANGED <<spawns, start, ckptVars, report, signal, historyVars>>

\* The second verdict, with the backstop before it where there is one.
RegatePasses ==
    /\ At("regate")
    /\ Settle("ok")
    /\ violated' = violated \ {phase}
    /\ UNCHANGED <<spawns, start, ckptVars, fileVars, through>>

MutantRegateRetries ==
    /\ At("regate")
    /\ Goto("retry")
    /\ UNCHANGED <<spawns, start, outcome, ckptVars, fileVars, historyVars>>

MutantRegateViolated ==
    /\ At("regate")
    /\ Settle("warning")
    /\ UNCHANGED <<spawns, start, ckptVars, fileVars, historyVars>>

\* Still violated: fatal in a critical phase, a warning elsewhere.
RegateViolated ==
    /\ At("regate")
    /\ QuotaWall("warning")
    /\ UNCHANGED <<spawns, start, ckptVars, report, signal, historyVars>>

\* write_phase_checkpoint
WriteCheckpoint ==
    /\ At("checkpoint")
    /\ last' = phase
    /\ mark' = [mark EXCEPT ![phase] = outcome]
    /\ through' = IF outcome = "skipped" THEN through ELSE through \cup {phase}
    /\ NextPhase
    /\ UNCHANGED <<spawns, start, outcome, fileVars, violated>>

\* A phase raises something else than SystemExit: the driver loop goes on with
\* the next phase, without a checkpoint, unless the phase is critical.
PhaseCrashes ==
    /\ alive
    /\ step \in InPhase
    /\ IF phase \in Critical THEN Fail ELSE NextPhase /\ UNCHANGED failure
    /\ UNCHANGED <<spawns, start, outcome, ckptVars, report, signal, historyVars>>

-----------------------------------------------------------------------------
(* The environment: kills and signals.                                     *)

Killed ==
    /\ alive
    /\ Stop
    /\ UNCHANGED <<spawns, start, outcome, ckptVars, fileVars, historyVars>>

\* Killed between the truncation of phase_checkpoint.json and its new content:
\* the file no longer parses, and counts as absent.
KilledInCheckpoint ==
    /\ At("checkpoint")
    /\ Stop
    /\ last' = 0
    /\ mark' = NoMarks
    /\ UNCHANGED <<spawns, start, outcome, fileVars, historyVars>>

\* Somebody cancels, or raises or lifts STOP_ALL.
ToggleSignal ==
    /\ signal' = ~signal
    /\ UNCHANGED <<alive, spawns, start, progressVars, ckptVars, failure, report,
                   historyVars>>

-----------------------------------------------------------------------------
Init ==
    /\ alive = FALSE
    /\ spawns = 0
    /\ start = 1
    /\ phase = 1
    /\ step = "off"
    /\ outcome = "ok"
    /\ last = 0
    /\ mark = NoMarks
    /\ failure = FALSE /\ report = FALSE /\ signal = FALSE
    /\ through = {}
    /\ violated = {}

PhaseStep ==
    \/ Boundary \/ PreScripts \/ Work \/ WorkFails \/ FallbackRetry
    \/ EarlyQuotaCheck \/ PostScripts \/ GatePasses \/ GateViolated
    \/ TargetedRetry \/ RegatePasses \/ RegateViolated \/ WriteCheckpoint
    \/ PhaseCrashes

Next ==
    \/ Spawn \/ Retry \/ Rerun
    \/ PhaseStep
    \/ Killed \/ KilledInCheckpoint \/ ToggleSignal

Spec == Init /\ [][Next]_vars

\* A script ends and agy is stopped by --print-timeout.
FairSpec == Spec /\ WF_vars(PhaseStep)

-----------------------------------------------------------------------------
TypeOK ==
    /\ alive \in BOOLEAN /\ failure \in BOOLEAN /\ report \in BOOLEAN
    /\ signal \in BOOLEAN
    /\ spawns \in 0 .. MaxSpawns
    /\ start \in 1 .. LastPhase + 1
    /\ phase \in 1 .. LastPhase + 1
    /\ step \in Steps
    /\ alive <=> step # "off"
    /\ step \in InPhase => phase \in Phases
    /\ outcome \in Marks \ {"none"}
    /\ last \in 0 .. LastPhase
    /\ mark \in [Phases -> Marks]
    /\ through \subseteq Phases
    /\ violated \subseteq Gated

\* A resume never skips a critical phase whose results are not there: whatever
\* kills, torn checkpoints, retries and re-runs came before, a critical phase
\* at or below last_completed has left its results in the database, and so has
\* each one that the running process is past.
CheckpointSound ==
    \A c \in Critical :
        c <= last \/ (alive /\ c < phase) => c \in through

\* A report is rendered only from a database that was ingested and mapped, with
\* neither gate's last verdict reporting violations.  (A gate that cannot be
\* evaluated reports none: the code goes on by design.)
ReportIsFounded ==
    [][At("work") /\ phase = LastPhase /\ step' = "early" =>
        Critical \subseteq through \ violated]_vars

\* While failure.txt is there nothing moves forward: no checkpoint is written
\* and no report is rendered until a retry or a re-run has removed the file.
FailureStops ==
    [][failure /\ failure' => last' \in {last, 0} /\ report' = report]_vars

\* Every process ends, with no loop between gates, retries and phases.
PipelineEnds == alive ~> ~alive

\* The pipeline is one of the agent processes the server expects: it starts no
\* phase once told to stop, and moves on under the same fairness.
Agent == INSTANCE AgentProcess WITH
    proc <- IF ~alive THEN "dead"
            ELSE IF step = "boundary" THEN "boundary" ELSE "working"

ImplementsAgent == Agent!Spec

-----------------------------------------------------------------------------
(* What comments say, and the code does not keep.                          *)

\* orchestrate.go:52-53 "Script is retried exactly once.  Only if that retry
\* also fails does the phase hard-fail as usual": past the retry, nothing that
\* ends the run as a structural failure may be left over.
FallbackRecovers ==
    phase \in Fallback /\ step \in {"early", "post"} => ~failure

\* orchestrate.go:443 "Folding both checks into this enforced CheckSQL is what
\* actually blocks the job on them, instead of only logging a violation nobody
\* reads".
EnforcedGateBlocks ==
    [][At("work") /\ phase = LastPhase /\ step' = "early" =>
        Enforced \cap violated = {}]_vars
=============================================================================
