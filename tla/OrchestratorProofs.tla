------------------------- MODULE OrchestratorProofs -------------------------
(***************************************************************************)
(* Proofs about Orchestrator, for any number of phases, whichever of them  *)
(* are critical, scripted or gated, and any number of processes.           *)
(***************************************************************************)
EXTENDS Orchestrator, TLAPS

USE DEF Phases

-----------------------------------------------------------------------------
(* Type correctness.                                                       *)

LEMMA Bounds == LastPhase \in Nat /\ 1 <= LastPhase /\ MaxSpawns \in Nat
BY PhasesAssumption DEF PhasesAssumption

LEMMA NoMarksType == NoMarks \in [Phases -> Marks]
BY DEF NoMarks, Marks

\* TypeOK in two parts, the Boolean variables and the others.
FlagsOK ==
    /\ alive \in BOOLEAN /\ failure \in BOOLEAN /\ report \in BOOLEAN
    /\ signal \in BOOLEAN
    /\ alive <=> step # "off"

RangesOK ==
    /\ spawns \in 0 .. MaxSpawns
    /\ start \in 1 .. LastPhase + 1
    /\ phase \in 1 .. LastPhase + 1
    /\ step \in Steps
    /\ step \in InPhase => phase \in Phases
    /\ outcome \in Marks \ {"none"}
    /\ last \in 0 .. LastPhase
    /\ mark \in [Phases -> Marks]
    /\ through \subseteq Phases
    /\ violated \subseteq Gated

LEMMA TypeOKParts == /\ TypeOK <=> FlagsOK /\ RangesOK
                     /\ TypeOK' <=> FlagsOK' /\ RangesOK'
BY DEF TypeOK, FlagsOK, RangesOK

LEMMA TypeInit == Init => TypeOK
<1> SUFFICES ASSUME Init PROVE TypeOK
  OBVIOUS
<1>1. FlagsOK
  BY DEF Init, FlagsOK
<1>2. RangesOK
  BY Bounds, NoMarksType DEF Init, RangesOK, Marks, Steps, InPhase
<1>3. QED
  BY <1>1, <1>2, TypeOKParts

LEMMA TypeSpawns ==
    ASSUME TypeOK, Spawn \/ Retry \/ Rerun
    PROVE  TypeOK'
<1> USE Bounds, NoMarksType
    DEF TypeOK, Resume, Steps, InPhase, Marks,
        ckptVars, historyVars
<1>1. CASE Spawn
  BY <1>1 DEF Spawn
<1>2. CASE Retry
  <2>1. FlagsOK'
    BY <1>2 DEF Retry, FlagsOK
  <2>2. RangesOK'
    BY <1>2 DEF Retry, RangesOK
  <2>3. QED
    BY <2>1, <2>2, TypeOKParts
<1>3. CASE Rerun
  <2>1. FlagsOK'
    BY <1>3 DEF Rerun, FlagsOK
  <2>2. RangesOK'
    BY <1>3 DEF Rerun, RangesOK
  <2>3. QED
    BY <2>1, <2>2, TypeOKParts
<1>4. QED
  BY <1>1, <1>2, <1>3

LEMMA TypePhaseStep ==
    ASSUME TypeOK, PhaseStep
    PROVE  TypeOK'
<1> USE Bounds
    DEF TypeOK, At, Goto, Stop, Fail, NextPhase, Settle,
        QuotaWall, Steps, InPhase, Marks, ckptVars, fileVars, historyVars
<1>1. CASE Boundary
  <2>1. CASE phase > LastPhase \/ signal
    BY <1>1, <2>1 DEF Boundary
  <2>2. CASE ~(phase > LastPhase \/ signal) /\ phase < start
    <3>1. FlagsOK'
      BY <1>1, <2>2 DEF Boundary, FlagsOK
    <3>2. phase' \in 1 .. LastPhase + 1 /\ step' = "boundary"
      BY <1>1, <2>2 DEF Boundary
    <3>3. RangesOK'
      BY <1>1, <2>2, <3>2 DEF Boundary, RangesOK
    <3>4. QED
      BY <3>1, <3>3, TypeOKParts
  <2>3. CASE ~(phase > LastPhase \/ signal) /\ ~(phase < start)
    BY <1>1, <2>3 DEF Boundary
  <2>4. QED
    BY <2>1, <2>2, <2>3
<1>2. CASE PreScripts
  BY <1>2 DEF PreScripts
<1>3. CASE Work
  BY <1>3 DEF Work
<1>4. CASE WorkFails
  BY <1>4 DEF WorkFails
<1>5. CASE FallbackRetry
  BY <1>5 DEF FallbackRetry
<1>6. CASE EarlyQuotaCheck
  BY <1>6 DEF EarlyQuotaCheck
<1>7. CASE PostScripts
  BY <1>7 DEF PostScripts
<1>8. CASE GatePasses
  BY <1>8 DEF GatePasses
<1>9. CASE GateViolated
  BY <1>9 DEF GateViolated
<1>10. CASE TargetedRetry
  BY <1>10 DEF TargetedRetry
<1>11. CASE RegatePasses
  BY <1>11 DEF RegatePasses
<1>12. CASE RegateViolated
  BY <1>12 DEF RegateViolated
<1>13. CASE WriteCheckpoint
  BY <1>13 DEF WriteCheckpoint
<1>14. CASE PhaseCrashes
  <2>1. step \in InPhase /\ alive /\ phase \in Phases
    BY <1>14 DEF PhaseCrashes
  <2>2. CASE phase \in Critical
    BY <1>14, <2>2 DEF PhaseCrashes
  <2>3. CASE phase \notin Critical
    BY <1>14, <2>1, <2>3 DEF PhaseCrashes
  <2>4. QED
    BY <2>2, <2>3
<1>15. QED
  BY <1>1, <1>2, <1>3, <1>4, <1>5, <1>6, <1>7, <1>8, <1>9, <1>10, <1>11, <1>12,
     <1>13, <1>14 DEF PhaseStep

LEMMA TypeEnvironment ==
    ASSUME TypeOK, Killed \/ KilledInCheckpoint \/ ToggleSignal
    PROVE  TypeOK'
<1> USE Bounds, NoMarksType
    DEF TypeOK, At, Stop, Steps, InPhase, Marks,
        progressVars, ckptVars, fileVars, historyVars
<1>1. CASE Killed
  BY <1>1 DEF Killed
<1>2. CASE KilledInCheckpoint
  <2>1. FlagsOK'
    BY <1>2 DEF KilledInCheckpoint, FlagsOK
  <2>2. RangesOK'
    BY <1>2 DEF KilledInCheckpoint, RangesOK
  <2>3. QED
    BY <2>1, <2>2, TypeOKParts
<1>3. CASE ToggleSignal
  BY <1>3 DEF ToggleSignal
<1>4. QED
  BY <1>1, <1>2, <1>3

LEMMA TypeNext == TypeOK /\ [Next]_vars => TypeOK'
<1> SUFFICES ASSUME TypeOK, [Next]_vars PROVE TypeOK'
  OBVIOUS
<1>1. CASE UNCHANGED vars
  BY <1>1 DEF TypeOK, vars, progressVars, ckptVars, fileVars, historyVars
<1>2. QED
  BY <1>1, TypeSpawns, TypePhaseStep, TypeEnvironment DEF Next

\* The process, its place in the loop and its checkpoint stay in range: the
\* loop never runs past the phases, and only a gated phase is ever violated.
THEOREM TypeCorrect == Spec => []TypeOK
BY TypeInit, TypeNext, PTL DEF Spec

-----------------------------------------------------------------------------
(* A resume is sound.  CheckpointSound alone is not inductive: it has to   *)
(* know that a phase which runs lies after the checkpoint (or it would     *)
(* discard results the checkpoint vouches for), that the phases the        *)
(* process skips are the ones the checkpoint names, and that a critical    *)
(* phase reaches its checkpoint only with a passing gate.                  *)

Live == step # "off"

Founded == \A c \in Critical :
    c <= last \/ (Live /\ c < phase) => c \in through \ violated

Placed ==
    /\ Live /\ phase < start => start = last + 1
    /\ Live /\ start <= phase => last < phase
    /\ step \in InPhase => start <= phase

Passed == step = "checkpoint" /\ phase \in Critical =>
    outcome = "ok" /\ phase \notin violated

Sound == Founded /\ Placed /\ Passed

LEMMA Criticals == \A c \in Critical : c \in Nat /\ 1 <= c /\ c < LastPhase
BY PhasesAssumption DEF PhasesAssumption

LEMMA SoundSpawns ==
    ASSUME TypeOK, Sound, Spawn \/ Retry \/ Rerun
    PROVE  Sound'
<1> USE Bounds, Criticals
    DEF TypeOK, Sound, Founded, Placed, Passed, Live, Resume, Steps, InPhase,
        ckptVars, historyVars
<1>1. CASE Spawn
  BY <1>1 DEF Spawn
<1>2. CASE Retry
  BY <1>2 DEF Retry
<1>3. CASE Rerun
  BY <1>3 DEF Rerun
<1>4. QED
  BY <1>1, <1>2, <1>3

LEMMA SoundPhaseStep ==
    ASSUME TypeOK, Sound, PhaseStep
    PROVE  Sound'
<1> USE Bounds, Criticals
    DEF TypeOK, Sound, Founded, Placed, Passed, Live, At, Goto, Stop, Fail,
        NextPhase, Settle, QuotaWall, Steps, InPhase, ckptVars, fileVars,
        historyVars
<1>1. CASE Boundary
  <2>1. CASE phase > LastPhase \/ signal
    BY <1>1, <2>1 DEF Boundary
  <2>2. CASE ~(phase > LastPhase \/ signal) /\ phase < start
    BY <1>1, <2>2 DEF Boundary
  <2>3. CASE ~(phase > LastPhase \/ signal) /\ ~(phase < start)
    BY <1>1, <2>3 DEF Boundary
  <2>4. QED
    BY <2>1, <2>2, <2>3
<1>2. CASE PreScripts
  BY <1>2 DEF PreScripts
<1>3. CASE Work
  BY <1>3 DEF Work
<1>4. CASE WorkFails
  BY <1>4 DEF WorkFails
<1>5. CASE FallbackRetry
  BY <1>5 DEF FallbackRetry
<1>6. CASE EarlyQuotaCheck
  BY <1>6 DEF EarlyQuotaCheck
<1>7. CASE PostScripts
  BY <1>7 DEF PostScripts
<1>8. CASE GatePasses
  BY <1>8 DEF GatePasses
<1>9. CASE GateViolated
  BY <1>9 DEF GateViolated
<1>10. CASE TargetedRetry
  BY <1>10 DEF TargetedRetry
<1>11. CASE RegatePasses
  BY <1>11 DEF RegatePasses
<1>12. CASE RegateViolated
  BY <1>12 DEF RegateViolated
<1>13. CASE WriteCheckpoint
  BY <1>13 DEF WriteCheckpoint
<1>14. CASE PhaseCrashes
  <2>1. CASE phase \in Critical
    BY <1>14, <2>1 DEF PhaseCrashes
  <2>2. CASE phase \notin Critical
    BY <1>14, <2>2 DEF PhaseCrashes
  <2>3. QED
    BY <2>1, <2>2
<1>15. QED
  BY <1>1, <1>2, <1>3, <1>4, <1>5, <1>6, <1>7, <1>8, <1>9, <1>10, <1>11, <1>12,
     <1>13, <1>14 DEF PhaseStep

LEMMA SoundEnvironment ==
    ASSUME TypeOK, Sound, Killed \/ KilledInCheckpoint \/ ToggleSignal
    PROVE  Sound'
<1> USE Bounds, Criticals
    DEF TypeOK, Sound, Founded, Placed, Passed, Live, At, Stop, Steps, InPhase,
        progressVars, ckptVars, fileVars, historyVars
<1>1. CASE Killed
  BY <1>1 DEF Killed
<1>2. CASE KilledInCheckpoint
  BY <1>2 DEF KilledInCheckpoint
<1>3. CASE ToggleSignal
  BY <1>3 DEF ToggleSignal
<1>4. QED
  BY <1>1, <1>2, <1>3

LEMMA SoundNext == TypeOK /\ Sound /\ [Next]_vars => Sound'
<1> SUFFICES ASSUME TypeOK, Sound, [Next]_vars PROVE Sound'
  OBVIOUS
<1>1. CASE UNCHANGED vars
  BY <1>1 DEF Sound, Founded, Placed, Passed, Live, vars, progressVars,
              ckptVars, historyVars
<1>2. QED
  BY <1>1, SoundSpawns, SoundPhaseStep, SoundEnvironment DEF Next

LEMMA SoundInit == Init => Sound
BY Bounds, Criticals
   DEF Init, Sound, Founded, Placed, Passed, Live, InPhase

\* Whatever kills, torn checkpoints, retries and re-runs came before, a resume
\* never steps over a critical phase whose results are not in the database.
THEOREM ResumeIsSound == Spec => []CheckpointSound
<1>1. TypeOK /\ Sound => CheckpointSound
  BY DEF TypeOK, Sound, Founded, Live, CheckpointSound
<1>2. QED
  BY <1>1, TypeInit, TypeNext, SoundInit, SoundNext, PTL DEF Spec

\* A report is rendered only after every critical phase has left its results,
\* the last verdict of its gate being none that reports violations.
THEOREM ReportHolds == Spec => ReportIsFounded
<1>1. ASSUME TypeOK, Sound, [Next]_vars
      PROVE  [At("work") /\ phase = LastPhase /\ step' = "early" =>
                Critical \subseteq through \ violated]_vars
  BY <1>1, Criticals DEF TypeOK, Sound, Founded, Live, At
<1>2. QED
  BY <1>1, TypeInit, TypeNext, SoundInit, SoundNext, PTL DEF Spec, ReportIsFounded

-----------------------------------------------------------------------------
(* failure.txt stops progress.  While the file is there, a process can only *)
(* be on its way from a failed ingest attempt to failed_structurally, in a  *)
(* phase whose quota walls are fatal too.                                   *)

Halting ==
    failure /\ Live => step \in {"fallback", "early", "post"} /\ phase \in Critical

LEMMA HaltingInit == Init => Halting
BY DEF Init, Halting, Live

LEMMA HaltingPhaseStep ==
    ASSUME TypeOK, Halting, PhaseStep
    PROVE  Halting'
<1> USE DEF TypeOK, Halting, Live, At, Goto, Stop, Fail, NextPhase, Settle,
            QuotaWall, InPhase, fileVars
<1>1. CASE Boundary
  BY <1>1 DEF Boundary
<1>2. CASE PreScripts
  BY <1>2 DEF PreScripts
<1>3. CASE Work
  BY <1>3 DEF Work
<1>4. CASE WorkFails
  BY <1>4, PhasesAssumption DEF WorkFails, PhasesAssumption
<1>5. CASE FallbackRetry
  BY <1>5 DEF FallbackRetry
<1>6. CASE EarlyQuotaCheck
  BY <1>6 DEF EarlyQuotaCheck
<1>7. CASE PostScripts
  BY <1>7 DEF PostScripts
<1>8. CASE GatePasses
  BY <1>8 DEF GatePasses
<1>9. CASE GateViolated
  BY <1>9 DEF GateViolated
<1>10. CASE TargetedRetry
  BY <1>10 DEF TargetedRetry
<1>11. CASE RegatePasses
  BY <1>11 DEF RegatePasses
<1>12. CASE RegateViolated
  BY <1>12 DEF RegateViolated
<1>13. CASE WriteCheckpoint
  BY <1>13 DEF WriteCheckpoint
<1>14. CASE PhaseCrashes
  BY <1>14 DEF PhaseCrashes
<1>15. QED
  BY <1>1, <1>2, <1>3, <1>4, <1>5, <1>6, <1>7, <1>8, <1>9, <1>10, <1>11, <1>12,
     <1>13, <1>14 DEF PhaseStep

LEMMA HaltingNext == TypeOK /\ Halting /\ [Next]_vars => Halting'
<1> SUFFICES ASSUME TypeOK, Halting, [Next]_vars PROVE Halting'
  OBVIOUS
<1> USE DEF Halting, Live
<1>1. CASE Spawn \/ Retry \/ Rerun
  BY <1>1 DEF Spawn, Retry, Rerun, Resume
<1>2. CASE PhaseStep
  BY <1>2, HaltingPhaseStep
<1>3. CASE Killed \/ KilledInCheckpoint
  BY <1>3 DEF Killed, KilledInCheckpoint, Stop
<1>4. CASE ToggleSignal
  BY <1>4 DEF ToggleSignal, progressVars
<1>5. CASE UNCHANGED vars
  BY <1>5 DEF vars, progressVars, fileVars
<1>6. QED
  BY <1>1, <1>2, <1>3, <1>4, <1>5 DEF Next

\* No checkpoint is written and no report rendered while failure.txt is there.
LEMMA HaltedStep ==
    ASSUME TypeOK, Halting, Next, failure, failure'
    PROVE  last' \in {last, 0} /\ report' = report
<1> USE DEF Halting, Live, At, ckptVars, fileVars
<1>1. CASE Spawn \/ Retry \/ Rerun
  BY <1>1 DEF Spawn, Retry, Rerun, Resume
<1>2. CASE PhaseStep
  <2>1. ~Work /\ ~WriteCheckpoint
    BY DEF Work, WriteCheckpoint
  <2>2. QED
    BY <1>2, <2>1
       DEF PhaseStep, Boundary, PreScripts, WorkFails, FallbackRetry,
           EarlyQuotaCheck, PostScripts, GatePasses, GateViolated,
           TargetedRetry, RegatePasses, RegateViolated, PhaseCrashes
<1>3. CASE Killed \/ KilledInCheckpoint
  BY <1>3 DEF Killed, KilledInCheckpoint
<1>4. CASE ToggleSignal
  BY <1>4 DEF ToggleSignal
<1>5. QED
  BY <1>1, <1>2, <1>3, <1>4 DEF Next

\* From the moment failure.txt is written until a retry or a re-run removes it,
\* no process records a phase or renders a report.
THEOREM FailureHolds == Spec => FailureStops
<1>1. TypeOK /\ Halting /\ [Next]_vars =>
        [failure /\ failure' => last' \in {last, 0} /\ report' = report]_vars
  BY HaltedStep
<1>2. QED
  BY <1>1, TypeInit, TypeNext, HaltingInit, HaltingNext, PTL
     DEF Spec, FailureStops

-----------------------------------------------------------------------------
(* Every step of the pipeline is a step of the agent process the server    *)
(* expects, or none that it can see.                                       *)

LEMMA AgentInit == Init => Agent!Init
BY DEF Init, Agent!Init

LEMMA AgentPhaseStep ==
    ASSUME TypeOK, PhaseStep
    PROVE  Agent!Next \/ UNCHANGED Agent!vars
<1> USE DEF TypeOK, At, Goto, Stop, Fail, NextPhase, Settle, QuotaWall, InPhase,
            Steps, fileVars, Agent!Next, Agent!Advance, Agent!StartPhase,
            Agent!EndPhase, Agent!Exit, Agent!Render, Agent!NoteFailure,
            Agent!vars
<1>1. CASE Boundary
  BY <1>1 DEF Boundary
<1>2. CASE PreScripts
  BY <1>2 DEF PreScripts
<1>3. CASE Work
  BY <1>3 DEF Work
<1>4. CASE WorkFails
  BY <1>4 DEF WorkFails
<1>5. CASE FallbackRetry
  BY <1>5 DEF FallbackRetry
<1>6. CASE EarlyQuotaCheck
  BY <1>6 DEF EarlyQuotaCheck
<1>7. CASE PostScripts
  BY <1>7 DEF PostScripts
<1>8. CASE GatePasses \/ GateViolated \/ RegatePasses
  BY <1>8 DEF GatePasses, GateViolated, RegatePasses
<1>9. CASE TargetedRetry
  BY <1>9 DEF TargetedRetry
<1>10. CASE RegateViolated
  BY <1>10 DEF RegateViolated
<1>11. CASE WriteCheckpoint
  BY <1>11 DEF WriteCheckpoint
<1>12. CASE PhaseCrashes
  BY <1>12 DEF PhaseCrashes
<1>13. QED
  BY <1>1, <1>2, <1>3, <1>4, <1>5, <1>6, <1>7, <1>8, <1>9, <1>10, <1>11, <1>12
     DEF PhaseStep

LEMMA AgentNext == TypeOK /\ [Next]_vars => [Agent!Next]_(Agent!vars)
<1> SUFFICES ASSUME TypeOK, [Next]_vars PROVE Agent!Next \/ UNCHANGED Agent!vars
  OBVIOUS
<1>1. CASE Spawn \/ Retry \/ Rerun
  BY <1>1 DEF TypeOK, Spawn, Retry, Rerun, Resume, Agent!Next, Agent!Spawn
<1>2. CASE PhaseStep
  BY <1>2, AgentPhaseStep
<1>3. CASE Killed \/ KilledInCheckpoint
  BY <1>3 DEF TypeOK, Killed, KilledInCheckpoint, Stop, At, fileVars, Agent!Next,
              Agent!Advance, Agent!Exit
<1>4. CASE ToggleSignal
  BY <1>4 DEF ToggleSignal, progressVars, Agent!Next, Agent!Signal
<1>5. CASE UNCHANGED vars
  BY <1>5 DEF vars, progressVars, fileVars, Agent!vars
<1>6. QED
  BY <1>1, <1>2, <1>3, <1>4, <1>5 DEF Next

\* The pipeline implements the safety part of AgentProcess, on which the model
\* of the server is built: it starts no phase once it is told to stop, and
\* speaks only through the report and failure.txt.
THEOREM PipelineIsAgent == Spec => Agent!Safety
BY AgentInit, AgentNext, TypeInit, TypeNext, PTL DEF Spec, Agent!Safety
=============================================================================
