--------------------------- MODULE MCOrchestrator ---------------------------
(* Orchestrator with the six phases the server ships. *)
EXTENDS Orchestrator

Phase(script, fallback, hardPre, gate, enforced) ==
    [script   |-> script,    \* Script, in place of a Prompt for agy
     fallback |-> fallback,  \* OnFailurePrompt
     hardPre  |-> hardPre,   \* a PreLLMScripts entry without a leading '?'
     gate     |-> gate,      \* CheckSQL
     enforced |-> enforced]  \* ... said to block the job

\* phaseSpecs: Ingestion, Mapping, Review, Rate-Card Fill, Outlier Triage,
\* Reporting.
PhaseSpecs == <<
    Phase(TRUE,  TRUE,  FALSE, TRUE,  FALSE),
    Phase(FALSE, FALSE, TRUE,  TRUE,  FALSE),
    Phase(FALSE, FALSE, FALSE, TRUE,  FALSE),
    Phase(TRUE,  FALSE, FALSE, TRUE,  TRUE),
    Phase(FALSE, FALSE, FALSE, TRUE,  FALSE),
    Phase(TRUE,  FALSE, FALSE, FALSE, FALSE)>>

MCLastPhase == 6
MCScripted == {n \in 1 .. MCLastPhase : PhaseSpecs[n].script}
MCFallback == {n \in 1 .. MCLastPhase : PhaseSpecs[n].fallback}
MCHardPre  == {n \in 1 .. MCLastPhase : PhaseSpecs[n].hardPre}
MCGated    == {n \in 1 .. MCLastPhase : PhaseSpecs[n].gate}
MCEnforced == {n \in 1 .. MCLastPhase : PhaseSpecs[n].enforced}
=============================================================================
