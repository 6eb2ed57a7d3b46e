---------------------------- MODULE AgentProcess ----------------------------
(***************************************************************************)
(* What the server relies on in an orchestrator process, seen from the     *)
(* outside: a process that alternates between phase boundaries and phases, *)
(* gives up at a boundary once it is told to stop, and speaks only through *)
(* a report and failure.txt.  JobLifecycle has these steps built in;       *)
(* Orchestrator, the process from the inside, implements them.             *)
(***************************************************************************)

VARIABLES
    proc,     \* "dead", "boundary" or "working"
    report,   \* a report*.html exists
    failure,  \* failure.txt exists and is not empty
    signal    \* the `cancelled` sentinel or STOP_ALL exists

vars == <<proc, report, failure, signal>>

Init ==
    /\ proc = "dead"
    /\ ~report
    /\ ~failure
    /\ ~signal

\* A spawn, automatic or after a Retry or a re-run, which remove failure.txt.
Spawn ==
    /\ proc = "dead"
    /\ proc' = "boundary"
    /\ failure' \in {failure, FALSE}
    /\ UNCHANGED <<report, signal>>

StartPhase ==
    /\ proc = "boundary"
    /\ ~signal
    /\ proc' = "working"
    /\ UNCHANGED <<report, failure, signal>>

EndPhase ==
    /\ proc = "working"
    /\ proc' = "boundary"
    /\ UNCHANGED <<report, failure, signal>>

\* The report and failure.txt are written by a phase that goes on.
Render ==
    /\ proc = "working"
    /\ report' = TRUE
    /\ UNCHANGED <<proc, failure, signal>>

NoteFailure ==
    /\ proc = "working"
    /\ failure' = TRUE
    /\ UNCHANGED <<proc, report, signal>>

\* Told to stop, out of phases, or unable to go on.
Exit ==
    /\ proc # "dead"
    /\ proc' = "dead"
    /\ failure' \in {failure, proc = "working" \/ failure}
    /\ UNCHANGED <<report, signal>>

Signal ==
    /\ signal' = ~signal
    /\ UNCHANGED <<proc, report, failure>>

Advance == StartPhase \/ EndPhase \/ Exit

Next == Spawn \/ Advance \/ Render \/ NoteFailure \/ Signal

Safety == Init /\ [][Next]_vars

\* A process does not stay between two phases, or in one, for ever.
Spec == Safety /\ WF_vars(Advance)
=============================================================================
