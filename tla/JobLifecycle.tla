---------------------------- MODULE JobLifecycle ----------------------------
(***************************************************************************)
(* The life of a projection job in the Go server: its row in the jobs      *)
(* table, its job directory, the goroutines of internal/jobs that drive it *)
(* (handlers, runJob, watchers) and the detached agent processes, across   *)
(* server crashes and restarts.                                            *)
(*                                                                         *)
(* A step is one access to what others share: a SQL statement, a file      *)
(* operation, a spawn, a kill -- or a few of them in a row (removing two   *)
(* files, then updating the row) when only the last one opens a gate for   *)
(* somebody else.  What a goroutine does in between is local and belongs   *)
(* to the step before it.                                                  *)
(*                                                                         *)
(* An operator named Mutant... is a plausible bug of the definition that   *)
(* follows it: a property must be violated with it (see PROJECT.json).     *)
(***************************************************************************)
EXTENDS Naturals, FiniteSets

CONSTANTS
    Jobs,         \* job ids; an id is created at most once (uuid.New)
    Threads,      \* goroutines the server can have at the same time
    Pids,         \* process ids; none is reused while something refers to it
    NoJob, NoPid, \* "no job", and the agent_pid 0 of a row
    MaxAttempts,  \* maxAttempts of watcher.go
    MaxCrashes    \* bound: server crashes in a behaviour

ASSUME ConstantsAssumption ==
    /\ NoJob \notin Jobs
    /\ NoPid \notin Pids
    /\ IsFiniteSet(Threads)
    /\ MaxAttempts \in Nat \ {0}
    /\ MaxCrashes \in Nat

VARIABLES
    status, agentPid, attempts,            \* the jobs table
    dir, sentinel, report, failure, lock,  \* the job directories
    stopAll,                               \* DataDir/STOP_ALL
    proc, runs,                            \* agent processes and their jobs
    pc, on, pid, op, seen, todo,           \* the goroutines
    serverUp, crashes,
    skipped       \* history: jobs the last startup left alone under STOP_ALL

rowVars    == <<status, agentPid, attempts>>
dirVars    == <<dir, sentinel, report, failure, lock>>
procVars   == <<proc, runs>>
threadVars == <<pc, on, pid, op, seen, todo>>
serverVars == <<serverUp, crashes, skipped>>
vars == <<rowVars, dirVars, stopAll, procVars, threadVars, serverVars>>

-----------------------------------------------------------------------------
(* The jobs table.  Every UPDATE is unconditional: WHERE id=? and no guard *)
(* on the status it replaces.  It matches nothing once the row is deleted. *)

NonTerminal == {"pending", "running"}
Terminal    == {"done", "failed", "cancelled"}
Statuses    == NonTerminal \cup Terminal \cup {"none", "deleted"}

Exists(j) == status[j] \in NonTerminal \cup Terminal

SetStatus(j, s) ==
    status' = IF Exists(j) THEN [status EXCEPT ![j] = s] ELSE status

UpdateJobRunning(j)   == SetStatus(j, "running")
UpdateJobDone(j)      == SetStatus(j, "done")
UpdateJobFailed(j)    == SetStatus(j, "failed")
UpdateJobCancelled(j) == SetStatus(j, "cancelled")

UpdateJobPID(j, p) ==
    agentPid' = IF Exists(j) THEN [agentPid EXCEPT ![j] = p] ELSE agentPid

IncrementJobAttempts(j) ==
    attempts' = IF Exists(j) THEN [attempts EXCEPT ![j] = @ + 1] ELSE attempts

ResetJobForRetry(j) ==
    /\ SetStatus(j, "running")
    /\ UpdateJobPID(j, NoPid)
    /\ attempts' = IF Exists(j) THEN [attempts EXCEPT ![j] = 1] ELSE attempts

-----------------------------------------------------------------------------
(* Agent processes.  proc is "dead" for a pid no process has.  "boot" and  *)
(* "claim" are the two halves of the lock guard of run_all.py; "boundary"  *)
(* is between two phases, "working" inside one; "refining" is an agy       *)
(* --continue process, which runs no orchestrator code at all.             *)

Active     == {"boundary", "working"}
ProcStates == {"dead", "boot", "claim", "refining"} \cup Active

alive == {p \in Pids : proc[p] # "dead"}

MutantKill(S) ==
    /\ proc' = [p \in Pids |-> IF p \in S THEN "dead" ELSE proc[p]]
    /\ UNCHANGED runs

\* killGroup: SIGKILL, so no exit handler runs and the lock file stays.
Kill(S) ==
    /\ proc' = [p \in Pids |-> IF p \in S THEN "dead" ELSE proc[p]]
    /\ runs' = [p \in Pids |-> IF p \in S THEN NoJob ELSE runs[p]]

Referenced(p) ==
    \/ \E j \in Jobs : agentPid[j] = p \/ lock[j] = p
    \/ \E t \in Threads : pid[t] = p

FreePids == {p \in Pids \ alive : ~Referenced(p)}

RemoveLock(j) == lock' = [lock EXCEPT ![j] = NoPid]

-----------------------------------------------------------------------------
(* Goroutines.  A handler that ends with `go watcher.Watch` hands its job  *)
(* over to the goroutine it starts and returns; here it becomes it.        *)

StartOps == {"run", "retry", "rerun", "refine"}
Ops      == StartOps \cup {"none", "cancel", "stopall", "delete"}
Drives   == {"begin", "start", "launch", "record", "markRunning", "watch",
             "check", "examine", "bump", "markDone", "markFailed",
             "markCancelled"}
Steps    == Drives \cup
            {"idle", "regenLock", "resetRow", "refineRow", "cancelFile", "cancelRow",
             "cancelKill", "sweep", "reap", "deleteDir", "deleteRow"}

Goto(t, l) ==
    /\ pc' = [pc EXCEPT ![t] = l]
    /\ UNCHANGED <<on, pid, op, seen, todo>>

Begin(t, l, j, o) ==
    /\ serverUp
    /\ pc[t] = "idle"
    /\ pc' = [pc EXCEPT ![t] = l]
    /\ on' = [on EXCEPT ![t] = j]
    /\ op' = [op EXCEPT ![t] = o]
    /\ UNCHANGED <<seen, todo>>

Finish(t) ==
    /\ pc'   = [pc   EXCEPT ![t] = "idle"]
    /\ on'   = [on   EXCEPT ![t] = NoJob]
    /\ pid'  = [pid  EXCEPT ![t] = NoPid]
    /\ op'   = [op   EXCEPT ![t] = "none"]
    /\ seen' = [seen EXCEPT ![t] = 0]
    /\ todo' = [todo EXCEPT ![t] = {}]

-----------------------------------------------------------------------------
(* Starting a job: Create and runJob, Retry, RerunJobAssumptions, Refine.  *)

Create(t, j) ==
    /\ status[j] = "none"
    /\ Begin(t, "begin", j, "run")
    /\ status' = [status EXCEPT ![j] = "pending"]
    /\ dir' = dir \cup {j}
    /\ UNCHANGED <<agentPid, attempts, sentinel, report, failure, lock, stopAll,
                   procVars, pid, serverVars>>

\* Retry reads the row, and refuses unless it says failed and input.* exists.
Retry(t, j) ==
    /\ status[j] = "failed"
    /\ j \in dir
    /\ Begin(t, "resetRow", j, "retry")
    /\ UNCHANGED <<rowVars, dirVars, stopAll, procVars, pid, serverVars>>

\* RerunJobAssumptions reads the row before it looks at the per-job lock.
RerunJobAssumptions(t, j) ==
    /\ status[j] \in {"done", "failed"}
    /\ Begin(t, "regenLock", j, "rerun")
    /\ UNCHANGED <<rowVars, dirVars, stopAll, procVars, pid, serverVars>>

\* regenLocks.m[id]: held by a RerunJobAssumptions handler until it returns.
RegenHeld(j) == \E t \in Threads :
    on[t] = j /\ op[t] = "rerun" /\ pc[t] # "regenLock"

\* Refused (409) while another re-run holds the lock, or without an input.*.
TakeRegenLock(t) ==
    /\ pc[t] = "regenLock"
    /\ IF RegenHeld(on[t]) \/ on[t] \notin dir THEN Finish(t) ELSE Goto(t, "resetRow")
    /\ UNCHANGED <<rowVars, dirVars, stopAll, procVars, serverVars>>

Refine(t, j) ==
    /\ status[j] = "done"
    /\ Begin(t, "refineRow", j, "refine")
    /\ UNCHANGED <<rowVars, dirVars, stopAll, procVars, pid, serverVars>>

\* Retry and RerunJobAssumptions remove failure.txt and orchestrator.lock and
\* reset the row.  The `cancelled` sentinel and the old report stay.
ResetRow(t) ==
    /\ pc[t] = "resetRow"
    /\ failure' = failure \ {on[t]}
    /\ RemoveLock(on[t])
    /\ ResetJobForRetry(on[t])
    /\ Goto(t, "start")
    /\ UNCHANGED <<dir, sentinel, report, stopAll, procVars, serverVars>>

\* The first statement of runJob, and of Refine once its checks have passed.
MarkStarted(t) ==
    /\ pc[t] \in {"begin", "refineRow"}
    /\ UpdateJobRunning(on[t])
    /\ Goto(t, "start")
    /\ UNCHANGED <<agentPid, attempts, dirVars, stopAll, procVars, serverVars>>

\* StartOrchestrated and StartRefine look for STOP_ALL first, then prepare
\* the directory and spawn.  Any error ends in UpdateJobFailed.
StartCheck(t) ==
    /\ pc[t] = "start"
    /\ Goto(t, IF stopAll THEN "markFailed" ELSE "launch")
    /\ UNCHANGED <<rowVars, dirVars, stopAll, procVars, serverVars>>

Launch(t) ==
    /\ pc[t] = "launch"
    /\ \E p \in FreePids :
        /\ proc' = [proc EXCEPT ![p] = IF op[t] = "refine" THEN "refining" ELSE "boot"]
        /\ runs' = [runs EXCEPT ![p] = on[t]]
        /\ pid'  = [pid EXCEPT ![t] = p]
    /\ pc'  = [pc EXCEPT ![t] = "record"]
    /\ dir' = dir \cup {on[t]}
    /\ UNCHANGED <<rowVars, sentinel, report, failure, lock, stopAll,
                   on, op, seen, todo, serverVars>>

LaunchFails(t) ==
    /\ pc[t] = "launch"
    /\ Goto(t, "markFailed")
    /\ UNCHANGED <<rowVars, dirVars, stopAll, procVars, serverVars>>

\* UpdateJobPID; the Retry and Rerun handlers then mark the row running again
\* before they hand over to a watcher.
RecordPid(t) ==
    /\ pc[t] = "record"
    /\ UpdateJobPID(on[t], pid[t])
    /\ Goto(t, IF op[t] \in {"retry", "rerun"} THEN "markRunning" ELSE "watch")
    /\ UNCHANGED <<status, attempts, dirVars, stopAll, procVars, serverVars>>

MarkRunning(t) ==
    /\ pc[t] = "markRunning"
    /\ UpdateJobRunning(on[t])
    /\ pc' = [pc EXCEPT ![t] = "watch"]
    /\ op' = [op EXCEPT ![t] = "run"]
    /\ UNCHANGED <<agentPid, attempts, dirVars, stopAll, procVars,
                   on, pid, seen, todo, serverVars>>

-----------------------------------------------------------------------------
(* The watcher: watchUntilDead, then finalize.                             *)

MutantKillStale(t) ==
    /\ pc[t] = "watch"
    /\ pid[t] \in alive
    /\ lock[on[t]] = pid[t]
    /\ Kill({pid[t]})
    /\ UNCHANGED <<rowVars, dirVars, stopAll, threadVars, serverVars>>

\* staleTimeout: no log activity for so long that the process counts as hung.
KillStale(t) ==
    /\ pc[t] = "watch"
    /\ pid[t] \in alive
    /\ Kill({pid[t]})
    /\ UNCHANGED <<rowVars, dirVars, stopAll, threadVars, serverVars>>

SeeExit(t) ==
    /\ pc[t] = "watch"
    /\ pid[t] \notin alive
    /\ Goto(t, "check")
    /\ UNCHANGED <<rowVars, dirVars, stopAll, procVars, serverVars>>

CancelSeen(j) == status[j] = "cancelled" \/ j \in sentinel \/ stopAll

\* finalize reads the row; no row, no more to do.
CheckGone(t) ==
    /\ pc[t] = "check"
    /\ ~Exists(on[t])
    /\ Finish(t)
    /\ UNCHANGED <<rowVars, dirVars, stopAll, procVars, serverVars>>

\* An authoritative stop: kill the recorded pid, drop the lock, do not retry.
CheckCancelled(t) ==
    /\ pc[t] = "check"
    /\ Exists(on[t])
    /\ CancelSeen(on[t])
    /\ Kill({agentPid[on[t]]})
    /\ RemoveLock(on[t])
    /\ IF status[on[t]] = "cancelled" THEN Finish(t) ELSE Goto(t, "markCancelled")
    /\ UNCHANGED <<rowVars, dir, sentinel, report, failure, stopAll, serverVars>>

\* attempts is read with the row here and compared later, in Examine.
CheckClear(t) ==
    /\ pc[t] = "check"
    /\ Exists(on[t])
    /\ ~CancelSeen(on[t])
    /\ pc'   = [pc EXCEPT ![t] = "examine"]
    /\ seen' = [seen EXCEPT ![t] = attempts[on[t]]]
    /\ UNCHANGED <<rowVars, dirVars, stopAll, procVars, on, pid, op, todo, serverVars>>

MutantExamine(t) ==
    LET j == on[t]
    IN  /\ pc[t] = "examine"
        /\ \/ j \in report /\ Goto(t, "markDone")
           \/ j \notin report /\ Goto(t, "markFailed")
           \/ j \notin report \cup failure /\ op[t] # "refine"
              /\ seen[t] <= MaxAttempts /\ Goto(t, "bump")
        /\ UNCHANGED <<rowVars, dirVars, stopAll, procVars, serverVars>>

\* Report first, then failure.txt, then the quota markers in the agent's log
\* (any outcome), then the retry budget.  A refinement is never retried.
Examine(t) ==
    LET j == on[t]
        retryable == op[t] # "refine" /\ seen[t] < MaxAttempts
    IN  /\ pc[t] = "examine"
        /\ \/ j \in report /\ Goto(t, "markDone")
           \/ j \notin report /\ Goto(t, "markFailed")
           \/ j \notin report \cup failure /\ retryable /\ Goto(t, "bump")
        /\ UNCHANGED <<rowVars, dirVars, stopAll, procVars, serverVars>>

MarkDone(t) ==
    /\ pc[t] = "markDone"
    /\ UpdateJobDone(on[t])
    /\ Finish(t)
    /\ UNCHANGED <<agentPid, attempts, dirVars, stopAll, procVars, serverVars>>

MarkFailed(t) ==
    /\ pc[t] = "markFailed"
    /\ UpdateJobFailed(on[t])
    /\ Finish(t)
    /\ UNCHANGED <<agentPid, attempts, dirVars, stopAll, procVars, serverVars>>

MarkCancelled(t) ==
    /\ pc[t] = "markCancelled"
    /\ UpdateJobCancelled(on[t])
    /\ Finish(t)
    /\ UNCHANGED <<agentPid, attempts, dirVars, stopAll, procVars, serverVars>>

\* The automatic retry: attempts + 1, running, lock removed, Start again.
Bump(t) ==
    /\ pc[t] = "bump"
    /\ IncrementJobAttempts(on[t])
    /\ UpdateJobRunning(on[t])
    /\ RemoveLock(on[t])
    /\ pc'   = [pc EXCEPT ![t] = "start"]
    /\ pid'  = [pid EXCEPT ![t] = NoPid]
    /\ seen' = [seen EXCEPT ![t] = 0]
    /\ UNCHANGED <<agentPid, dir, sentinel, report, failure, stopAll, procVars,
                   on, op, todo, serverVars>>

-----------------------------------------------------------------------------
(* Stopping a job: cancelJob, CancelAll, ResumeAll, Delete.                *)

\* cancelJob reads the row: a terminal job is left alone, and the pid it read
\* here is the one it kills at the end.
Cancel(t, j) ==
    /\ status[j] \in NonTerminal
    /\ Begin(t, "cancelFile", j, "cancel")
    /\ pid' = [pid EXCEPT ![t] = agentPid[j]]
    /\ UNCHANGED <<rowVars, dirVars, stopAll, procVars, serverVars>>

\* The write fails silently when the directory is gone.
CancelFile(t) ==
    /\ pc[t] = "cancelFile"
    /\ sentinel' = IF on[t] \in dir THEN sentinel \cup {on[t]} ELSE sentinel
    /\ Goto(t, "cancelRow")
    /\ UNCHANGED <<rowVars, dir, report, failure, lock, stopAll, procVars, serverVars>>

CancelRow(t) ==
    /\ pc[t] = "cancelRow"
    /\ UpdateJobCancelled(on[t])
    /\ Goto(t, "cancelKill")
    /\ UNCHANGED <<agentPid, attempts, dirVars, stopAll, procVars, serverVars>>

CancelKill(t) ==
    /\ pc[t] = "cancelKill"
    /\ Kill({pid[t]})
    /\ RemoveLock(on[t])
    /\ IF op[t] = "cancel"
       THEN Finish(t)
       ELSE /\ pc'  = [pc EXCEPT ![t] = "sweep"]
            /\ on'  = [on EXCEPT ![t] = NoJob]
            /\ pid' = [pid EXCEPT ![t] = NoPid]
            /\ UNCHANGED <<op, seen, todo>>
    /\ UNCHANGED <<rowVars, dir, sentinel, report, failure, stopAll, serverVars>>

\* CancelAll: write STOP_ALL, then list the jobs that are not terminal ...
CancelAll(t) ==
    /\ serverUp
    /\ pc[t] = "idle"
    /\ stopAll' = TRUE
    /\ pc'   = [pc EXCEPT ![t] = "sweep"]
    /\ op'   = [op EXCEPT ![t] = "stopall"]
    /\ todo' = [todo EXCEPT ![t] = {j \in Jobs : status[j] \in NonTerminal}]
    /\ UNCHANGED <<rowVars, dirVars, procVars, on, pid, seen, serverVars>>

\* ... cancel each of them (one goroutine each in the code; they touch
\* different jobs, so one after the other, in any order, here) ...
SweepJob(t, j) ==
    /\ pc[t] = "sweep"
    /\ j \in todo[t]
    /\ todo' = [todo EXCEPT ![t] = @ \ {j}]
    /\ IF status[j] \in NonTerminal
       THEN /\ pc'  = [pc EXCEPT ![t] = "cancelFile"]
            /\ on'  = [on EXCEPT ![t] = j]
            /\ pid' = [pid EXCEPT ![t] = agentPid[j]]
       ELSE UNCHANGED <<pc, on, pid>>
    /\ UNCHANGED <<rowVars, dirVars, stopAll, procVars, op, seen, serverVars>>

SweepEnds(t) ==
    /\ pc[t] = "sweep"
    /\ todo[t] = {}
    /\ Goto(t, "reap")
    /\ UNCHANGED <<rowVars, dirVars, stopAll, procVars, serverVars>>

\* The processes reapOrphanAgents recognises: the command line must name the
\* jobs directory.  agy is started with --add-dir <jobDir>; the orchestrator is
\* `python3 run_all.py`, started in that directory, and names no path.
Reapable == {p \in Pids : proc[p] = "refining"}

\* ... and sweep the orphan agents.
ReapOrphanAgents(t) ==
    /\ pc[t] = "reap"
    /\ Kill(Reapable)
    /\ Finish(t)
    /\ UNCHANGED <<rowVars, dirVars, stopAll, serverVars>>

\* ResumeAll removes STOP_ALL and does nothing else.
ResumeAll ==
    /\ serverUp
    /\ stopAll
    /\ stopAll' = FALSE
    /\ UNCHANGED <<rowVars, dirVars, procVars, threadVars, serverVars>>

\* Delete and AdminDeleteJob: only a job whose row is terminal.
Delete(t, j) ==
    /\ status[j] \in Terminal
    /\ Begin(t, "deleteDir", j, "delete")
    /\ UNCHANGED <<rowVars, dirVars, stopAll, procVars, pid, serverVars>>

\* os.RemoveAll(jobDir)
DeleteDir(t) ==
    LET j == on[t]
    IN  /\ pc[t] = "deleteDir"
        /\ dir'      = dir \ {j}
        /\ sentinel' = sentinel \ {j}
        /\ report'   = report \ {j}
        /\ failure'  = failure \ {j}
        /\ RemoveLock(j)
        /\ Goto(t, "deleteRow")
        /\ UNCHANGED <<rowVars, stopAll, procVars, serverVars>>

ArchiveAndDeleteJob(t) ==
    /\ pc[t] = "deleteRow"
    /\ SetStatus(on[t], "deleted")
    /\ Finish(t)
    /\ UNCHANGED <<agentPid, attempts, dirVars, stopAll, procVars, serverVars>>

-----------------------------------------------------------------------------
(* The server process.                                                     *)

\* Goroutines die with the server; the agents run in their own sessions and
\* live on (Setsid, KillMode=process).
Crash ==
    /\ serverUp
    /\ crashes < MaxCrashes
    /\ serverUp' = FALSE
    /\ crashes'  = crashes + 1
    /\ pc'   = [t \in Threads |-> "idle"]
    /\ on'   = [t \in Threads |-> NoJob]
    /\ pid'  = [t \in Threads |-> NoPid]
    /\ op'   = [t \in Threads |-> "none"]
    /\ seen' = [t \in Threads |-> 0]
    /\ todo' = [t \in Threads |-> {}]
    /\ UNCHANGED <<rowVars, dirVars, stopAll, procVars, skipped>>

MutantOrphansRunning == {j \in Jobs : status[j] = "running"}

MutantOrphansNotDone ==
    {j \in Jobs : Exists(j) /\ status[j] \notin {"done", "failed"}}

\* ListNonTerminalJobs
Orphans == {j \in Jobs : status[j] \in NonTerminal}

NeverBegan == {j \in Orphans : agentPid[j] = NoPid}

MutantCompleted == {j \in Orphans \ NeverBegan : agentPid[j] \notin alive}

Completed ==
    {j \in Orphans \ NeverBegan : agentPid[j] \notin alive /\ j \in report}

\* main reaps the orphan jobs before it serves a request.  The fast path of a
\* completed job does not look for a `cancelled` sentinel.
Startup ==
    /\ ~serverUp
    /\ ~stopAll
    /\ serverUp' = TRUE
    /\ skipped'  = {}
    /\ status' = [j \in Jobs |-> IF j \in NeverBegan THEN "failed"
                                 ELSE IF j \in Completed THEN "done"
                                 ELSE status[j]]
    /\ \E w \in [Orphans \ (NeverBegan \cup Completed) -> Threads] :
        /\ \A i, j \in DOMAIN w : w[i] = w[j] => i = j
        /\ on'  = [t \in Threads |-> IF \E j \in DOMAIN w : w[j] = t
                                     THEN CHOOSE j \in DOMAIN w : w[j] = t
                                     ELSE NoJob]
    /\ pc'  = [t \in Threads |-> IF on'[t] = NoJob THEN "idle" ELSE "watch"]
    /\ op'  = [t \in Threads |-> IF on'[t] = NoJob THEN "none" ELSE "run"]
    /\ pid' = [t \in Threads |-> IF on'[t] = NoJob THEN NoPid ELSE agentPid[on'[t]]]
    /\ UNCHANGED <<agentPid, attempts, dirVars, stopAll, procVars, seen, todo, crashes>>

\* Under STOP_ALL the reaper attaches no watcher and touches no row.
StartupHalted ==
    /\ ~serverUp
    /\ stopAll
    /\ serverUp' = TRUE
    /\ skipped'  = Orphans
    /\ UNCHANGED <<rowVars, dirVars, stopAll, procVars, threadVars, crashes>>

-----------------------------------------------------------------------------
(* The agent processes: run_all.py seen from outside.  Which phases it has *)
(* and what they do to the job directory is the matter of Orchestrator.    *)

ProcGoto(p, l) == proc' = [proc EXCEPT ![p] = l] /\ UNCHANGED runs

\* _release_lock, the exit handler: only the holder removes the file.
Exit(p) ==
    /\ Kill({p})
    /\ lock' = IF lock[runs[p]] = p THEN [lock EXCEPT ![runs[p]] = NoPid] ELSE lock

\* The guard, first half: another live run_all.py holds the lock -- give up.
AgentBoot(p) ==
    /\ proc[p] = "boot"
    /\ IF lock[runs[p]] \in alive \ {p}
       THEN Exit(p)
       ELSE ProcGoto(p, "claim") /\ UNCHANGED lock
    /\ UNCHANGED <<rowVars, dir, sentinel, report, failure, stopAll,
                   threadVars, serverVars>>

\* The guard, second half: write the own pid into the file.
AgentClaim(p) ==
    /\ proc[p] = "claim"
    /\ IF runs[p] \in dir
       THEN lock' = [lock EXCEPT ![runs[p]] = p] /\ ProcGoto(p, "boundary")
       ELSE Exit(p)
    /\ UNCHANGED <<rowVars, dir, sentinel, report, failure, stopAll,
                   threadVars, serverVars>>

MutantAgentBoundary(p) ==
    /\ proc[p] = "boundary"
    /\ IF stopAll
       THEN Exit(p)
       ELSE ProcGoto(p, "working") /\ UNCHANGED lock
    /\ UNCHANGED <<rowVars, dir, sentinel, report, failure, stopAll,
                   threadVars, serverVars>>

\* run_phase looks for a cancel signal before each phase.
AgentBoundary(p) ==
    /\ proc[p] = "boundary"
    /\ IF runs[p] \in sentinel \/ stopAll
       THEN Exit(p)
       ELSE ProcGoto(p, "working") /\ UNCHANGED lock
    /\ UNCHANGED <<rowVars, dir, sentinel, report, failure, stopAll,
                   threadVars, serverVars>>

\* A phase ends and another one follows.
AgentPhaseEnds(p) ==
    /\ proc[p] = "working"
    /\ ProcGoto(p, "boundary")
    /\ UNCHANGED <<rowVars, dirVars, stopAll, threadVars, serverVars>>

\* The last phase renders the report (into a directory that still exists) ...
AgentReports(p) ==
    /\ proc[p] = "working"
    /\ report' = report \cup ({runs[p]} \cap dir)
    /\ UNCHANGED <<rowVars, dir, sentinel, failure, lock, stopAll, procVars,
                   threadVars, serverVars>>

\* ... and a phase notes a structural failure in failure.txt, each before the
\* process ends.
AgentFails(p) ==
    /\ proc[p] = "working"
    /\ failure' = failure \cup ({runs[p]} \cap dir)
    /\ UNCHANGED <<rowVars, dir, sentinel, report, lock, stopAll, procVars,
                   threadVars, serverVars>>

\* sys.exit inside a phase, or the end of the loop over the phases.
AgentExits(p) ==
    /\ proc[p] \in Active
    /\ Exit(p)
    /\ UNCHANGED <<rowVars, dir, sentinel, report, failure, stopAll,
                   threadVars, serverVars>>

\* Killed by the host, or (a refinement) simply done: no report of its own.
AgentDies(p) ==
    /\ p \in alive
    /\ Kill({p})
    /\ UNCHANGED <<rowVars, dirVars, stopAll, threadVars, serverVars>>

-----------------------------------------------------------------------------
Init ==
    /\ status   = [j \in Jobs |-> "none"]
    /\ agentPid = [j \in Jobs |-> NoPid]
    /\ attempts = [j \in Jobs |-> 0]
    /\ dir = {} /\ sentinel = {} /\ report = {} /\ failure = {}
    /\ lock = [j \in Jobs |-> NoPid]
    /\ stopAll = FALSE
    /\ proc = [p \in Pids |-> "dead"]
    /\ runs = [p \in Pids |-> NoJob]
    /\ pc   = [t \in Threads |-> "idle"]
    /\ on   = [t \in Threads |-> NoJob]
    /\ pid  = [t \in Threads |-> NoPid]
    /\ op   = [t \in Threads |-> "none"]
    /\ seen = [t \in Threads |-> 0]
    /\ todo = [t \in Threads |-> {}]
    /\ serverUp = TRUE
    /\ crashes = 0
    /\ skipped = {}

\* What users and the operator ask for; nobody has to ask for anything.
Request(t) ==
    \/ CancelAll(t)
    \/ \E j \in Jobs : \/ Create(t, j) \/ Retry(t, j) \/ Refine(t, j)
                       \/ RerunJobAssumptions(t, j)
                       \/ Cancel(t, j) \/ Delete(t, j)

StartStep(t) ==
    \/ TakeRegenLock(t) \/ ResetRow(t) \/ MarkStarted(t) \/ StartCheck(t)
    \/ Launch(t) \/ LaunchFails(t) \/ RecordPid(t) \/ MarkRunning(t)

WatchStep(t) ==
    \/ SeeExit(t) \/ CheckGone(t) \/ CheckCancelled(t) \/ CheckClear(t)
    \/ Examine(t) \/ MarkDone(t) \/ MarkFailed(t) \/ MarkCancelled(t) \/ Bump(t)

StopStep(t) ==
    \/ CancelFile(t) \/ CancelRow(t) \/ CancelKill(t)
    \/ SweepEnds(t) \/ ReapOrphanAgents(t) \/ DeleteDir(t) \/ ArchiveAndDeleteJob(t)
    \/ \E j \in Jobs : SweepJob(t, j)

ThreadStep(t) == StartStep(t) \/ WatchStep(t) \/ StopStep(t)

AgentMoves(p) ==
    \/ AgentBoot(p) \/ AgentClaim(p) \/ AgentBoundary(p) \/ AgentPhaseEnds(p)
    \/ AgentExits(p)

AgentStep(p) == AgentMoves(p) \/ AgentReports(p) \/ AgentFails(p)

Next ==
    \/ \E t \in Threads : Request(t) \/ ThreadStep(t) \/ KillStale(t)
    \/ \E p \in Pids : AgentStep(p) \/ AgentDies(p)
    \/ ResumeAll \/ Crash \/ Startup \/ StartupHalted

Spec == Init /\ [][Next]_vars

\* Each liveness property states the fairness it needs.  Of the server: a
\* goroutine that can run does (the Go scheduler), a watcher kills a process that
\* is silent for too long (nothing else is enabled for it then), and systemd
\* restarts a server that died (Restart=on-failure).
ServerFairness ==
    /\ \A t \in Threads : WF_vars(ThreadStep(t) \/ KillStale(t))
    /\ WF_vars(Startup \/ StartupHalted)

\* A phase ends: agy stops by itself (--print-timeout) and scripts are finite.
AgentFairness == \A p \in Pids : WF_vars(AgentMoves(p))

-----------------------------------------------------------------------------
(* Every row, file, process and goroutine is in a state of its kind.       *)
TypeOK ==
    /\ status   \in [Jobs -> Statuses]
    /\ agentPid \in [Jobs -> Pids \cup {NoPid}]
    /\ attempts \in [Jobs -> Nat]
    /\ dir \subseteq Jobs /\ sentinel \subseteq Jobs
    /\ report \subseteq Jobs /\ failure \subseteq Jobs
    /\ lock \in [Jobs -> Pids \cup {NoPid}]
    /\ stopAll \in BOOLEAN
    /\ proc \in [Pids -> ProcStates]
    /\ runs \in [Pids -> Jobs \cup {NoJob}]
    /\ \A p \in Pids : proc[p] = "dead" <=> runs[p] = NoJob
    /\ pc   \in [Threads -> Steps]
    /\ on   \in [Threads -> Jobs \cup {NoJob}]
    /\ \A t \in Threads :
        on[t] = NoJob <=> pc[t] \in {"idle", "sweep", "reap"}
    /\ pid  \in [Threads -> Pids \cup {NoPid}]
    /\ op   \in [Threads -> Ops]
    /\ seen \in [Threads -> Nat]
    /\ todo \in [Threads -> SUBSET Jobs]
    /\ serverUp \in BOOLEAN
    /\ crashes \in 0 .. MaxCrashes
    /\ skipped \subseteq Jobs

\* No running job is forgotten: while the server is up, some goroutine is on
\* its way to a terminal status for every pending or running row -- whatever
\* requests, crashes and restarts came before.  The only exception are the jobs
\* the last startup left alone because STOP_ALL was set.
RunningIsOwned ==
    serverUp => \A j \in Jobs \ skipped :
        status[j] \in NonTerminal =>
            \E t \in Threads : on[t] = j /\ pc[t] \in Drives

\* A row becomes `done` only on top of a report: finalize looks for the report
\* in one step and writes the row in a later one, and the startup fast path
\* trusts a directory it did not watch.  The one way to lose the report in
\* between is a Delete that has already removed the directory, and that one
\* still has the row to archive.
DoneIsEarned ==
    [][\A j \in Jobs : status[j] # "done" /\ status'[j] = "done" =>
        j \in report \/ \E t \in Threads : on[t] = j /\ pc[t] = "deleteRow"]_vars

\* The retry budget is overrun by at most one attempt per goroutine that read
\* the counter before another one incremented it.
RetryBudget ==
    \A j \in Jobs : attempts[j] < MaxAttempts + Cardinality(Threads)

\* A cancelled job whose goroutines have all yet to look at the row (or are
\* cancelling or deleting it).
Settled(j) ==
    /\ status[j] = "cancelled"
    /\ \A t \in Threads : on[t] = j =>
        pc[t] \in {"watch", "check", "cancelFile", "cancelRow", "cancelKill",
                   "deleteDir", "deleteRow"}

\* "Cancel must win that race": once a cancel lands while the job's watchers
\* are still polling, no watcher, restart, STOP_ALL or ResumeAll turns the row
\* into anything but a deleted one.
CancelSticks ==
    [][\A j \in Jobs : Settled(j) => Settled(j)' \/ status'[j] = "deleted"]_vars

\* Every pending or running job reaches a terminal status, even if its agent
\* hangs, unless a startup under STOP_ALL left it alone.
JobSettles ==
    ServerFairness =>
        \A j \in Jobs :
            status[j] \in NonTerminal
                ~> (status[j] \notin NonTerminal \/ j \in skipped)

\* No orchestrator process outlives the sentinel of its job for ever, recorded
\* in the row or not: as long as phases end, each one stops at a phase boundary
\* at the latest.
SentinelStopsRun ==
    AgentFairness =>
        \A p \in Pids : \A j \in Jobs :
            (runs[p] = j /\ proc[p] # "refining" /\ j \in sentinel)
                ~> (runs[p] # j \/ j \notin sentinel)

-----------------------------------------------------------------------------
(* What the documentation says, and the code does not keep.                *)

\* docs/WORKORDER_global_cancel.md:128 "Cancel is terminal only", :89
\* "`cancelled` is its own terminal state".
CancelIsTerminal ==
    [][\A j \in Jobs : status[j] = "cancelled" =>
                       status'[j] \in {"cancelled", "deleted"}]_vars

\* orchestrate.go:804 "This guard makes that structurally impossible: only one
\* run_all.py may hold the lock for a given job dir at a time".
OneOrchestrator ==
    \A p, q \in Pids : proc[p] \in Active /\ proc[q] \in Active
                       /\ runs[p] = runs[q] => p = q

\* docs/WORKORDER_global_cancel.md:105 "spawn an agent-signature process whose
\* job row is `cancelled`/absent -> reapOrphanAgents() kills it".
SweepIsComplete ==
    [][\A t \in Threads : pc[t] = "reap" /\ pc'[t] = "idle" /\ serverUp' =>
        \A p \in Pids : proc[p] # "dead" /\ status[runs[p]] = "cancelled"
                        => proc'[p] = "dead"]_vars
=============================================================================
