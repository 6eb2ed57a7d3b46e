------------------------- MODULE JobLifecycleProofs -------------------------
(***************************************************************************)
(* Proofs about JobLifecycle, for any sets of jobs, goroutines and pids,   *)
(* any retry budget and any number of crashes: the tables and directories  *)
(* are typed, a running row has an owner, a cancel stays, a done row is    *)
(* backed by a report, and automatic restarts keep to their budget.        *)
(***************************************************************************)
EXTENDS JobLifecycle, FiniteSetTheorems, TLAPS

-----------------------------------------------------------------------------
(* Type correctness.                                                       *)

TypedRows ==
    /\ status   \in [Jobs -> Statuses]
    /\ agentPid \in [Jobs -> Pids \cup {NoPid}]
    /\ attempts \in [Jobs -> Nat]

TypedDirs ==
    /\ dir \subseteq Jobs /\ sentinel \subseteq Jobs
    /\ report \subseteq Jobs /\ failure \subseteq Jobs
    /\ lock \in [Jobs -> Pids \cup {NoPid}]

TypedProcs ==
    /\ proc \in [Pids -> ProcStates]
    /\ runs \in [Pids -> Jobs \cup {NoJob}]
    /\ \A p \in Pids : proc[p] = "dead" <=> runs[p] = NoJob

TypedThreads ==
    /\ pc   \in [Threads -> Steps]
    /\ on   \in [Threads -> Jobs \cup {NoJob}]
    /\ \A t \in Threads :
        on[t] = NoJob <=> pc[t] \in {"idle", "sweep", "reap"}
    /\ pid  \in [Threads -> Pids \cup {NoPid}]
    /\ op   \in [Threads -> Ops]
    /\ seen \in [Threads -> Nat]
    /\ todo \in [Threads -> SUBSET Jobs]

TypedFlags ==
    /\ stopAll \in BOOLEAN
    /\ serverUp \in BOOLEAN

TypedServer ==
    /\ crashes \in 0 .. MaxCrashes
    /\ skipped \subseteq Jobs

Typed == /\ TypedRows /\ TypedDirs /\ TypedProcs
         /\ TypedThreads /\ TypedFlags /\ TypedServer

\* TypeOK by groups: an action leaves most groups alone.
LEMMA TypeOKGroups == (TypeOK <=> Typed) /\ (TypeOK' <=> Typed')
BY DEF TypeOK, Typed, TypedRows, TypedDirs, TypedProcs, TypedThreads,
       TypedFlags, TypedServer

\* The updates of a row keep its type.
LEMMA RowUpdates ==
    ASSUME TypedRows, NEW j \in Jobs
    PROVE  /\ \A s \in Statuses : SetStatus(j, s) => status' \in [Jobs -> Statuses]
           /\ \A p \in Pids \cup {NoPid} :
                UpdateJobPID(j, p) => agentPid' \in [Jobs -> Pids \cup {NoPid}]
           /\ IncrementJobAttempts(j) => attempts' \in [Jobs -> Nat]
           /\ ResetJobForRetry(j) => TypedRows'
<1> USE DEF TypedRows, Statuses, NonTerminal, Terminal
<1>1. \A s \in Statuses : SetStatus(j, s) => status' \in [Jobs -> Statuses]
  BY DEF SetStatus
<1>2. \A p \in Pids \cup {NoPid} :
        UpdateJobPID(j, p) => agentPid' \in [Jobs -> Pids \cup {NoPid}]
  BY DEF UpdateJobPID
<1>3. IncrementJobAttempts(j) => attempts' \in [Jobs -> Nat]
  BY DEF IncrementJobAttempts
<1>4. ResetJobForRetry(j) => TypedRows'
  BY <1>1, <1>2 DEF ResetJobForRetry
<1>5. QED
  BY <1>1, <1>2, <1>3, <1>4

\* A killed process is dead and runs no job; the others are as they were.
LEMMA KillKeepsType ==
    ASSUME TypedProcs, NEW S, Kill(S)
    PROVE  TypedProcs'
BY ConstantsAssumption DEF TypedProcs, Kill, ProcStates, Active

\* A goroutine that moves on stays typed ...
LEMMA GotoKeepsType ==
    ASSUME TypedThreads, NEW t \in Threads, NEW l \in Steps, Goto(t, l),
           pc[t] \in {"idle", "sweep", "reap"} <=> l \in {"idle", "sweep", "reap"}
    PROVE  TypedThreads'
BY DEF TypedThreads, Goto

\* ... and so does one that ends, and an idle one that begins.
LEMMA FinishKeepsType ==
    ASSUME TypedThreads, NEW t \in Threads, Finish(t)
    PROVE  TypedThreads'
BY ConstantsAssumption DEF TypedThreads, Finish, Steps, Drives, Ops, StartOps

LEMMA BeginKeepsType ==
    ASSUME TypedThreads, NEW t \in Threads, NEW j \in Jobs,
           NEW l \in Steps \ {"idle", "sweep", "reap"}, NEW o \in Ops,
           Begin(t, l, j, o), pid' \in [Threads -> Pids \cup {NoPid}]
    PROVE  TypedThreads'
BY ConstantsAssumption DEF TypedThreads, Begin

\* A group none of whose variables changes stays typed.
LEMMA UnchangedKeepsType ==
    /\ TypedRows    /\ UNCHANGED rowVars               => TypedRows'
    /\ TypedDirs    /\ UNCHANGED dirVars               => TypedDirs'
    /\ TypedProcs   /\ UNCHANGED procVars              => TypedProcs'
    /\ TypedThreads /\ UNCHANGED threadVars            => TypedThreads'
    /\ TypedFlags   /\ UNCHANGED <<stopAll, serverUp>> => TypedFlags'
    /\ TypedServer  /\ UNCHANGED serverVars            => TypedServer'
BY DEF rowVars, dirVars, procVars, threadVars, serverVars,
       TypedRows, TypedDirs, TypedProcs, TypedThreads, TypedFlags, TypedServer

LEMMA TypeInit == Init => TypeOK
<1> SUFFICES ASSUME Init PROVE TypeOK
  OBVIOUS
<1> USE ConstantsAssumption DEF Init, ConstantsAssumption
<1>1. TypedRows
  BY DEF TypedRows, Statuses
<1>2. TypedDirs
  BY DEF TypedDirs
<1>3. TypedProcs
  BY DEF TypedProcs, ProcStates
<1>4. TypedThreads
  BY DEF TypedThreads, Steps, Ops
<1>5. TypedFlags
  BY DEF TypedFlags
<1>6. TypedServer
  BY DEF TypedServer
<1>7. QED
  BY <1>1, <1>2, <1>3, <1>4, <1>5, <1>6, TypeOKGroups DEF Typed

LEMMA TypeRequest ==
    ASSUME TypeOK, NEW t \in Threads, Request(t)
    PROVE  TypeOK'
<1> USE TypeOKGroups DEF Typed
<1>0. pid \in [Threads -> Pids \cup {NoPid}] /\ agentPid \in [Jobs -> Pids \cup {NoPid}]
  BY DEF TypedThreads, TypedRows
<1>1. CASE CancelAll(t)
  <2>1. TypedThreads'
    BY <1>1 DEF CancelAll, TypedThreads, Steps, Drives, Ops
  <2>2. TypedFlags'
    BY <1>1 DEF CancelAll, TypedFlags, serverVars
  <2>3. QED
    BY <1>1, <2>1, <2>2, UnchangedKeepsType DEF CancelAll, serverVars
<1>2. ASSUME NEW j \in Jobs, Create(t, j) PROVE TypeOK'
  <2>1. TypedRows'
    BY <1>2 DEF Create, TypedRows, Statuses, NonTerminal
  <2>2. TypedDirs'
    BY <1>2 DEF Create, TypedDirs
  <2>3. TypedThreads'
    BY <1>0, <1>2, BeginKeepsType DEF Create, Steps, Drives, Ops, StartOps
  <2>4. QED
    BY <1>2, <2>1, <2>2, <2>3, UnchangedKeepsType DEF Create, serverVars
<1>3. ASSUME NEW j \in Jobs, Retry(t, j) PROVE TypeOK'
  <2>1. TypedThreads'
    BY <1>0, <1>3, BeginKeepsType DEF Retry, Steps, Drives, Ops, StartOps
  <2>2. QED
    BY <1>3, <2>1, UnchangedKeepsType DEF Retry, serverVars
<1>4. ASSUME NEW j \in Jobs, RerunJobAssumptions(t, j) PROVE TypeOK'
  <2>1. TypedThreads'
    BY <1>0, <1>4, BeginKeepsType DEF RerunJobAssumptions, Steps, Drives, Ops, StartOps
  <2>2. QED
    BY <1>4, <2>1, UnchangedKeepsType DEF RerunJobAssumptions, serverVars
<1>5. ASSUME NEW j \in Jobs, Refine(t, j) PROVE TypeOK'
  <2>1. TypedThreads'
    BY <1>0, <1>5, BeginKeepsType DEF Refine, Steps, Drives, Ops, StartOps
  <2>2. QED
    BY <1>5, <2>1, UnchangedKeepsType DEF Refine, serverVars
<1>6. ASSUME NEW j \in Jobs, Cancel(t, j) PROVE TypeOK'
  <2>1. TypedThreads'
    BY <1>0, <1>6, BeginKeepsType DEF Cancel, Steps, Drives, Ops, StartOps
  <2>2. QED
    BY <1>6, <2>1, UnchangedKeepsType DEF Cancel, serverVars
<1>7. ASSUME NEW j \in Jobs, Delete(t, j) PROVE TypeOK'
  <2>1. TypedThreads'
    BY <1>0, <1>7, BeginKeepsType DEF Delete, Steps, Drives, Ops, StartOps
  <2>2. QED
    BY <1>7, <2>1, UnchangedKeepsType DEF Delete, serverVars
<1>8. QED
  BY <1>1, <1>2, <1>3, <1>4, <1>5, <1>6, <1>7 DEF Request

\* A started job, a watcher, a canceller: one step of a goroutine.
LEMMA TypeThreadStep ==
    ASSUME TypeOK, NEW t \in Threads, ThreadStep(t)
    PROVE  TypeOK'
<1> USE TypeOKGroups DEF Typed
<1>0. /\ pc[t] \notin {"idle", "sweep", "reap"} => on[t] \in Jobs
      /\ pid[t] \in Pids \cup {NoPid}
  BY DEF TypedThreads
<1>1. CASE TakeRegenLock(t)
  <2>1. TypedThreads'
    BY <1>1, GotoKeepsType, FinishKeepsType DEF TakeRegenLock, Steps, Drives
  <2>2. QED
    BY <1>1, <2>1, UnchangedKeepsType DEF TakeRegenLock, serverVars
<1>2. CASE ResetRow(t)
  <2>1. TypedRows'
    BY <1>2, <1>0, RowUpdates DEF ResetRow
  <2>2. TypedDirs'
    BY <1>2, <1>0 DEF ResetRow, RemoveLock, TypedDirs
  <2>3. TypedThreads'
    BY <1>2, GotoKeepsType DEF ResetRow, Steps, Drives
  <2>4. QED
    BY <1>2, <2>1, <2>2, <2>3, UnchangedKeepsType DEF ResetRow, serverVars
<1>3. CASE MarkStarted(t)
  <2>1. TypedRows'
    BY <1>3, <1>0, RowUpdates DEF MarkStarted, UpdateJobRunning, TypedRows,
       Statuses, NonTerminal
  <2>2. TypedThreads'
    BY <1>3, GotoKeepsType DEF MarkStarted, Steps, Drives
  <2>3. QED
    BY <1>3, <2>1, <2>2, UnchangedKeepsType DEF MarkStarted, serverVars
<1>4. CASE StartCheck(t)
  <2>1. TypedThreads'
    BY <1>4, GotoKeepsType DEF StartCheck, Steps, Drives
  <2>2. QED
    BY <1>4, <2>1, UnchangedKeepsType DEF StartCheck, serverVars
<1>5. CASE Launch(t)
  <2>1. TypedDirs'
    BY <1>5, <1>0 DEF Launch, TypedDirs
  <2>2. TypedProcs'
    BY <1>5, <1>0, ConstantsAssumption DEF Launch, TypedProcs, ProcStates,
       FreePids, ConstantsAssumption
  <2>3. TypedThreads'
    BY <1>5 DEF Launch, TypedThreads, FreePids, Steps, Drives
  <2>4. QED
    BY <1>5, <2>1, <2>2, <2>3, UnchangedKeepsType DEF Launch, serverVars
<1>6. CASE LaunchFails(t)
  <2>1. TypedThreads'
    BY <1>6, GotoKeepsType DEF LaunchFails, Steps, Drives
  <2>2. QED
    BY <1>6, <2>1, UnchangedKeepsType DEF LaunchFails, serverVars
<1>7. CASE RecordPid(t)
  <2>1. TypedRows'
    BY <1>7, <1>0, RowUpdates DEF RecordPid, TypedRows
  <2>2. TypedThreads'
    BY <1>7, GotoKeepsType DEF RecordPid, Steps, Drives
  <2>3. QED
    BY <1>7, <2>1, <2>2, UnchangedKeepsType DEF RecordPid, serverVars
<1>8. CASE MarkRunning(t)
  <2>1. TypedRows'
    BY <1>8, <1>0, RowUpdates DEF MarkRunning, UpdateJobRunning, TypedRows,
       Statuses, NonTerminal
  <2>2. TypedThreads'
    BY <1>8 DEF MarkRunning, TypedThreads, Ops, StartOps, Steps, Drives
  <2>3. QED
    BY <1>8, <2>1, <2>2, UnchangedKeepsType DEF MarkRunning, serverVars
<1>9. CASE SeeExit(t)
  <2>1. TypedThreads'
    BY <1>9, GotoKeepsType DEF SeeExit, Steps, Drives
  <2>2. QED
    BY <1>9, <2>1, UnchangedKeepsType DEF SeeExit, serverVars
<1>10. CASE CheckGone(t)
  <2>1. TypedThreads'
    BY <1>10, FinishKeepsType DEF CheckGone
  <2>2. QED
    BY <1>10, <2>1, UnchangedKeepsType DEF CheckGone, serverVars
<1>11. CASE CheckCancelled(t)
  <2>1. TypedDirs'
    BY <1>11, <1>0 DEF CheckCancelled, RemoveLock, TypedDirs
  <2>2. TypedProcs'
    BY <1>11, KillKeepsType DEF CheckCancelled
  <2>3. TypedThreads'
    BY <1>11, GotoKeepsType, FinishKeepsType DEF CheckCancelled, Steps, Drives
  <2>4. QED
    BY <1>11, <2>1, <2>2, <2>3, UnchangedKeepsType DEF CheckCancelled,
       serverVars
<1>12. CASE CheckClear(t)
  <2>1. TypedThreads'
    BY <1>12, <1>0 DEF CheckClear, TypedThreads, TypedRows, Steps, Drives
  <2>2. QED
    BY <1>12, <2>1, UnchangedKeepsType DEF CheckClear, serverVars
<1>13. CASE Examine(t)
  <2>1. TypedThreads'
    BY <1>13, GotoKeepsType DEF Examine, Steps, Drives
  <2>2. QED
    BY <1>13, <2>1, UnchangedKeepsType DEF Examine, serverVars
<1>14. CASE MarkDone(t)
  <2>1. TypedRows'
    BY <1>14, <1>0, RowUpdates DEF MarkDone, UpdateJobDone, TypedRows,
       Statuses, Terminal
  <2>2. TypedThreads'
    BY <1>14, FinishKeepsType DEF MarkDone
  <2>3. QED
    BY <1>14, <2>1, <2>2, UnchangedKeepsType DEF MarkDone, serverVars
<1>15. CASE MarkFailed(t)
  <2>1. TypedRows'
    BY <1>15, <1>0, RowUpdates DEF MarkFailed, UpdateJobFailed, TypedRows,
       Statuses, Terminal
  <2>2. TypedThreads'
    BY <1>15, FinishKeepsType DEF MarkFailed
  <2>3. QED
    BY <1>15, <2>1, <2>2, UnchangedKeepsType DEF MarkFailed, serverVars
<1>16. CASE MarkCancelled(t)
  <2>1. TypedRows'
    BY <1>16, <1>0, RowUpdates DEF MarkCancelled, UpdateJobCancelled,
       TypedRows, Statuses, Terminal
  <2>2. TypedThreads'
    BY <1>16, FinishKeepsType DEF MarkCancelled
  <2>3. QED
    BY <1>16, <2>1, <2>2, UnchangedKeepsType DEF MarkCancelled, serverVars
<1>17. CASE Bump(t)
  <2>1. TypedRows'
    BY <1>17, <1>0, RowUpdates DEF Bump, UpdateJobRunning, TypedRows, Statuses,
       NonTerminal
  <2>2. TypedDirs'
    BY <1>17, <1>0 DEF Bump, RemoveLock, TypedDirs
  <2>3. TypedThreads'
    BY <1>17 DEF Bump, TypedThreads, Steps, Drives
  <2>4. QED
    BY <1>17, <2>1, <2>2, <2>3, UnchangedKeepsType DEF Bump, serverVars
<1>18. CASE CancelFile(t)
  <2>1. TypedDirs'
    BY <1>18, <1>0 DEF CancelFile, TypedDirs
  <2>2. TypedThreads'
    BY <1>18, GotoKeepsType DEF CancelFile, Steps, Drives
  <2>3. QED
    BY <1>18, <2>1, <2>2, UnchangedKeepsType DEF CancelFile, serverVars
<1>19. CASE CancelRow(t)
  <2>1. TypedRows'
    BY <1>19, <1>0, RowUpdates DEF CancelRow, UpdateJobCancelled, TypedRows,
       Statuses, Terminal
  <2>2. TypedThreads'
    BY <1>19, GotoKeepsType DEF CancelRow, Steps, Drives
  <2>3. QED
    BY <1>19, <2>1, <2>2, UnchangedKeepsType DEF CancelRow, serverVars
<1>20. CASE CancelKill(t)
  <2>1. TypedDirs'
    BY <1>20, <1>0 DEF CancelKill, RemoveLock, TypedDirs
  <2>2. TypedProcs'
    BY <1>20, KillKeepsType DEF CancelKill
  <2>3. TypedThreads'
    BY <1>20, FinishKeepsType DEF CancelKill, TypedThreads, Steps, Drives
  <2>4. QED
    BY <1>20, <2>1, <2>2, <2>3, UnchangedKeepsType DEF CancelKill, serverVars
<1>21. CASE SweepEnds(t)
  <2>1. TypedThreads'
    BY <1>21, GotoKeepsType DEF SweepEnds, Steps, Drives
  <2>2. QED
    BY <1>21, <2>1, UnchangedKeepsType DEF SweepEnds, serverVars
<1>22. CASE ReapOrphanAgents(t)
  <2>1. TypedProcs'
    BY <1>22, KillKeepsType DEF ReapOrphanAgents
  <2>2. TypedThreads'
    BY <1>22, FinishKeepsType DEF ReapOrphanAgents
  <2>3. QED
    BY <1>22, <2>1, <2>2, UnchangedKeepsType DEF ReapOrphanAgents, serverVars
<1>23. CASE DeleteDir(t)
  <2>1. TypedDirs'
    BY <1>23, <1>0 DEF DeleteDir, RemoveLock, TypedDirs
  <2>2. TypedThreads'
    BY <1>23, GotoKeepsType DEF DeleteDir, Steps, Drives
  <2>3. QED
    BY <1>23, <2>1, <2>2, UnchangedKeepsType DEF DeleteDir, serverVars
<1>24. CASE ArchiveAndDeleteJob(t)
  <2>1. TypedRows'
    BY <1>24, <1>0, RowUpdates DEF ArchiveAndDeleteJob, TypedRows, Statuses
  <2>2. TypedThreads'
    BY <1>24, FinishKeepsType DEF ArchiveAndDeleteJob
  <2>3. QED
    BY <1>24, <2>1, <2>2, UnchangedKeepsType DEF ArchiveAndDeleteJob,
       serverVars
<1>25. ASSUME NEW j \in Jobs, SweepJob(t, j) PROVE TypeOK'
  <2>1. TypedThreads'
    BY <1>25, <1>0, ConstantsAssumption DEF SweepJob, TypedThreads, TypedRows,
       ConstantsAssumption, Steps, Drives
  <2>2. QED
    BY <1>25, <2>1, UnchangedKeepsType DEF SweepJob, serverVars
<1>26. QED
  BY <1>1, <1>2, <1>3, <1>4, <1>5, <1>6, <1>7, <1>8, <1>9, <1>10, <1>11, <1>12,
     <1>13, <1>14, <1>15, <1>16, <1>17, <1>18, <1>19, <1>20, <1>21, <1>22,
     <1>23, <1>24, <1>25 DEF ThreadStep, StartStep, WatchStep, StopStep

\* A step of an agent process, or its death.
LEMMA TypeAgentStep ==
    ASSUME TypeOK, NEW p \in Pids, AgentStep(p) \/ AgentDies(p)
    PROVE  TypeOK'
<1> USE TypeOKGroups DEF Typed
<1>0. proc[p] # "dead" => runs[p] \in Jobs
  BY DEF TypedProcs
<1>1. CASE AgentBoot(p)
  <2>1. TypedDirs'
    BY <1>1, <1>0 DEF AgentBoot, Exit, TypedDirs
  <2>2. TypedProcs'
    BY <1>1, KillKeepsType DEF AgentBoot, Exit, ProcGoto, TypedProcs,
       ProcStates, Active
  <2>3. QED
    BY <1>1, <2>1, <2>2, UnchangedKeepsType DEF AgentBoot, serverVars
<1>2. CASE AgentClaim(p)
  <2>1. TypedDirs'
    BY <1>2, <1>0 DEF AgentClaim, Exit, TypedDirs
  <2>2. TypedProcs'
    BY <1>2, KillKeepsType DEF AgentClaim, Exit, ProcGoto, TypedProcs,
       ProcStates, Active
  <2>3. QED
    BY <1>2, <2>1, <2>2, UnchangedKeepsType DEF AgentClaim, serverVars
<1>3. CASE AgentBoundary(p)
  <2>1. TypedDirs'
    BY <1>3, <1>0 DEF AgentBoundary, Exit, TypedDirs
  <2>2. TypedProcs'
    BY <1>3, KillKeepsType DEF AgentBoundary, Exit, ProcGoto, TypedProcs,
       ProcStates, Active
  <2>3. QED
    BY <1>3, <2>1, <2>2, UnchangedKeepsType DEF AgentBoundary, serverVars
<1>4. CASE AgentPhaseEnds(p)
  <2>1. TypedProcs'
    BY <1>4 DEF AgentPhaseEnds, ProcGoto, TypedProcs, ProcStates, Active
  <2>2. QED
    BY <1>4, <2>1, UnchangedKeepsType DEF AgentPhaseEnds, serverVars
<1>5. CASE AgentReports(p)
  <2>1. TypedDirs'
    BY <1>5 DEF AgentReports, TypedDirs
  <2>2. QED
    BY <1>5, <2>1, UnchangedKeepsType DEF AgentReports, procVars, serverVars
<1>6. CASE AgentFails(p)
  <2>1. TypedDirs'
    BY <1>6 DEF AgentFails, TypedDirs
  <2>2. QED
    BY <1>6, <2>1, UnchangedKeepsType DEF AgentFails, procVars, serverVars
<1>8. CASE AgentExits(p)
  <2>1. TypedDirs'
    BY <1>8, <1>0 DEF AgentExits, Active, Exit, TypedDirs
  <2>2. TypedProcs'
    BY <1>8, KillKeepsType DEF AgentExits, Exit
  <2>3. QED
    BY <1>8, <2>1, <2>2, UnchangedKeepsType DEF AgentExits, serverVars
<1>7. CASE AgentDies(p)
  <2>1. TypedProcs'
    BY <1>7, KillKeepsType DEF AgentDies
  <2>2. QED
    BY <1>7, <2>1, UnchangedKeepsType DEF AgentDies, serverVars
<1>9. QED
  BY <1>1, <1>2, <1>3, <1>4, <1>5, <1>6, <1>7, <1>8 DEF AgentStep, AgentMoves

\* The server itself: it crashes, and starts again.
LEMMA TypeServerStep ==
    ASSUME TypeOK, ResumeAll \/ Crash \/ Startup \/ StartupHalted
    PROVE  TypeOK'
<1> USE TypeOKGroups DEF Typed
<1>1. CASE ResumeAll
  <2>1. TypedFlags'
    BY <1>1 DEF ResumeAll, TypedFlags, serverVars
  <2>2. QED
    BY <1>1, <2>1, UnchangedKeepsType DEF ResumeAll
<1>2. CASE Crash
  <2>1. TypedThreads'
    BY <1>2, ConstantsAssumption DEF Crash, TypedThreads, Steps, Ops
  <2>2. TypedFlags'
    BY <1>2 DEF Crash, TypedFlags
  <2>3. TypedServer'
    BY <1>2, ConstantsAssumption DEF Crash, TypedServer, ConstantsAssumption
  <2>4. QED
    BY <1>2, <2>1, <2>2, <2>3, UnchangedKeepsType DEF Crash
<1>3. CASE Startup
  <2>1. TypedRows'
    BY <1>3 DEF Startup, TypedRows, Statuses, Terminal
  <2>2. TypedThreads'
    <3>1. on' \in [Threads -> Jobs \cup {NoJob}]
      BY <1>3 DEF Startup, Orphans
    <3>2. \A t \in Threads : on'[t] # NoJob => pid'[t] \in Pids \cup {NoPid}
      BY <1>3, <3>1 DEF Startup, TypedRows
    <3>3. pid' \in [Threads -> Pids \cup {NoPid}]
      BY <1>3, <3>2 DEF Startup
    <3>4. QED
      BY <1>3, <3>1, <3>3 DEF Startup, TypedThreads, Steps, Drives, Ops, StartOps
  <2>3. TypedFlags'
    BY <1>3 DEF Startup, TypedFlags
  <2>4. TypedServer'
    BY <1>3 DEF Startup, TypedServer
  <2>5. QED
    BY <1>3, <2>1, <2>2, <2>3, <2>4, UnchangedKeepsType DEF Startup
<1>4. CASE StartupHalted
  <2>1. TypedFlags'
    BY <1>4 DEF StartupHalted, TypedFlags
  <2>2. TypedServer'
    BY <1>4 DEF StartupHalted, TypedServer, Orphans
  <2>3. QED
    BY <1>4, <2>1, <2>2, UnchangedKeepsType DEF StartupHalted
<1>5. QED
  BY <1>1, <1>2, <1>3, <1>4

LEMMA TypeNext == TypeOK /\ [Next]_vars => TypeOK'
<1> SUFFICES ASSUME TypeOK, [Next]_vars PROVE TypeOK'
  OBVIOUS
<1>1. ASSUME NEW t \in Threads, Request(t) PROVE TypeOK'
  BY <1>1, TypeRequest
<1>2. ASSUME NEW t \in Threads, ThreadStep(t) PROVE TypeOK'
  BY <1>2, TypeThreadStep
<1>3. ASSUME NEW t \in Threads, KillStale(t) PROVE TypeOK'
  <2>1. TypedProcs'
    BY <1>3, KillKeepsType, TypeOKGroups DEF KillStale, Typed
  <2>2. QED
    BY <1>3, <2>1, UnchangedKeepsType, TypeOKGroups DEF KillStale, Typed, serverVars
<1>4. ASSUME NEW p \in Pids, AgentStep(p) \/ AgentDies(p) PROVE TypeOK'
  BY <1>4, TypeAgentStep
<1>5. CASE ResumeAll \/ Crash \/ Startup \/ StartupHalted
  BY <1>5, TypeServerStep
<1>6. CASE UNCHANGED vars
  BY <1>6, UnchangedKeepsType, TypeOKGroups DEF vars, Typed, serverVars
<1>7. QED
  BY <1>1, <1>2, <1>3, <1>4, <1>5, <1>6 DEF Next

\* Every reachable state is well typed.
THEOREM TypeCorrect == Spec => []TypeOK
BY TypeInit, TypeNext, PTL DEF Spec

-----------------------------------------------------------------------------
(* No running job is forgotten.  RunningIsOwned is inductive together with *)
(* TypeOK: a goroutine leaves Drives only once the row is terminal or      *)
(* gone, and a row becomes pending or running only in the hands of a       *)
(* goroutine that enters Drives, or stays there, in the same step.         *)

Owns(t, j) == on[t] = j /\ pc[t] \in Drives

\* A step of goroutine t that no owned row is lost in.
HandsOver(t) ==
    /\ \A u \in Threads \ {t} : pc'[u] = pc[u] /\ on'[u] = on[u]
    /\ \A j \in Jobs : status'[j] \in NonTerminal =>
        \/ status[j] \in NonTerminal /\ ~Owns(t, j)
        \/ Owns(t, j)'

LEMMA HandOver ==
    ASSUME RunningIsOwned, NEW t \in Threads, HandsOver(t), UNCHANGED serverVars
    PROVE  RunningIsOwned'
<1> SUFFICES ASSUME serverUp', NEW j \in Jobs \ skipped', status'[j] \in NonTerminal
             PROVE  \E u \in Threads : Owns(u, j)'
  BY DEF RunningIsOwned, Owns
<1>1. CASE Owns(t, j)'
  BY <1>1
<1>2. CASE status[j] \in NonTerminal /\ ~Owns(t, j)
  <2>1. PICK u \in Threads : Owns(u, j)
    BY <1>2 DEF RunningIsOwned, Owns, serverVars
  <2>2. Owns(u, j)'
    BY <1>2, <2>1 DEF HandsOver, Owns
  <2>3. QED
    BY <2>2
<1>3. QED
  BY <1>1, <1>2 DEF HandsOver

LEMMA RequestHandsOver ==
    ASSUME TypeOK, NEW t \in Threads, Request(t)
    PROVE  HandsOver(t) /\ UNCHANGED serverVars
<1> USE DEF HandsOver, Owns, TypeOK, Drives
<1>1. CASE CancelAll(t)
  BY <1>1 DEF CancelAll, rowVars
<1>2. ASSUME NEW i \in Jobs, Create(t, i) PROVE HandsOver(t) /\ UNCHANGED serverVars
  BY <1>2 DEF Create, Begin, rowVars
<1>3. ASSUME NEW i \in Jobs, Retry(t, i) PROVE HandsOver(t) /\ UNCHANGED serverVars
  BY <1>3 DEF Retry, Begin, rowVars
<1>4. ASSUME NEW i \in Jobs, RerunJobAssumptions(t, i) PROVE HandsOver(t) /\ UNCHANGED serverVars
  BY <1>4 DEF RerunJobAssumptions, Begin, rowVars
<1>5. ASSUME NEW i \in Jobs, Refine(t, i) PROVE HandsOver(t) /\ UNCHANGED serverVars
  BY <1>5 DEF Refine, Begin, rowVars
<1>6. ASSUME NEW i \in Jobs, Cancel(t, i) PROVE HandsOver(t) /\ UNCHANGED serverVars
  BY <1>6 DEF Cancel, Begin, rowVars
<1>7. ASSUME NEW i \in Jobs, Delete(t, i) PROVE HandsOver(t) /\ UNCHANGED serverVars
  BY <1>7 DEF Delete, Begin, rowVars
<1>8. QED
  BY <1>1, <1>2, <1>3, <1>4, <1>5, <1>6, <1>7 DEF Request

LEMMA ThreadStepHandsOver ==
    ASSUME TypeOK, NEW t \in Threads, ThreadStep(t)
    PROVE  HandsOver(t) /\ UNCHANGED serverVars
<1> USE DEF HandsOver, Owns, TypeOK, Drives
<1>1. CASE TakeRegenLock(t)
  BY <1>1 DEF TakeRegenLock, Finish, Goto, rowVars
<1>2. CASE ResetRow(t)
  BY <1>2 DEF ResetRow, ResetJobForRetry, SetStatus, Goto
<1>3. CASE MarkStarted(t)
  BY <1>3 DEF MarkStarted, UpdateJobRunning, SetStatus, Goto
<1>4. CASE StartCheck(t)
  BY <1>4 DEF StartCheck, Goto, rowVars
<1>5. CASE Launch(t)
  BY <1>5 DEF Launch, rowVars
<1>6. CASE LaunchFails(t)
  BY <1>6 DEF LaunchFails, Goto, rowVars
<1>7. CASE RecordPid(t)
  BY <1>7 DEF RecordPid, Goto
<1>8. CASE MarkRunning(t)
  BY <1>8 DEF MarkRunning, UpdateJobRunning, SetStatus
<1>9. CASE SeeExit(t)
  BY <1>9 DEF SeeExit, Goto, rowVars
<1>10. CASE CheckGone(t)
  BY <1>10 DEF CheckGone, Finish, rowVars, Exists, NonTerminal, Terminal
<1>11. CASE CheckCancelled(t)
  BY <1>11 DEF CheckCancelled, Finish, Goto, rowVars, NonTerminal
<1>12. CASE CheckClear(t)
  BY <1>12 DEF CheckClear, rowVars
<1>13. CASE Examine(t)
  BY <1>13 DEF Examine, Goto, rowVars
<1>14. CASE MarkDone(t)
  BY <1>14 DEF MarkDone, UpdateJobDone, SetStatus, Exists, NonTerminal, Terminal, Finish
<1>15. CASE MarkFailed(t)
  BY <1>15 DEF MarkFailed, UpdateJobFailed, SetStatus, Exists, NonTerminal, Terminal, Finish
<1>16. CASE MarkCancelled(t)
  BY <1>16 DEF MarkCancelled, UpdateJobCancelled, SetStatus, Exists, NonTerminal, Terminal, Finish
<1>17. CASE Bump(t)
  BY <1>17 DEF Bump, UpdateJobRunning, SetStatus
<1>18. CASE CancelFile(t)
  BY <1>18 DEF CancelFile, Goto, rowVars
<1>19. CASE CancelRow(t)
  BY <1>19 DEF CancelRow, UpdateJobCancelled, SetStatus, Goto, NonTerminal
<1>20. CASE CancelKill(t)
  BY <1>20 DEF CancelKill, Finish, rowVars
<1>21. CASE SweepEnds(t)
  BY <1>21 DEF SweepEnds, Goto, rowVars
<1>22. CASE ReapOrphanAgents(t)
  BY <1>22 DEF ReapOrphanAgents, Finish, rowVars
<1>23. CASE DeleteDir(t)
  BY <1>23 DEF DeleteDir, Goto, rowVars
<1>24. CASE ArchiveAndDeleteJob(t)
  BY <1>24 DEF ArchiveAndDeleteJob, SetStatus, Finish, NonTerminal
<1>25. ASSUME NEW i \in Jobs, SweepJob(t, i)
       PROVE  HandsOver(t) /\ UNCHANGED serverVars
  BY <1>25 DEF SweepJob, rowVars
<1>26. QED
  BY <1>1, <1>2, <1>3, <1>4, <1>5, <1>6, <1>7, <1>8, <1>9, <1>10, <1>11, <1>12,
     <1>13, <1>14, <1>15, <1>16, <1>17, <1>18, <1>19, <1>20, <1>21, <1>22,
     <1>23, <1>24, <1>25 DEF ThreadStep, StartStep, WatchStep, StopStep

\* The agents, a stale kill and ResumeAll touch neither rows nor goroutines.
LEMMA AgentsOwnNothing ==
    ASSUME \/ \E p \in Pids : AgentStep(p) \/ AgentDies(p)
           \/ \E t \in Threads : KillStale(t)
           \/ ResumeAll
           \/ UNCHANGED vars
    PROVE  UNCHANGED <<rowVars, threadVars, serverVars>>
BY DEF AgentStep, AgentMoves, AgentBoot, AgentClaim, AgentBoundary,
       AgentPhaseEnds, AgentReports, AgentFails, AgentExits, AgentDies,
       KillStale, ResumeAll, vars

\* A startup hands every row it leaves pending or running to a watcher.
LEMMA StartupOwns == TypeOK /\ Startup => RunningIsOwned'
<1> SUFFICES ASSUME TypeOK, Startup, NEW j \in Jobs, status'[j] \in NonTerminal
             PROVE  \E t \in Threads : on'[t] = j /\ pc'[t] \in Drives
  BY DEF RunningIsOwned
<1> DEFINE Attached == Orphans \ (NeverBegan \cup Completed)
<1>1. j \in Attached
  BY DEF Startup, TypeOK, Orphans, NonTerminal
<1>2. PICK w \in [Attached -> Threads] :
        /\ \A i, k \in DOMAIN w : w[i] = w[k] => i = k
        /\ on' = [t \in Threads |-> IF \E i \in DOMAIN w : w[i] = t
                                    THEN CHOOSE i \in DOMAIN w : w[i] = t
                                    ELSE NoJob]
  BY DEF Startup
<1>3. on'[w[j]] = j
  BY <1>1, <1>2
<1>4. pc'[w[j]] = "watch"
  BY <1>1, <1>2, <1>3, ConstantsAssumption DEF Startup, ConstantsAssumption
<1>5. QED
  BY <1>1, <1>2, <1>3, <1>4 DEF Drives

LEMMA OwnedNext == TypeOK /\ RunningIsOwned /\ [Next]_vars => RunningIsOwned'
<1> SUFFICES ASSUME TypeOK, RunningIsOwned, [Next]_vars PROVE RunningIsOwned'
  OBVIOUS
<1>1. ASSUME NEW t \in Threads, Request(t) \/ ThreadStep(t) PROVE RunningIsOwned'
  BY <1>1, HandOver, RequestHandsOver, ThreadStepHandsOver
<1>2. CASE \/ \E p \in Pids : AgentStep(p) \/ AgentDies(p)
           \/ \E t \in Threads : KillStale(t)
           \/ ResumeAll
           \/ UNCHANGED vars
  BY <1>2, AgentsOwnNothing DEF RunningIsOwned, rowVars, threadVars, serverVars
<1>3. CASE Crash
  BY <1>3 DEF Crash, RunningIsOwned
<1>4. CASE Startup
  BY <1>4, StartupOwns
<1>5. CASE StartupHalted
  BY <1>5 DEF StartupHalted, RunningIsOwned, Orphans, rowVars, TypeOK
<1>6. QED
  BY <1>1, <1>2, <1>3, <1>4, <1>5 DEF Next

\* Every pending or running row has a goroutine that will settle it, unless the
\* last startup left it alone under STOP_ALL.
THEOREM OwnershipHolds == Spec => []RunningIsOwned
<1>1. Init => RunningIsOwned
  BY DEF Init, RunningIsOwned, NonTerminal
<1>2. QED
  BY <1>1, TypeInit, TypeNext, OwnedNext, PTL DEF Spec

-----------------------------------------------------------------------------
(* A cancel sticks once the job's goroutines have yet to look at the row:  *)
(* each of them then takes the cancelled branch of finalize, no handler    *)
(* but Delete accepts the row, and a restart does not list it.             *)

Waiting == {"watch", "check", "cancelFile", "cancelRow", "cancelKill",
            "deleteDir", "deleteRow"}

\* A step of goroutine t that leaves a settled row settled, or deletes it.
Respects(t) ==
    /\ \A u \in Threads \ {t} : pc'[u] = pc[u] /\ on'[u] = on[u]
    /\ \A j \in Jobs : Settled(j) =>
        \/ status'[j] = "cancelled" /\ (on'[t] = j => pc'[t] \in Waiting)
        \/ status'[j] = "deleted"

LEMMA RespectfulStep ==
    ASSUME NEW t \in Threads, Respects(t), NEW j \in Jobs, Settled(j)
    PROVE  Settled(j)' \/ status'[j] = "deleted"
BY DEF Respects, Settled, Waiting

LEMMA RequestRespects ==
    ASSUME TypeOK, NEW t \in Threads, Request(t)
    PROVE  Respects(t)
<1> USE ConstantsAssumption
    DEF Respects, Settled, Waiting, TypeOK, ConstantsAssumption
<1>1. CASE CancelAll(t)
  BY <1>1 DEF CancelAll, rowVars
<1>2. ASSUME NEW i \in Jobs, Create(t, i) PROVE Respects(t)
  BY <1>2 DEF Create, Begin, rowVars, NonTerminal
<1>3. ASSUME NEW i \in Jobs, Retry(t, i) PROVE Respects(t)
  BY <1>3 DEF Retry, Begin, rowVars, NonTerminal
<1>4. ASSUME NEW i \in Jobs, RerunJobAssumptions(t, i) PROVE Respects(t)
  BY <1>4 DEF RerunJobAssumptions, Begin, rowVars, NonTerminal
<1>5. ASSUME NEW i \in Jobs, Refine(t, i) PROVE Respects(t)
  BY <1>5 DEF Refine, Begin, rowVars, NonTerminal
<1>6. ASSUME NEW i \in Jobs, Cancel(t, i) PROVE Respects(t)
  BY <1>6 DEF Cancel, Begin, rowVars, NonTerminal
<1>7. ASSUME NEW i \in Jobs, Delete(t, i) PROVE Respects(t)
  BY <1>7 DEF Delete, Begin, rowVars, NonTerminal
<1>8. QED
  BY <1>1, <1>2, <1>3, <1>4, <1>5, <1>6, <1>7 DEF Request

LEMMA ThreadStepRespects ==
    ASSUME TypeOK, NEW t \in Threads, ThreadStep(t)
    PROVE  Respects(t)
<1> USE ConstantsAssumption
    DEF Respects, Settled, Waiting, TypeOK, ConstantsAssumption
<1>1. CASE TakeRegenLock(t)
  BY <1>1 DEF TakeRegenLock, Finish, Goto, rowVars
<1>2. CASE ResetRow(t)
  BY <1>2 DEF ResetRow, ResetJobForRetry, SetStatus, Goto
<1>3. CASE MarkStarted(t)
  BY <1>3 DEF MarkStarted, UpdateJobRunning, SetStatus, Goto
<1>4. CASE StartCheck(t)
  BY <1>4 DEF StartCheck, Goto, rowVars
<1>5. CASE Launch(t)
  BY <1>5 DEF Launch, rowVars
<1>6. CASE LaunchFails(t)
  BY <1>6 DEF LaunchFails, Goto, rowVars
<1>7. CASE RecordPid(t)
  BY <1>7 DEF RecordPid, Goto
<1>8. CASE MarkRunning(t)
  BY <1>8 DEF MarkRunning, UpdateJobRunning, SetStatus
<1>9. CASE SeeExit(t)
  BY <1>9 DEF SeeExit, Goto, rowVars
<1>10. CASE CheckGone(t)
  BY <1>10 DEF CheckGone, Finish, rowVars
<1>11. CASE CheckCancelled(t)
  BY <1>11 DEF CheckCancelled, Finish, Goto, rowVars
<1>12. CASE CheckClear(t)
  BY <1>12 DEF CheckClear, CancelSeen, rowVars
<1>13. CASE Examine(t)
  BY <1>13 DEF Examine, Goto, rowVars
<1>14. CASE MarkDone(t)
  BY <1>14 DEF MarkDone, UpdateJobDone, SetStatus, Finish
<1>15. CASE MarkFailed(t)
  BY <1>15 DEF MarkFailed, UpdateJobFailed, SetStatus, Finish
<1>16. CASE MarkCancelled(t)
  BY <1>16 DEF MarkCancelled, UpdateJobCancelled, SetStatus, Finish
<1>17. CASE Bump(t)
  BY <1>17 DEF Bump, UpdateJobRunning, SetStatus
<1>18. CASE CancelFile(t)
  BY <1>18 DEF CancelFile, Goto, rowVars
<1>19. CASE CancelRow(t)
  BY <1>19 DEF CancelRow, UpdateJobCancelled, SetStatus, Goto
<1>20. CASE CancelKill(t)
  BY <1>20 DEF CancelKill, Finish, rowVars
<1>21. CASE SweepEnds(t)
  BY <1>21 DEF SweepEnds, Goto, rowVars
<1>22. CASE ReapOrphanAgents(t)
  BY <1>22 DEF ReapOrphanAgents, Finish, rowVars
<1>23. CASE DeleteDir(t)
  BY <1>23 DEF DeleteDir, Goto, rowVars
<1>24. CASE ArchiveAndDeleteJob(t)
  BY <1>24 DEF ArchiveAndDeleteJob, SetStatus, Finish
<1>25. ASSUME NEW i \in Jobs, SweepJob(t, i) PROVE Respects(t)
  BY <1>25 DEF SweepJob, rowVars, NonTerminal
<1>26. QED
  BY <1>1, <1>2, <1>3, <1>4, <1>5, <1>6, <1>7, <1>8, <1>9, <1>10, <1>11, <1>12,
     <1>13, <1>14, <1>15, <1>16, <1>17, <1>18, <1>19, <1>20, <1>21, <1>22,
     <1>23, <1>24, <1>25 DEF ThreadStep, StartStep, WatchStep, StopStep

\* A restart neither lists a cancelled row nor gives its job a goroutine.
LEMMA RestartRespects ==
    ASSUME TypeOK, Crash \/ Startup \/ StartupHalted, NEW j \in Jobs, Settled(j)
    PROVE  Settled(j)'
<1> USE ConstantsAssumption DEF Settled, ConstantsAssumption
<1>1. CASE Crash
  BY <1>1 DEF Crash, rowVars
<1>2. CASE Startup
  <2>1. j \notin Orphans
    BY DEF Orphans, NonTerminal
  <2>2. status'[j] = "cancelled"
    BY <1>2, <2>1 DEF Startup, NeverBegan, Completed
  <2>3. \A t \in Threads : on'[t] # j
    BY <1>2, <2>1 DEF Startup
  <2>4. QED
    BY <2>2, <2>3
<1>3. CASE StartupHalted
  BY <1>3 DEF StartupHalted, rowVars, threadVars
<1>4. QED
  BY <1>1, <1>2, <1>3

LEMMA CancelNext ==
    ASSUME TypeOK, [Next]_vars
    PROVE  \A j \in Jobs : Settled(j) => Settled(j)' \/ status'[j] = "deleted"
<1> SUFFICES ASSUME NEW j \in Jobs, Settled(j)
             PROVE  Settled(j)' \/ status'[j] = "deleted"
  OBVIOUS
<1>1. ASSUME NEW t \in Threads, Request(t) \/ ThreadStep(t)
      PROVE  Settled(j)' \/ status'[j] = "deleted"
  BY <1>1, RespectfulStep, RequestRespects, ThreadStepRespects
<1>2. CASE \/ \E p \in Pids : AgentStep(p) \/ AgentDies(p)
           \/ \E t \in Threads : KillStale(t)
           \/ ResumeAll
           \/ UNCHANGED vars
  BY <1>2, AgentsOwnNothing DEF Settled, rowVars, threadVars
<1>3. CASE Crash \/ Startup \/ StartupHalted
  BY <1>3, RestartRespects
<1>4. QED
  BY <1>1, <1>2, <1>3 DEF Next

\* A cancel that lands while the watchers poll stays: no watcher, restart,
\* STOP_ALL or ResumeAll makes anything of the row but a deleted one.
THEOREM CancelHolds == Spec => CancelSticks
<1>1. TypeOK /\ [Next]_vars =>
        [\A j \in Jobs : Settled(j) => Settled(j)' \/ status'[j] = "deleted"]_vars
  BY CancelNext
<1>2. QED
  BY <1>1, TypeInit, TypeNext, PTL DEF Spec, CancelSticks

-----------------------------------------------------------------------------
(* What the outcome of a job is worth.                                     *)
(* Between the step of finalize that finds a report and the one that marks *)
(* the row, only a Delete can take the report away, and it archives the    *)
(* row next; an archived row can no longer be marked.                      *)

Backed(j) ==
    \/ j \in report
    \/ status[j] = "deleted"
    \/ \E u \in Threads : on[u] = j /\ pc[u] = "deleteRow"

Earned == \A t \in Threads : \A j \in Jobs :
    on[t] = j => status[j] # "none" /\ (pc[t] = "markDone" => Backed(j))

\* A step of goroutine t that leaves every promised `done` backed.
Earns(t) ==
    /\ \A u \in Threads \ {t} : pc'[u] = pc[u] /\ on'[u] = on[u]
    /\ \A j \in Jobs :
        /\ status[j] = "deleted" => status'[j] = "deleted"
        /\ status[j] # "none" => status'[j] # "none"
        /\ j \in report => j \in report' \/ (on'[t] = j /\ pc'[t] = "deleteRow")
        /\ on[t] = j /\ pc[t] = "deleteRow" => status'[j] = "deleted"
        /\ on'[t] = j => status'[j] # "none"
        /\ on'[t] = j /\ pc'[t] = "markDone" => j \in report'
        /\ status[j] # "done" /\ status'[j] = "done" =>
            on[t] = j /\ pc[t] = "markDone" /\ status[j] # "deleted"

\* The conclusion of DoneIsEarned, as an action.
DoneStep == \A j \in Jobs : status[j] # "done" /\ status'[j] = "done" =>
    j \in report \/ \E t \in Threads : on[t] = j /\ pc[t] = "deleteRow"

LEMMA EarnsStep ==
    ASSUME Earned, NEW t \in Threads, Earns(t)
    PROVE  Earned' /\ DoneStep
<1>1. ASSUME NEW j \in Jobs, Backed(j) PROVE Backed(j)'
  BY <1>1 DEF Backed, Earns
<1>2. Earned'
  <2>1. SUFFICES ASSUME NEW u \in Threads, NEW j \in Jobs, on'[u] = j
                 PROVE  status'[j] # "none" /\ (pc'[u] = "markDone" => Backed(j)')
    BY DEF Earned
  <2>2. CASE u = t
    BY <2>1, <2>2 DEF Earns, Backed
  <2>3. CASE u # t
    BY <1>1, <2>1, <2>3 DEF Earns, Earned
  <2>4. QED
    BY <2>2, <2>3
<1>3. DoneStep
  BY DEF DoneStep, Earns, Earned, Backed
<1>4. QED
  BY <1>2, <1>3

LEMMA RequestEarns ==
    ASSUME TypeOK, Earned, NEW t \in Threads, Request(t)
    PROVE  Earns(t)
<1> USE ConstantsAssumption
    DEF Earns, Earned, TypeOK, ConstantsAssumption, NonTerminal, Terminal
<1>1. CASE CancelAll(t)
  BY <1>1 DEF CancelAll, rowVars, dirVars
<1>2. ASSUME NEW i \in Jobs, Create(t, i) PROVE Earns(t)
  BY <1>2 DEF Create, Begin, rowVars, dirVars
<1>3. ASSUME NEW i \in Jobs, Retry(t, i) PROVE Earns(t)
  BY <1>3 DEF Retry, Begin, rowVars, dirVars
<1>4. ASSUME NEW i \in Jobs, RerunJobAssumptions(t, i) PROVE Earns(t)
  BY <1>4 DEF RerunJobAssumptions, Begin, rowVars, dirVars
<1>5. ASSUME NEW i \in Jobs, Refine(t, i) PROVE Earns(t)
  BY <1>5 DEF Refine, Begin, rowVars, dirVars
<1>6. ASSUME NEW i \in Jobs, Cancel(t, i) PROVE Earns(t)
  BY <1>6 DEF Cancel, Begin, rowVars, dirVars
<1>7. ASSUME NEW i \in Jobs, Delete(t, i) PROVE Earns(t)
  BY <1>7 DEF Delete, Begin, rowVars, dirVars
<1>8. QED
  BY <1>1, <1>2, <1>3, <1>4, <1>5, <1>6, <1>7 DEF Request

LEMMA ThreadStepEarns ==
    ASSUME TypeOK, Earned, NEW t \in Threads, ThreadStep(t)
    PROVE  Earns(t)
<1> USE ConstantsAssumption
    DEF Earns, Earned, TypeOK, ConstantsAssumption, NonTerminal, Terminal,
        Statuses, Exists
<1>1. CASE TakeRegenLock(t)
  BY <1>1 DEF TakeRegenLock, Finish, Goto, rowVars, dirVars
<1>2. CASE ResetRow(t)
  BY <1>2 DEF ResetRow, ResetJobForRetry, UpdateJobPID, SetStatus, Exists, RemoveLock, Goto
<1>3. CASE MarkStarted(t)
  BY <1>3 DEF MarkStarted, UpdateJobRunning, SetStatus, Goto, dirVars
<1>4. CASE StartCheck(t)
  BY <1>4 DEF StartCheck, Goto, rowVars, dirVars
<1>5. CASE Launch(t)
  BY <1>5 DEF Launch, rowVars
<1>6. CASE LaunchFails(t)
  BY <1>6 DEF LaunchFails, Goto, rowVars, dirVars
<1>7. CASE RecordPid(t)
  BY <1>7 DEF RecordPid, Goto, dirVars
<1>8. CASE MarkRunning(t)
  BY <1>8 DEF MarkRunning, UpdateJobRunning, SetStatus, dirVars
<1>9. CASE SeeExit(t)
  BY <1>9 DEF SeeExit, Goto, rowVars, dirVars
<1>10. CASE CheckGone(t)
  BY <1>10 DEF CheckGone, Finish, rowVars, dirVars
<1>11. CASE CheckCancelled(t)
  BY <1>11 DEF CheckCancelled, Finish, Goto, rowVars
<1>12. CASE CheckClear(t)
  BY <1>12 DEF CheckClear, rowVars, dirVars
<1>13. CASE Examine(t)
  BY <1>13 DEF Examine, Goto, rowVars, dirVars
<1>14. CASE MarkDone(t)
  BY <1>14 DEF MarkDone, UpdateJobDone, SetStatus, Exists, NonTerminal, Terminal, Finish, dirVars
<1>15. CASE MarkFailed(t)
  BY <1>15 DEF MarkFailed, UpdateJobFailed, SetStatus, Finish, dirVars
<1>16. CASE MarkCancelled(t)
  BY <1>16 DEF MarkCancelled, UpdateJobCancelled, SetStatus, Finish, dirVars
<1>17. CASE Bump(t)
  BY <1>17 DEF Bump, UpdateJobRunning, SetStatus, RemoveLock
<1>18. CASE CancelFile(t)
  BY <1>18 DEF CancelFile, Goto, rowVars
<1>19. CASE CancelRow(t)
  BY <1>19 DEF CancelRow, UpdateJobCancelled, SetStatus, Goto, dirVars
<1>20. CASE CancelKill(t)
  BY <1>20 DEF CancelKill, Finish, rowVars
<1>21. CASE SweepEnds(t)
  BY <1>21 DEF SweepEnds, Goto, rowVars, dirVars
<1>22. CASE ReapOrphanAgents(t)
  BY <1>22 DEF ReapOrphanAgents, Finish, rowVars, dirVars
<1>23. CASE DeleteDir(t)
  BY <1>23 DEF DeleteDir, Goto, rowVars
<1>24. CASE ArchiveAndDeleteJob(t)
  BY <1>24 DEF ArchiveAndDeleteJob, SetStatus, Finish, dirVars
<1>25. ASSUME NEW i \in Jobs, SweepJob(t, i) PROVE Earns(t)
  BY <1>25 DEF SweepJob, rowVars, dirVars
<1>26. QED
  BY <1>1, <1>2, <1>3, <1>4, <1>5, <1>6, <1>7, <1>8, <1>9, <1>10, <1>11,
     <1>12, <1>13, <1>14, <1>15, <1>16, <1>17, <1>18, <1>19, <1>20, <1>21,
     <1>22, <1>23, <1>24, <1>25
     DEF ThreadStep, StartStep, WatchStep, StopStep

\* Agents add reports and take none; a startup marks only reported jobs.
LEMMA AgentsKeepReports ==
    ASSUME \/ \E p \in Pids : AgentStep(p) \/ AgentDies(p)
           \/ \E t \in Threads : KillStale(t)
           \/ ResumeAll
           \/ UNCHANGED vars
    PROVE  report \subseteq report'
BY DEF AgentStep, AgentMoves, AgentBoot, AgentClaim, AgentBoundary,
       AgentPhaseEnds, AgentReports, AgentFails, AgentExits, AgentDies,
       KillStale, ResumeAll, vars, dirVars

LEMMA StartupEarns == TypeOK /\ Earned /\ Startup => Earned' /\ DoneStep
<1> SUFFICES ASSUME TypeOK, Earned, Startup PROVE Earned' /\ DoneStep
  OBVIOUS
<1>1. Earned'
  <2>1. ASSUME NEW t \in Threads, NEW j \in Jobs, on'[t] = j
        PROVE  status'[j] # "none" /\ pc'[t] # "markDone"
    <3>1. pc'[t] # "markDone"
      BY DEF Startup
    <3>2. j \in Orphans
      BY <2>1, ConstantsAssumption DEF Startup, ConstantsAssumption
    <3>3. QED
      BY <3>1, <3>2 DEF Startup, Orphans, NonTerminal
  <2>2. QED
    BY <2>1 DEF Earned
<1>2. DoneStep
  BY DEF DoneStep, Startup, Completed
<1>3. QED
  BY <1>1, <1>2

LEMMA EarnedNext == TypeOK /\ Earned /\ [Next]_vars => Earned' /\ DoneStep
<1> SUFFICES ASSUME TypeOK, Earned, [Next]_vars PROVE Earned' /\ DoneStep
  OBVIOUS
<1>1. ASSUME NEW t \in Threads, Request(t) \/ ThreadStep(t)
      PROVE  Earned' /\ DoneStep
  BY <1>1, EarnsStep, RequestEarns, ThreadStepEarns
<1>2. CASE \/ \E p \in Pids : AgentStep(p) \/ AgentDies(p)
           \/ \E t \in Threads : KillStale(t)
           \/ ResumeAll
           \/ UNCHANGED vars
  BY <1>2, AgentsOwnNothing, AgentsKeepReports
     DEF Earned, Backed, DoneStep, rowVars, threadVars
<1>3. CASE Crash
  BY <1>3, ConstantsAssumption
     DEF Crash, Earned, DoneStep, rowVars, ConstantsAssumption
<1>4. CASE Startup
  BY <1>4, StartupEarns
<1>5. CASE StartupHalted
  BY <1>5 DEF StartupHalted, Earned, Backed, DoneStep, rowVars, dirVars, threadVars
<1>6. QED
  BY <1>1, <1>2, <1>3, <1>4, <1>5 DEF Next

LEMMA EarnedInit == Init => Earned
BY ConstantsAssumption DEF Init, Earned, ConstantsAssumption

\* No row is marked done on the strength of a report that is not there, except
\* by a finalize that races the Delete which is about to archive the row.
THEOREM DoneHolds == Spec => DoneIsEarned
<1>1. TypeOK /\ Earned /\ [Next]_vars =>
        [\A j \in Jobs : status[j] # "done" /\ status'[j] = "done" =>
            j \in report \/ \E t \in Threads : on[t] = j /\ pc[t] = "deleteRow"]_vars
  BY EarnedNext DEF DoneStep
<1>2. TypeOK /\ Earned /\ [Next]_vars => Earned'
  BY EarnedNext
<1>3. QED
  BY <1>1, <1>2, TypeInit, TypeNext, EarnedInit, PTL DEF Spec, DoneIsEarned

-----------------------------------------------------------------------------
(* The retry budget.  A goroutine that read attempts while the budget was  *)
(* not used up may still increment it, however many others have done so    *)
(* since; no other goroutine can.  So attempts and the number of these     *)
(* goroutines together stay below the budget plus all goroutines: one can  *)
(* join them only while attempts itself is below the budget.               *)

Spends(t, j) ==
    on[t] = j /\ pc[t] \in {"examine", "bump"} /\ seen[t] < MaxAttempts

Spenders(j) == {t \in Threads : Spends(t, j)}

Bound == MaxAttempts + Cardinality(Threads)

Budget ==
    /\ \A j \in Jobs : attempts[j] + Cardinality(Spenders(j)) < Bound
    /\ \A t \in Threads : pc[t] = "bump" => seen[t] < MaxAttempts

LEMMA ThreadCounts ==
    /\ Cardinality(Threads) \in Nat
    /\ \A S \in SUBSET Threads : Cardinality(S) \in 0 .. Cardinality(Threads)
    /\ \A S \in SUBSET Threads : \A t \in Threads \ S :
        Cardinality(S) < Cardinality(Threads)
    /\ \A S \in SUBSET Threads : \A t \in S :
        Cardinality(S \ {t}) = Cardinality(S) - 1
    /\ \A S, T \in SUBSET Threads : S \subseteq T => Cardinality(S) <= Cardinality(T)
<1>1. IsFiniteSet(Threads)
  BY ConstantsAssumption DEF ConstantsAssumption
<1>2. Cardinality(Threads) \in Nat
  BY <1>1, FS_CardinalityType
<1>3. \A S \in SUBSET Threads : IsFiniteSet(S) /\ Cardinality(S) \in Nat
                                /\ Cardinality(S) <= Cardinality(Threads)
  BY <1>1, FS_Subset, FS_CardinalityType
<1>4. \A S, T \in SUBSET Threads : S \subseteq T => Cardinality(S) <= Cardinality(T)
  BY <1>3, FS_Subset
<1>5. \A S \in SUBSET Threads : \A t \in S : Cardinality(S \ {t}) = Cardinality(S) - 1
  BY <1>3, FS_RemoveElement
<1>6. ASSUME NEW S \in SUBSET Threads, NEW t \in Threads \ S
      PROVE  Cardinality(S) < Cardinality(Threads)
  <2>1. Cardinality(S) <= Cardinality(Threads \ {t})
    BY <1>4
  <2>2. Cardinality(Threads \ {t}) = Cardinality(Threads) - 1
    BY <1>5
  <2>3. QED
    BY <1>2, <1>3, <2>1, <2>2
<1>7. QED
  BY <1>2, <1>3, <1>4, <1>5, <1>6

\* A step that neither counts an attempt nor lets a goroutine join the spenders.
Frugal(t) ==
    /\ \A u \in Threads \ {t} : pc'[u] = pc[u] /\ on'[u] = on[u] /\ seen'[u] = seen[u]
    /\ attempts' = attempts
    /\ pc'[t] \in {"examine", "bump"} =>
        pc[t] \in {"examine", "bump"} /\ on'[t] = on[t] /\ seen'[t] = seen[t]
    /\ pc'[t] = "bump" => seen'[t] < MaxAttempts

LEMMA FrugalStep ==
    ASSUME TypeOK, Budget, NEW t \in Threads, Frugal(t)
    PROVE  Budget'
<1>1. ASSUME NEW j \in Jobs
      PROVE  attempts'[j] + Cardinality(Spenders(j)') < Bound
  <2>1. Spenders(j)' \subseteq Spenders(j)
    BY DEF Spenders, Spends, Frugal
  <2>2. Cardinality(Spenders(j)') \in Nat /\ Cardinality(Spenders(j)) \in Nat
        /\ Cardinality(Spenders(j)') <= Cardinality(Spenders(j))
    BY <2>1, ThreadCounts DEF Spenders
  <2>3. attempts[j] \in Nat /\ attempts'[j] = attempts[j] /\ Bound \in Nat
    BY ThreadCounts, ConstantsAssumption
       DEF TypeOK, Frugal, Bound, ConstantsAssumption
  <2>4. QED
    BY <2>2, <2>3 DEF Budget
<1>2. \A u \in Threads : pc'[u] = "bump" => seen'[u] < MaxAttempts
  BY DEF Budget, Frugal
<1>3. QED
  BY <1>1, <1>2 DEF Budget, Bound

LEMMA RequestIsFrugal ==
    ASSUME TypeOK, NEW t \in Threads, Request(t)
    PROVE  Frugal(t)
<1> USE DEF Frugal, TypeOK
<1>1. CASE CancelAll(t)
  BY <1>1 DEF CancelAll, rowVars
<1>2. ASSUME NEW i \in Jobs, Create(t, i) PROVE Frugal(t)
  BY <1>2 DEF Create, Begin, rowVars
<1>3. ASSUME NEW i \in Jobs, Retry(t, i) PROVE Frugal(t)
  BY <1>3 DEF Retry, Begin, rowVars
<1>4. ASSUME NEW i \in Jobs, RerunJobAssumptions(t, i) PROVE Frugal(t)
  BY <1>4 DEF RerunJobAssumptions, Begin, rowVars
<1>5. ASSUME NEW i \in Jobs, Refine(t, i) PROVE Frugal(t)
  BY <1>5 DEF Refine, Begin, rowVars
<1>6. ASSUME NEW i \in Jobs, Cancel(t, i) PROVE Frugal(t)
  BY <1>6 DEF Cancel, Begin, rowVars
<1>7. ASSUME NEW i \in Jobs, Delete(t, i) PROVE Frugal(t)
  BY <1>7 DEF Delete, Begin, rowVars
<1>8. QED
  BY <1>1, <1>2, <1>3, <1>4, <1>5, <1>6, <1>7 DEF Request

LEMMA ThreadStepIsFrugal ==
    ASSUME TypeOK, Budget, NEW t \in Threads, ThreadStep(t),
           ~ResetRow(t), ~CheckClear(t), ~Bump(t)
    PROVE  Frugal(t)
<1> USE DEF Frugal, TypeOK, Budget
<1>1. CASE TakeRegenLock(t)
  BY <1>1 DEF TakeRegenLock, Finish, Goto, rowVars
<1>2. CASE MarkStarted(t)
  BY <1>2 DEF MarkStarted, Goto
<1>3. CASE StartCheck(t)
  BY <1>3 DEF StartCheck, Goto, rowVars
<1>4. CASE Launch(t)
  BY <1>4 DEF Launch, rowVars
<1>5. CASE LaunchFails(t)
  BY <1>5 DEF LaunchFails, Goto, rowVars
<1>6. CASE RecordPid(t)
  BY <1>6 DEF RecordPid, Goto
<1>7. CASE MarkRunning(t)
  BY <1>7 DEF MarkRunning, Goto
<1>8. CASE SeeExit(t)
  BY <1>8 DEF SeeExit, Goto, rowVars
<1>9. CASE CheckGone(t)
  BY <1>9 DEF CheckGone, Finish, rowVars
<1>10. CASE CheckCancelled(t)
  BY <1>10 DEF CheckCancelled, Finish, Goto, rowVars
<1>11. CASE Examine(t)
  BY <1>11 DEF Examine, Goto, rowVars
<1>12. CASE MarkDone(t)
  BY <1>12 DEF MarkDone, Finish
<1>13. CASE MarkFailed(t)
  BY <1>13 DEF MarkFailed, Finish
<1>14. CASE MarkCancelled(t)
  BY <1>14 DEF MarkCancelled, Finish
<1>15. CASE CancelFile(t)
  BY <1>15 DEF CancelFile, Goto, rowVars
<1>16. CASE CancelRow(t)
  BY <1>16 DEF CancelRow, Goto
<1>17. CASE CancelKill(t)
  BY <1>17 DEF CancelKill, Finish, rowVars
<1>18. CASE SweepEnds(t)
  BY <1>18 DEF SweepEnds, Goto, rowVars
<1>19. CASE ReapOrphanAgents(t)
  BY <1>19 DEF ReapOrphanAgents, Finish, rowVars
<1>20. CASE DeleteDir(t)
  BY <1>20 DEF DeleteDir, Goto, rowVars
<1>21. CASE ArchiveAndDeleteJob(t)
  BY <1>21 DEF ArchiveAndDeleteJob, Finish
<1>22. ASSUME NEW i \in Jobs, SweepJob(t, i) PROVE Frugal(t)
  BY <1>22 DEF SweepJob, rowVars
<1>23. QED
  BY <1>1, <1>2, <1>3, <1>4, <1>5, <1>6, <1>7, <1>8, <1>9, <1>10, <1>11,
     <1>12, <1>13, <1>14, <1>15, <1>16, <1>17, <1>18, <1>19, <1>20, <1>21,
     <1>22
     DEF ThreadStep, StartStep, WatchStep, StopStep

\* The counter restarts at 1, and the goroutine that does it spends nothing.
LEMMA ResetRowInBudget ==
    ASSUME TypeOK, Budget, NEW t \in Threads, ResetRow(t)
    PROVE  Budget'
<1> USE DEF TypeOK
<1>1. \A u \in Threads, j \in Jobs : Spends(u, j)' <=> Spends(u, j)
  BY DEF ResetRow, Goto, Spends
<1>2. ASSUME NEW j \in Jobs
      PROVE  attempts'[j] + Cardinality(Spenders(j)') < Bound
  <2>1. Spenders(j)' = Spenders(j)
    BY <1>1 DEF Spenders
  <2>2. attempts'[j] = attempts[j] \/ (on[t] = j /\ attempts'[j] = 1)
    BY DEF ResetRow, ResetJobForRetry
  <2>3. CASE attempts'[j] = attempts[j]
    BY <2>1, <2>3 DEF Budget
  <2>4. CASE attempts'[j] = 1
    <3>1. t \in Threads \ Spenders(j)
      BY DEF Spenders, Spends, ResetRow
    <3>2. Cardinality(Spenders(j)) < Cardinality(Threads)
      BY <3>1, ThreadCounts DEF Spenders
    <3>3. Cardinality(Spenders(j)) \in Nat /\ Cardinality(Threads) \in Nat
      BY ThreadCounts DEF Spenders
    <3>4. QED
      BY <2>1, <2>4, <3>2, <3>3, ConstantsAssumption DEF Bound, ConstantsAssumption
  <2>5. QED
    BY <2>2, <2>3, <2>4
<1>3. \A u \in Threads : pc'[u] = "bump" => seen'[u] < MaxAttempts
  BY DEF ResetRow, Goto, Budget
<1>4. QED
  BY <1>2, <1>3 DEF Budget, Bound

\* A goroutine joins the spenders only while attempts is below the budget.
LEMMA CheckClearInBudget ==
    ASSUME TypeOK, Budget, NEW t \in Threads, CheckClear(t)
    PROVE  Budget'
<1> USE DEF TypeOK
<1>1. ASSUME NEW j \in Jobs
      PROVE  attempts'[j] + Cardinality(Spenders(j)') < Bound
  <2>1. attempts'[j] = attempts[j] /\ attempts[j] \in Nat
    BY DEF CheckClear, rowVars
  <2>2. CASE attempts[j] < MaxAttempts
    <3>1. /\ Cardinality(Spenders(j)') \in Nat /\ Cardinality(Threads) \in Nat
          /\ Cardinality(Spenders(j)') <= Cardinality(Threads)
      BY ThreadCounts DEF Spenders
    <3>2. QED
      BY <2>1, <2>2, <3>1, ConstantsAssumption DEF Bound, ConstantsAssumption
  <2>3. CASE ~(attempts[j] < MaxAttempts)
    <3>1. Spenders(j)' \subseteq Spenders(j)
      BY <2>1, <2>3 DEF CheckClear, Spenders, Spends
    <3>2. /\ Cardinality(Spenders(j)') \in Nat /\ Cardinality(Spenders(j)) \in Nat
          /\ Cardinality(Spenders(j)') <= Cardinality(Spenders(j))
      BY <3>1, ThreadCounts DEF Spenders
    <3>3. Bound \in Nat
      BY ThreadCounts, ConstantsAssumption DEF Bound, ConstantsAssumption
    <3>4. QED
      BY <2>1, <3>2, <3>3 DEF Budget
  <2>4. QED
    BY <2>2, <2>3
<1>2. \A u \in Threads : pc'[u] = "bump" => seen'[u] < MaxAttempts
  BY DEF CheckClear, Budget
<1>3. QED
  BY <1>1, <1>2 DEF Budget, Bound

\* The goroutine that counts an attempt leaves the spenders.
LEMMA BumpInBudget ==
    ASSUME TypeOK, Budget, NEW t \in Threads, Bump(t)
    PROVE  Budget'
<1> USE DEF TypeOK
<1>1. on[t] \in Jobs /\ Spends(t, on[t])
  BY DEF Bump, Budget, Spends
<1>2. ASSUME NEW j \in Jobs
      PROVE  attempts'[j] + Cardinality(Spenders(j)') < Bound
  <2>1. /\ attempts[j] \in Nat /\ Bound \in Nat
        /\ Cardinality(Spenders(j)) \in Nat
    BY ThreadCounts, ConstantsAssumption DEF Spenders, Bound, ConstantsAssumption
  <2>2. CASE j = on[t]
    <3>1. Spenders(j)' = Spenders(j) \ {t}
      BY <2>2 DEF Bump, Spenders, Spends
    <3>2. t \in Spenders(j)
      BY <1>1, <2>2 DEF Spenders
    <3>3. Cardinality(Spenders(j)') = Cardinality(Spenders(j)) - 1
      BY <3>1, <3>2, ThreadCounts DEF Spenders
    <3>4. attempts'[j] \in {attempts[j], attempts[j] + 1}
      BY DEF Bump, IncrementJobAttempts
    <3>5. QED
      BY <2>1, <3>3, <3>4 DEF Budget
  <2>3. CASE j # on[t]
    <3>1. Spenders(j)' = Spenders(j)
      BY <2>3 DEF Bump, Spenders, Spends
    <3>2. attempts'[j] = attempts[j]
      BY <2>3 DEF Bump, IncrementJobAttempts
    <3>3. QED
      BY <3>1, <3>2 DEF Budget
  <2>4. QED
    BY <2>2, <2>3
<1>3. \A u \in Threads : pc'[u] = "bump" => seen'[u] < MaxAttempts
  BY DEF Bump, Budget
<1>4. QED
  BY <1>2, <1>3 DEF Budget, Bound

\* After a crash or a startup no goroutine is about to restart an agent.
LEMMA RestartInBudget ==
    ASSUME TypeOK, Budget, Crash \/ Startup
    PROVE  Budget'
<1>1. \A t \in Threads : pc'[t] \in {"idle", "watch"}
  BY DEF Crash, Startup
<1>2. attempts' = attempts
  BY DEF Crash, Startup, rowVars
<1>3. ASSUME NEW j \in Jobs
      PROVE  attempts'[j] + Cardinality(Spenders(j)') < Bound
  <2>1. Spenders(j)' \subseteq Spenders(j)
    BY <1>1 DEF Spenders, Spends
  <2>2. /\ Cardinality(Spenders(j)') \in Nat /\ Cardinality(Spenders(j)) \in Nat
        /\ Cardinality(Spenders(j)') <= Cardinality(Spenders(j))
    BY <2>1, ThreadCounts DEF Spenders
  <2>3. attempts[j] \in Nat /\ Bound \in Nat
    BY ThreadCounts, ConstantsAssumption DEF TypeOK, Bound, ConstantsAssumption
  <2>4. QED
    BY <1>2, <2>2, <2>3 DEF Budget
<1>4. QED
  BY <1>1, <1>3 DEF Budget, Bound

LEMMA BudgetNext == TypeOK /\ Budget /\ [Next]_vars => Budget'
<1> SUFFICES ASSUME TypeOK, Budget, [Next]_vars PROVE Budget'
  OBVIOUS
<1>1. ASSUME NEW t \in Threads, Request(t) \/ ThreadStep(t) PROVE Budget'
  BY <1>1, FrugalStep, RequestIsFrugal, ThreadStepIsFrugal, ResetRowInBudget,
     CheckClearInBudget, BumpInBudget
<1>2. CASE \/ \E p \in Pids : AgentStep(p) \/ AgentDies(p)
           \/ \E t \in Threads : KillStale(t)
           \/ ResumeAll
           \/ UNCHANGED vars
  BY <1>2, AgentsOwnNothing DEF Budget, Bound, Spenders, Spends, rowVars, threadVars
<1>3. CASE Crash \/ Startup
  BY <1>3, RestartInBudget
<1>4. CASE StartupHalted
  BY <1>4 DEF StartupHalted, Budget, Bound, Spenders, Spends, rowVars, threadVars
<1>5. QED
  BY <1>1, <1>2, <1>3, <1>4 DEF Next

LEMMA BudgetInit == Init => Budget
<1> SUFFICES ASSUME Init PROVE Budget
  OBVIOUS
<1>1. ASSUME NEW j \in Jobs PROVE attempts[j] + Cardinality(Spenders(j)) < Bound
  <2>1. /\ Cardinality(Spenders(j)) \in Nat /\ Cardinality(Threads) \in Nat
        /\ Cardinality(Spenders(j)) <= Cardinality(Threads)
    BY ThreadCounts DEF Spenders
  <2>2. QED
    BY <2>1, ConstantsAssumption DEF Init, Bound, ConstantsAssumption
<1>2. QED
  BY <1>1 DEF Init, Budget

\* Automatic restarts overrun the budget by less than one per goroutine,
\* however the reads and the increments of several watchers interleave.
THEOREM BudgetHolds == Spec => []RetryBudget
<1>1. TypeOK /\ Budget => RetryBudget
  <2>1. SUFFICES ASSUME TypeOK, Budget, NEW j \in Jobs PROVE attempts[j] < Bound
    BY DEF RetryBudget, Bound
  <2>2. attempts[j] \in Nat /\ Cardinality(Spenders(j)) \in Nat /\ Bound \in Nat
    BY <2>1, ThreadCounts, ConstantsAssumption
       DEF TypeOK, Spenders, Bound, ConstantsAssumption
  <2>3. QED
    BY <2>1, <2>2 DEF Budget
<1>2. QED
  BY <1>1, TypeInit, TypeNext, BudgetInit, BudgetNext, PTL DEF Spec
=============================================================================
