---------------------------- MODULE Recalculation ----------------------------
(***************************************************************************)
(* The requests that rebuild the report of a finished job -- regenerate,   *)
(* recalculate, re-run with other assumptions -- and regenLocks, the mutex *)
(* and the set of job ids that are meant to keep two of them from working  *)
(* in one job directory.  What they do there is left out.                  *)
(***************************************************************************)

CONSTANTS
    Jobs,      \* ids of done jobs
    Requests   \* goroutines that serve a request

VARIABLES
    mu,       \* regenLocks.mu is locked (a sync.Mutex: by whom is no matter)
    m,        \* regenLocks.m: ids of the jobs somebody works on
    pc, on, kind

vars == <<mu, m, pc, on, kind>>

Kinds == {"regenerate", "recalculate", "rerun"}

-----------------------------------------------------------------------------
\* The checks before the lock have passed; the next statement is mu.Lock().
Arrive(r, j, k) ==
    /\ pc[r] = "idle"
    /\ pc'   = [pc EXCEPT ![r] = "lock"]
    /\ on'   = [on EXCEPT ![r] = j]
    /\ kind' = [kind EXCEPT ![r] = k]
    /\ UNCHANGED <<mu, m>>

LockMu(r) ==
    /\ pc[r] = "lock"
    /\ ~mu
    /\ mu' = TRUE
    /\ pc' = [pc EXCEPT ![r] = "claim"]
    /\ UNCHANGED <<m, on, kind>>

\* Somebody works on this job: unlock, and answer 409.
Refuse(r) ==
    /\ pc[r] = "claim"
    /\ on[r] \in m
    /\ mu' = FALSE
    /\ pc' = [pc EXCEPT ![r] = "idle"]
    /\ UNCHANGED <<m, on, kind>>

\* RerunJobAssumptions unlocks the mutex here; RegenerateReport and Recalculate
\* go on with the mutex locked.
Claim(r) ==
    /\ pc[r] = "claim"
    /\ on[r] \notin m
    /\ m'  = m \cup {on[r]}
    /\ mu' = (kind[r] # "rerun")
    /\ pc' = [pc EXCEPT ![r] = "work"]
    /\ UNCHANGED <<on, kind>>

\* The handler returns, on whichever path; its deferred function is next.
Return(r) ==
    /\ pc[r] = "work"
    /\ pc' = [pc EXCEPT ![r] = "release"]
    /\ UNCHANGED <<mu, m, on, kind>>

\* The deferred function locks the mutex, deletes the id, and unlocks.
Release(r) ==
    /\ pc[r] = "release"
    /\ ~mu
    /\ m'  = m \ {on[r]}
    /\ pc' = [pc EXCEPT ![r] = "idle"]
    /\ UNCHANGED <<mu, on, kind>>

-----------------------------------------------------------------------------
Init ==
    /\ mu = FALSE
    /\ m = {}
    /\ pc = [r \in Requests |-> "idle"]
    /\ on = [r \in Requests |-> CHOOSE j \in Jobs : TRUE]
    /\ kind = [r \in Requests |-> "regenerate"]

Serve(r) == LockMu(r) \/ Refuse(r) \/ Claim(r) \/ Return(r) \/ Release(r)

Next == \E r \in Requests :
    Serve(r) \/ \E j \in Jobs, k \in Kinds : Arrive(r, j, k)

\* Goroutines that can run do; a waiter on a sync.Mutex is not starved.
FairSpec ==
    /\ Init /\ [][Next]_vars
    /\ \A r \in Requests : WF_vars(Serve(r)) /\ SF_vars(LockMu(r)) /\ SF_vars(Release(r))

-----------------------------------------------------------------------------
\* handler.go:41 "regenLocks serializes per-job report regeneration so only one
\* runs at a time": one after the other, so whoever runs also comes to an end.
RequestEnds == \A r \in Requests : pc[r] = "work" ~> pc[r] = "idle"
=============================================================================
