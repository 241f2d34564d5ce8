---------------------------- MODULE JobLifecycle ----------------------------
(***************************************************************************)
(* What TaskScheduler promises its callers (scheduler.rs), without threads,*)
(* locks, pauses or prompts: a job is submitted once, claimed by a worker  *)
(* at most once, its body begins at most once, it ends at most once with   *)
(* one result, and once the scheduler is closed no job is claimed any more.*)
(***************************************************************************)
CONSTANTS Jobs, Results

VARIABLES
    phase,    \* how far each job is
    outcome,  \* the result it reported, "none" before that
    closed    \* the scheduler was dropped

lifecycleVars == <<phase, outcome, closed>>

LifecycleInit ==
    /\ phase = [j \in Jobs |-> "new"]
    /\ outcome = [j \in Jobs |-> "none"]
    /\ closed = FALSE

Submit(j) ==
    /\ phase[j] = "new" /\ ~closed
    /\ phase' = [phase EXCEPT ![j] = "queued"]
    /\ UNCHANGED <<outcome, closed>>

Claim(j) ==
    /\ phase[j] = "queued" /\ ~closed
    /\ phase' = [phase EXCEPT ![j] = "claimed"]
    /\ UNCHANGED <<outcome, closed>>

Begin(j) ==
    /\ phase[j] = "claimed"
    /\ phase' = [phase EXCEPT ![j] = "running"]
    /\ UNCHANGED <<outcome, closed>>

\* A job that was cancelled in the queue ends without a body.
Skip(j) ==
    /\ phase[j] = "claimed"
    /\ phase' = [phase EXCEPT ![j] = "done"]
    /\ outcome' = [outcome EXCEPT ![j] = "Cancelled"]
    /\ UNCHANGED closed

End(j) ==
    /\ phase[j] = "running"
    /\ phase' = [phase EXCEPT ![j] = "done"]
    /\ \E r \in Results : outcome' = [outcome EXCEPT ![j] = r]
    /\ UNCHANGED closed

Close ==
    /\ closed' = TRUE
    /\ UNCHANGED <<phase, outcome>>

LifecycleNext ==
    \/ \E j \in Jobs : Submit(j) \/ Claim(j) \/ Begin(j) \/ Skip(j) \/ End(j)
    \/ Close

LifecycleSpec == LifecycleInit /\ [][LifecycleNext]_lifecycleVars
=============================================================================
