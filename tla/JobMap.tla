------------------------------- MODULE JobMap -------------------------------
(***************************************************************************)
(* What `run_download_jobs` and `run_conversion_jobs` promise their caller,*)
(* whatever the threads do: a batch of n jobs is applied, each job once, in*)
(* any order, and the call returns their results in the order of the jobs. *)
(* Nothing here mentions threads, channels or locks; WorkerPool implements *)
(* this module.                                                            *)
(***************************************************************************)
EXTENDS Naturals

CONSTANT MaxJobs   \* bound on the length of a batch

VARIABLES
    phase,     \* "idle": no call in progress, "running", or "returned"
    n,         \* the number of jobs of the call
    finished,  \* the jobs that have produced their result
    results    \* what the call returns, job by job

vars == <<phase, n, finished, results>>

Init ==
    /\ phase = "idle"
    /\ n = 0
    /\ finished = {}
    /\ results = <<>>

\* The call starts; an empty batch returns at once.
Begin(m) ==
    /\ phase = "idle"
    /\ n' = m
    /\ finished' = {}
    /\ phase' = IF m = 0 THEN "returned" ELSE "running"
    /\ UNCHANGED results

Complete(j) ==
    /\ phase = "running"
    /\ j \in (1..n) \ finished
    /\ finished' = finished \cup {j}
    /\ UNCHANGED <<phase, n, results>>

Return ==
    /\ phase = "running"
    /\ finished = 1..n
    /\ phase' = "returned"
    /\ results' = [j \in 1..n |-> j]
    /\ UNCHANGED <<n, finished>>

\* The process that made the call ends, with or without its result.
Gone ==
    /\ phase # "idle"
    /\ phase' = "idle"
    /\ n' = 0
    /\ finished' = {}
    /\ results' = <<>>

Next ==
    \/ \E m \in 0..MaxJobs : Begin(m)
    \/ \E j \in 1..MaxJobs : Complete(j)
    \/ Return
    \/ Gone

Spec == Init /\ [][Next]_vars
=============================================================================
