----------------------------- MODULE WorkerPool -----------------------------
(***************************************************************************)
(* The thread pool that the fetcher (`run_download_jobs`) and the converter*)
(* (`run_conversion_jobs`) each build from std primitives: one job channel *)
(* whose receiver sits behind a mutex, one result channel, n worker threads*)
(* and the main thread.  A worker takes the mutex and blocks in `recv`     *)
(* while holding it; the guard is a temporary of the `let` statement, so it*)
(* is released when `recv` returns and not held while the job is done.     *)
(*                                                                         *)
(* Jobs are their indices 1..njobs; what a job does is the business of the *)
(* modules that use the pool (Fetcher, Converter), which conjoin its       *)
(* actions with their own.                                                 *)
(***************************************************************************)
EXTENDS Naturals, Sequences, FiniteSets, SequencesExt

CONSTANTS
    MaxJobs,      \* bound on the length of the job vector
    Concurrency   \* --download-concurrency / --conversion-concurrency

\* validate_concurrency and validate_conversion_concurrency reject 0.
ASSUME PoolAssumption == MaxJobs \in Nat /\ Concurrency \in Nat \ {0}

Workers == 1..Concurrency
Nobody == 0

VARIABLES
    pmain,      \* the main thread: "idle", "send", "collect" or "returned"
    njobs,      \* jobs.len()
    sent,       \* how many jobs the main thread has sent
    queue,      \* the job channel
    txOpen,     \* job_tx has not been dropped
    rxLock,     \* the worker holding job_rx's mutex, or Nobody
    wpc,        \* each worker: "none" (not spawned), "lock", "recv", "work", "exited"
    hand,       \* the job a worker is working on
    resq,       \* the result channel
    collected   \* what res_rx.iter().collect() has gathered, then sorted

poolVars == <<pmain, njobs, sent, queue, txOpen, rxLock, wpc, hand, resq, collected>>

Jobs == 1..njobs

PoolTypeOK ==
    /\ pmain \in {"idle", "send", "collect", "returned"}
    /\ njobs \in 0..MaxJobs
    /\ sent \in 0..njobs
    /\ queue \in Seq(Jobs)
    /\ txOpen \in BOOLEAN
    /\ rxLock \in Workers \cup {Nobody}
    /\ wpc \in [Workers -> {"none", "lock", "recv", "work", "exited"}]
    /\ hand \in [Workers -> 0..njobs]
    /\ resq \in Seq(Jobs)
    /\ collected \in Seq(Jobs)

PoolInit ==
    /\ pmain = "idle"
    /\ njobs = 0
    /\ sent = 0
    /\ queue = <<>>
    /\ txOpen = FALSE
    /\ rxLock = Nobody
    /\ wpc = [w \in Workers |-> "none"]
    /\ hand = [w \in Workers |-> 0]
    /\ resq = <<>>
    /\ collected = <<>>

\* The call: an empty vector returns at once, otherwise min(concurrency,
\* jobs.len()) threads are spawned and res_tx's original is dropped.
StartPool(n) ==
    /\ pmain = "idle"
    /\ njobs' = n
    /\ pmain' = IF n = 0 THEN "returned" ELSE "send"
    /\ txOpen' = (n # 0)
    /\ wpc' = [w \in Workers |-> IF w <= n THEN "lock" ELSE "none"]
    /\ UNCHANGED <<sent, queue, rxLock, hand, resq, collected>>

\* job_tx.send: the channel is unbounded, the send never blocks.
Send ==
    /\ pmain = "send"
    /\ sent < njobs
    /\ sent' = sent + 1
    /\ queue' = Append(queue, sent + 1)
    /\ UNCHANGED <<pmain, njobs, txOpen, rxLock, wpc, hand, resq, collected>>

\* Fault: job_tx lives until the call returns.
CloseJobsLate ==
    /\ pmain = "send"
    /\ sent = njobs
    /\ pmain' = "collect"
    /\ UNCHANGED <<njobs, sent, queue, txOpen, rxLock, wpc, hand, resq, collected>>

\* drop(job_tx) after the last send.
CloseJobs ==
    /\ pmain = "send"
    /\ sent = njobs
    /\ txOpen' = FALSE
    /\ pmain' = "collect"
    /\ UNCHANGED <<njobs, sent, queue, rxLock, wpc, hand, resq, collected>>

Lock(w) ==
    /\ wpc[w] = "lock"
    /\ rxLock = Nobody
    /\ rxLock' = w
    /\ wpc' = [wpc EXCEPT ![w] = "recv"]
    /\ UNCHANGED <<pmain, njobs, sent, queue, txOpen, hand, resq, collected>>

\* Fault: the job is looked at, and not taken.
RecvPeeks(w) ==
    /\ wpc[w] = "recv"
    /\ queue # <<>>
    /\ hand' = [hand EXCEPT ![w] = Head(queue)]
    /\ rxLock' = Nobody
    /\ wpc' = [wpc EXCEPT ![w] = "work"]
    /\ UNCHANGED <<pmain, njobs, sent, queue, txOpen, resq, collected>>

\* recv returns a job and the guard is dropped.
Recv(w) ==
    /\ wpc[w] = "recv"
    /\ queue # <<>>
    /\ hand' = [hand EXCEPT ![w] = Head(queue)]
    /\ queue' = Tail(queue)
    /\ rxLock' = Nobody
    /\ wpc' = [wpc EXCEPT ![w] = "work"]
    /\ UNCHANGED <<pmain, njobs, sent, txOpen, resq, collected>>

\* Fault: recv_timeout in the place of recv, a worker that gets nothing tries again.
RecvRetries(w) ==
    /\ wpc[w] = "recv"
    /\ queue = <<>>
    /\ rxLock' = Nobody
    /\ wpc' = [wpc EXCEPT ![w] = IF txOpen THEN "lock" ELSE "exited"]
    /\ UNCHANGED <<pmain, njobs, sent, queue, txOpen, hand, resq, collected>>

\* recv fails once the channel is empty and closed; the worker ends and
\* drops its clone of res_tx.
RecvClosed(w) ==
    /\ wpc[w] = "recv"
    /\ queue = <<>>
    /\ ~txOpen
    /\ rxLock' = Nobody
    /\ wpc' = [wpc EXCEPT ![w] = "exited"]
    /\ UNCHANGED <<pmain, njobs, sent, queue, txOpen, hand, resq, collected>>

\* The job is done: its result is sent and the worker loops.
SendResult(w) ==
    /\ wpc[w] = "work"
    /\ resq' = Append(resq, hand[w])
    /\ hand' = [hand EXCEPT ![w] = 0]
    /\ wpc' = [wpc EXCEPT ![w] = "lock"]
    /\ UNCHANGED <<pmain, njobs, sent, queue, txOpen, rxLock, collected>>

Collect ==
    /\ pmain = "collect"
    /\ resq # <<>>
    /\ collected' = Append(collected, Head(resq))
    /\ resq' = Tail(resq)
    /\ UNCHANGED <<pmain, njobs, sent, queue, txOpen, rxLock, wpc, hand>>

Distinct(s) == \A i, j \in DOMAIN s : s[i] = s[j] => i = j

AllExited == \A w \in Workers : wpc[w] \in {"none", "exited"}

\* Fault: the results are returned as they came.
AsCollected(s) == s

\* results.sort_by_key(index): the same results, in increasing index.
ByIndex(s) ==
    CHOOSE t \in [1..Len(s) -> ToSet(s)] :
        /\ ToSet(t) = ToSet(s)
        /\ \A i, j \in 1..Len(s) : i < j => t[i] <= t[j]

\* res_rx is exhausted when it is empty and no worker holds a sender; the
\* results are sorted by index and returned.
ReturnResults ==
    /\ pmain = "collect"
    /\ resq = <<>>
    /\ AllExited
    /\ collected' = ByIndex(collected)
    /\ pmain' = "returned"
    /\ UNCHANGED <<njobs, sent, queue, txOpen, rxLock, wpc, hand, resq>>

\* The process ends, normally or killed: its threads and channels go with it.
PoolGone ==
    /\ pmain # "idle"
    /\ pmain' = "idle"
    /\ njobs' = 0
    /\ sent' = 0
    /\ queue' = <<>>
    /\ txOpen' = FALSE
    /\ rxLock' = Nobody
    /\ wpc' = [w \in Workers |-> "none"]
    /\ hand' = [w \in Workers |-> 0]
    /\ resq' = <<>>
    /\ collected' = <<>>

MainStep == Send \/ CloseJobs \/ Collect \/ ReturnResults
WorkerStep(w) == Lock(w) \/ Recv(w) \/ RecvClosed(w) \/ SendResult(w)

PoolNext ==
    \/ \E n \in 0..MaxJobs : StartPool(n)
    \/ MainStep
    \/ \E w \in Workers : WorkerStep(w)
    \/ PoolGone

PoolSpec == PoolInit /\ [][PoolNext]_poolVars

\* The OS keeps running every runnable thread, and a waiting thread gets the
\* mutex when it stays free (Rust gives no more: std's Mutex is not fair).
PoolFairness ==
    /\ WF_poolVars(MainStep)
    /\ \A w \in Workers : WF_poolVars(WorkerStep(w))

FairPoolSpec == PoolSpec /\ PoolFairness

-----------------------------------------------------------------------------
(* Properties.                                                             *)

Unsent == (sent + 1)..njobs
InHand == {hand[w] : w \in {v \in Workers : wpc[v] = "work"}}

\* No two workers hold the same job and no channel holds a job twice.
NoCopies ==
    /\ \A v, w \in Workers :
          wpc[v] = "work" /\ wpc[w] = "work" /\ hand[v] = hand[w] => v = w
    /\ Distinct(queue) /\ Distinct(resq) /\ Distinct(collected)

\* The five places a job can be (not sent, in the job channel, with a worker,
\* in the result channel, collected) partition the jobs.
Partition ==
    /\ Unsent \cup ToSet(queue) \cup InHand \cup ToSet(resq) \cup ToSet(collected) = Jobs
    /\ Unsent \cap (ToSet(queue) \cup InHand \cup ToSet(resq) \cup ToSet(collected)) = {}
    /\ ToSet(queue) \cap (InHand \cup ToSet(resq) \cup ToSet(collected)) = {}
    /\ InHand \cap (ToSet(resq) \cup ToSet(collected)) = {}
    /\ ToSet(resq) \cap ToSet(collected) = {}

\* No job is lost and none is done twice, whatever the interleaving of main
\* and workers: every job of the vector is in exactly one place
\* (run_download_jobs, run_conversion_jobs).
ExactlyOnce == NoCopies /\ Partition

\* A worker leaves the pool only when nothing remains to be taken: no exit can
\* strand a job in the channel (drop(job_tx) comes after the last send).
ExitOnlyWhenDrained ==
    (\E w \in Workers : wpc[w] = "exited") => sent = njobs /\ queue = <<>>

\* What the caller sees of the main thread.
AbstractPhase ==
    IF pmain \in {"send", "collect"} THEN "running" ELSE pmain

\* A worker is not held up by the mutex or the channel.
CanStep(w) ==
    \/ wpc[w] = "lock" /\ rxLock = Nobody
    \/ wpc[w] = "recv" /\ (queue # <<>> \/ ~txOpen)
    \/ wpc[w] = "work"

\* The threads of a call never all wait for each other: while main waits for a
\* result or for the last worker to leave (res_rx.iter()), some worker can go
\* on, although one may block in recv with the mutex that the others want.
NeverStuck ==
    pmain = "collect" /\ resq = <<>> /\ ~AllExited => \E w \in Workers : CanStep(w)

WorkersAt(place) == {w \in Workers : wpc[w] = place}

MainLeft == IF pmain = "send" THEN 2 ELSE IF pmain = "collect" THEN 1 ELSE 0

\* The steps that a call has left: a job is sent, received after a lock, done and
\* collected, a worker locks once more and leaves, main drops job_tx and returns.
StepsLeft ==
    5 * (njobs - sent) + 4 * Len(queue) + 4 * Cardinality(WorkersAt("work"))
    + 2 * Cardinality(WorkersAt("lock")) + Cardinality(WorkersAt("recv")) + Len(resq) + MainLeft

\* Whoever runs, every step of a call is one of those that it has left: in no order
\* do the threads spin, or make each other do something again.
CallAdvances ==
    [][AbstractPhase = "running" /\ pmain' # "idle" => StepsLeft' = StepsLeft - 1]_poolVars

\* A call that starts returns, unless the process ends: workers that block in
\* recv with the mutex held never keep the others from finishing.
CallReturns == (pmain = "send") ~> (pmain \in {"returned", "idle"})

\* What has been collected is the caller's once it is sorted.
Returned == IF pmain = "returned" THEN collected ELSE <<>>

Batch == INSTANCE JobMap WITH
    phase <- AbstractPhase,
    n <- njobs,
    finished <- ToSet(resq) \cup ToSet(collected),
    results <- Returned

\* Every step of the pool is a step of the abstract batch or a stutter: however
\* the workers finish, the call returns every result, in discovery order.
ImplementsBatch == Batch!Spec
=============================================================================
