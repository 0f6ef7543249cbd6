---------------------------- MODULE FetcherProofs ---------------------------
(***************************************************************************)
(* Proofs about Fetcher, for every set of names, sources and listings and  *)
(* every concurrency: the stage uses the pool as WorkerPool describes it,  *)
(* so that what is proved of the pool holds here, and its counters add up. *)
(***************************************************************************)
EXTENDS Fetcher, WorkerPoolProofs

Steps == {"check", "get", "open", "fill", "done"}
Outcomes == {"none", "present", "fetched", "failed"}

-----------------------------------------------------------------------------
(* The inductive invariant.                                                *)

\* The types of the stage's own variables.
OwnTypes ==
    /\ raw \in [Names -> FileState] /\ shared \subseteq Names
    /\ fetch \in [by : 0..MaxRuns, torn : BOOLEAN, items : Seq(Names)]
    /\ run \in 0..MaxRuns /\ dry \in BOOLEAN
    /\ mpc \in {"off", "list", "pool", "write", "writing"}
    /\ src \in 0..Sources
    /\ jobs \in Seq([name : Names, existed : BOOLEAN]) /\ Len(jobs) <= MaxJobs
    /\ wpos \in [Workers -> Steps]
    /\ res \in [1..MaxJobs -> Outcomes]
    /\ count \in [{"downloaded", "skipped", "failed"} -> 0..MaxJobs]
    /\ exit \in {"none", "ok", "error", "killed"}

\* Each source adds no more links than its share of MaxJobs.
BoundInv == Sources * Len(jobs) <= src * MaxJobs

\* Where main is, and what it has asked of the pool.
PhaseInv ==
    /\ mpc \in {"off", "list"} <=> pmain = "idle"
    /\ mpc \in {"pool", "write", "writing"} => njobs = Len(jobs)
    /\ mpc \in {"write", "writing"} => pmain = "returned"
    /\ exit = "ok" => mpc = "off"

\* Once the results are counted each is in one counter.
CountInv ==
    mpc \in {"write", "writing"} \/ exit = "ok" =>
        dry \/ count.downloaded + count.skipped + count.failed = Len(jobs)

FetchInv == PoolInv /\ InOrder /\ OwnTypes /\ BoundInv /\ PhaseInv /\ CountInv

LEMMA InitFetch == Init => FetchInv
<1> SUFFICES ASSUME Init  PROVE FetchInv
    OBVIOUS
<1>1. PoolInv
    BY InitInv DEF Init
<1>2. InOrder
    BY DEF Init, PoolInit, InOrder
<1>3. OwnTypes
  <2>1. /\ raw \in [Names -> FileState] /\ shared \subseteq Names
        /\ wpos \in [Workers -> Steps] /\ res \in [1..MaxJobs -> Outcomes]
      BY DEF Init, FileState, Steps, Outcomes, NoResults
  <2>2. fetch \in [by : 0..MaxRuns, torn : BOOLEAN, items : Seq(Names)]
      BY FetcherAssumption DEF Init
  <2>3. count \in [{"downloaded", "skipped", "failed"} -> 0..MaxJobs]
    <3>1. 0 \in 0..MaxJobs
        BY PoolAssumption
    <3> QED BY <3>1 DEF Init, NoCount
  <2>4. jobs \in Seq([name : Names, existed : BOOLEAN]) /\ Len(jobs) <= MaxJobs
      BY PoolAssumption DEF Init
  <2>5. run \in 0..MaxRuns
      BY FetcherAssumption DEF Init
  <2>6. src \in 0..Sources
      BY FetcherAssumption DEF Init
  <2> QED BY <2>1, <2>2, <2>3, <2>4, <2>5, <2>6 DEF Init, OwnTypes
<1>4. BoundInv /\ PhaseInv /\ CountInv
    BY FetcherAssumption, PoolAssumption DEF Init, PoolInit, BoundInv, PhaseInv, CountInv
<1> QED BY <1>1, <1>2, <1>3, <1>4 DEF FetchInv

-----------------------------------------------------------------------------
(* The stage's steps are steps of the pool, or none of its business.       *)

LEMMA JobsFit ==
    ASSUME NEW S \in Nat, NEW n \in Nat, NEW M \in Nat, S * n <= S * M, S # 0
    PROVE  n <= M
<1>1. CASE n > M
  <2>1. S * n = S * M + S * (n - M)
      OBVIOUS
  <2>2. S * (n - M) >= S
      BY <1>1
  <2> QED BY <2>1, <2>2
<1> QED BY <1>1

LEMMA FetchUsesPool ==
    ASSUME OwnTypes, [Next]_vars
    PROVE  [PoolNext]_poolVars
<1>1. CASE StartJobs
  <2>1. Len(jobs) \in 0..MaxJobs
      BY PoolAssumption DEF OwnTypes
  <2> QED BY <1>1, <2>1 DEF StartJobs, PoolNext
<1>2. CASE PoolMain
    BY <1>2 DEF PoolMain, PoolNext
<1>3. CASE FillManifest \/ MainFails \/ Kill
    BY <1>3 DEF FillManifest, MainFails, Kill, PoolNext
<1>4. ASSUME NEW w \in Workers, PoolWorker(w)  PROVE PoolNext
    BY <1>4 DEF PoolWorker, PoolNext, WorkerStep
<1>5. ASSUME NEW w \in Workers, Download(w)  PROVE UNCHANGED poolVars
    BY <1>5 DEF Download, CheckFile, Get, Open, Fill, InDownload
<1>6. CASE StartRun \/ ListSource \/ CountResults \/ TruncateManifest
    BY <1>6 DEF StartRun, ListSource, CountResults, TruncateManifest
<1>7. CASE UNCHANGED vars
    BY <1>7 DEF vars
<1> QED BY <1>1, <1>2, <1>3, <1>4, <1>5, <1>6, <1>7 DEF Next, Main, Worker

\* What the pool's invariant becomes, in every step of the stage.
LEMMA PoolKept ==
    ASSUME FetchInv, [Next]_vars
    PROVE  PoolInv' /\ InOrder'
BY FetchUsesPool, StepInv, StepInOrder DEF FetchInv

\* The variables that main alone changes stay as they are while workers work.
LEMMA WorkersKeepMain ==
    ASSUME FetchInv, NEW w \in Workers, Worker(w)
    PROVE  /\ UNCHANGED mainVars /\ UNCHANGED fetch
           /\ pmain' = pmain /\ njobs' = njobs /\ collected' = collected
BY DEF Worker, Download, CheckFile, Get, Open, Fill, InDownload, PoolWorker, Lock, Recv,
       RecvClosed, SendResult, poolVars, mainVars, fileVars

\* A worker works on a link of this run.
LEMMA WorkOnLink ==
    ASSUME FetchInv, NEW w \in Workers, wpc[w] = "work"
    PROVE  /\ hand[w] \in 1..MaxJobs /\ hand[w] \in DOMAIN jobs /\ Name(w) \in Names
           /\ mpc = "pool"
<1>1. hand[w] \in 1..njobs /\ pmain \in {"send", "collect"} /\ njobs \in 0..MaxJobs
    BY HandIsJob DEF FetchInv, Jobs, PoolInv, PoolTypeOK
<1>2. mpc = "pool" /\ njobs = Len(jobs)
    BY <1>1 DEF FetchInv, PhaseInv, OwnTypes
<1>3. jobs \in Seq([name : Names, existed : BOOLEAN])
    BY DEF FetchInv, OwnTypes
<1>4. DOMAIN jobs = 1..njobs
    BY <1>2, <1>3
<1>5. jobs[hand[w]] \in [name : Names, existed : BOOLEAN]
  <2>1. hand[w] \in 1..Len(jobs)
      BY <1>1, <1>2
  <2> QED BY <1>3, <2>1, ElementOfSeq
<1>6. hand[w] \in 1..MaxJobs
    BY <1>1, PoolAssumption
<1> QED BY <1>1, <1>2, <1>4, <1>5, <1>6 DEF Name

LEMMA WorkerFetch ==
    ASSUME FetchInv, NEW w \in Workers, Worker(w)
    PROVE  OwnTypes' /\ BoundInv' /\ PhaseInv' /\ CountInv'
<1>1. /\ UNCHANGED mainVars /\ UNCHANGED fetch
      /\ pmain' = pmain /\ njobs' = njobs
    BY WorkersKeepMain
<1>2. BoundInv' /\ PhaseInv' /\ CountInv'
    BY <1>1 DEF FetchInv, BoundInv, PhaseInv, CountInv, mainVars
<1>3. CASE Download(w)
  <2>1. wpc[w] = "work"
      BY <1>3 DEF Download, CheckFile, Get, Open, Fill, At
  <2>2. hand[w] \in 1..MaxJobs /\ Name(w) \in Names
      BY <2>1, WorkOnLink
  <2>3. /\ raw \in [Names -> FileState] /\ shared \subseteq Names
        /\ wpos \in [Workers -> Steps] /\ res \in [1..MaxJobs -> Outcomes]
      BY DEF FetchInv, OwnTypes
  <2>4. wpos' \in [Workers -> Steps]
      BY <1>3, <2>3 DEF Download, CheckFile, Get, Open, Fill, Goto, Steps
  <2>5. res' \in [1..MaxJobs -> Outcomes]
      BY <1>3, <2>3 DEF Download, CheckFile, Get, Open, Fill, Result, Outcomes
  <2>6. raw' \in [Names -> FileState]
      BY <1>3, <2>3 DEF Download, CheckFile, Get, Open, Fill, Written, FileState
  <2>7. shared' \subseteq Names
      BY <1>3, <2>2, <2>3 DEF Download, CheckFile, Get, Open, Fill
  <2> QED BY <1>1, <1>2, <2>4, <2>5, <2>6, <2>7 DEF FetchInv, OwnTypes, mainVars
<1>4. CASE PoolWorker(w)
  <2>1. /\ raw' = raw /\ shared' = shared /\ res' = res
        /\ wpos' = [wpos EXCEPT ![w] = "check"]
      BY <1>4 DEF PoolWorker, fileVars
  <2>2. wpos' \in [Workers -> Steps]
      BY <2>1 DEF FetchInv, OwnTypes, Steps
  <2> QED BY <1>1, <1>2, <2>1, <2>2 DEF FetchInv, OwnTypes, mainVars
<1> QED BY <1>2, <1>3, <1>4 DEF Worker

-----------------------------------------------------------------------------
(* The steps of main.                                                      *)

\* A run begins, or ends before its time, with nothing in hand.
LEMMA ClearTypes ==
    ASSUME OwnTypes, ClearLocals
    PROVE  /\ src' = 0 /\ jobs' = <<>> /\ shared' = {} /\ src' \in 0..Sources
           /\ jobs' \in Seq([name : Names, existed : BOOLEAN]) /\ Len(jobs') = 0
           /\ Len(jobs') <= MaxJobs
           /\ wpos' \in [Workers -> Steps] /\ res' \in [1..MaxJobs -> Outcomes]
           /\ Sources * Len(jobs') <= src' * MaxJobs
<1>1. /\ src' = 0 /\ jobs' = <<>> /\ shared' = {}
      /\ wpos' \in [Workers -> Steps] /\ res' \in [1..MaxJobs -> Outcomes]
    BY DEF ClearLocals, NoResults, Steps, Outcomes
<1>2. Len(<<>>) = 0 /\ <<>> \in Seq([name : Names, existed : BOOLEAN])
    OBVIOUS
<1> QED BY <1>1, <1>2, FetcherAssumption, PoolAssumption

LEMMA StartRunFetch ==
    ASSUME FetchInv, StartRun
    PROVE  OwnTypes' /\ BoundInv' /\ PhaseInv' /\ CountInv'
<1>1. /\ run' \in 0..MaxRuns /\ dry' \in BOOLEAN /\ mpc = "off" /\ mpc' = "list"
      /\ exit' = "none" /\ raw' = raw /\ fetch' = fetch /\ pmain' = pmain
      /\ ClearLocals
    BY FetcherAssumption DEF FetchInv, OwnTypes, StartRun, poolVars
<1>2. count' \in [{"downloaded", "skipped", "failed"} -> 0..MaxJobs]
  <2>1. 0 \in 0..MaxJobs
      BY PoolAssumption
  <2> QED BY <2>1 DEF StartRun, NoCount
<1>3. OwnTypes'
    BY <1>1, <1>2, ClearTypes DEF FetchInv, OwnTypes
<1>4. BoundInv'
    BY <1>1, ClearTypes DEF FetchInv, BoundInv
<1>5. PhaseInv' /\ CountInv'
    BY <1>1 DEF FetchInv, PhaseInv, CountInv
<1> QED BY <1>3, <1>4, <1>5

LEMMA BreaksFetch ==
    ASSUME FetchInv, MainFails \/ Kill
    PROVE  OwnTypes' /\ BoundInv' /\ PhaseInv' /\ CountInv'
<1>1. /\ mpc' = "off" /\ exit' \in {"error", "killed"} /\ pmain' = "idle"
      /\ raw' = raw /\ fetch' = fetch /\ run' = run /\ dry' = dry /\ count' = count
      /\ ClearLocals
    BY DEF MainFails, Kill, PoolGone, poolVars
<1>2. OwnTypes'
    BY <1>1, ClearTypes DEF FetchInv, OwnTypes
<1>3. BoundInv'
    BY <1>1, ClearTypes DEF FetchInv, BoundInv
<1>4. PhaseInv' /\ CountInv'
    BY <1>1 DEF FetchInv, PhaseInv, CountInv
<1> QED BY <1>2, <1>3, <1>4

\* One more source, within its share.
LEMMA ShareAdds ==
    ASSUME NEW S \in Nat, NEW n \in Nat, NEW l \in Nat, NEW k \in Nat, NEW M \in Nat,
           S * n <= k * M, S * l <= M
    PROVE  S * (n + l) <= (k + 1) * M
<1>1. S * (n + l) = S * n + S * l /\ (k + 1) * M = k * M + M
    OBVIOUS
<1>2. S * n \in Nat /\ S * l \in Nat /\ k * M \in Nat
    OBVIOUS
<1> QED BY <1>1, <1>2

LEMMA ShareFits ==
    ASSUME NEW S \in Nat, NEW n \in Nat, NEW k \in Nat, NEW M \in Nat,
           S * n <= k * M, k <= S, S # 0
    PROVE  n <= M
<1>1. k * M <= S * M
    OBVIOUS
<1>2. S * n \in Nat /\ k * M \in Nat /\ S * M \in Nat
    OBVIOUS
<1>3. S * n <= S * M
    BY <1>1, <1>2
<1> QED BY <1>3, JobsFit

LEMMA ListSourceFetch ==
    ASSUME FetchInv, ListSource
    PROVE  OwnTypes' /\ BoundInv' /\ PhaseInv' /\ CountInv'
<1> DEFINE Link == [name : Names, existed : BOOLEAN]
<1>1. PICK l \in Listings \cup {<<>>} :
          jobs' = jobs \o [i \in 1..Len(l) |-> [name |-> l[i], existed |-> Exists(l[i])]]
    BY DEF ListSource
<1>2. l \in Seq(Names) /\ Sources * Len(l) <= MaxJobs
  <2>1. CASE l \in Listings
      BY <2>1, FetcherAssumption
  <2>2. CASE l = <<>>
    <3>1. Len(l) = 0 /\ l \in Seq(Names)
        BY <2>2
    <3> QED BY <3>1, FetcherAssumption, PoolAssumption
  <2> QED BY <2>1, <2>2
<1>3. PICK m \in Nat : m = Len(l)
    BY <1>2
<1> DEFINE new == [i \in 1..m |-> [name |-> l[i], existed |-> Exists(l[i])]]
<1>4. new \in Seq(Link) /\ Len(new) = m
  <2>1. \A i \in 1..m : l[i] \in Names
      BY <1>2, <1>3, ElementOfSeq
  <2>2. \A i \in 1..m : [name |-> l[i], existed |-> Exists(l[i])] \in Link
      BY <2>1 DEF Exists
  <2>3. new \in [1..m -> Link]
      BY <2>2
  <2> HIDE DEF new, Link
  <2> QED BY <1>3, <2>3
<1>5. jobs \in Seq(Link) /\ jobs' = jobs \o new
    BY <1>1, <1>3 DEF FetchInv, OwnTypes
<1> HIDE DEF new, Link
<1>6. jobs' \in Seq(Link) /\ Len(jobs') = Len(jobs) + m /\ Len(jobs) \in Nat
  <2>1. Len(jobs) \in Nat
      BY <1>5, LenProperties
  <2>2. jobs \o new \in Seq(Link) /\ Len(jobs \o new) = Len(jobs) + Len(new)
      BY <1>4, <1>5, ConcatProperties
  <2> QED BY <1>4, <1>5, <2>1, <2>2
<1>7. /\ mpc = "list" /\ src \in Nat /\ src < Sources /\ src' = src + 1
      /\ UNCHANGED <<poolVars, fileVars, run, dry, mpc, count, exit, wpos, res>>
    BY FetcherAssumption DEF FetchInv, OwnTypes, ListSource
<1>8. Sources \in Nat /\ MaxJobs \in Nat
    BY FetcherAssumption, PoolAssumption
<1>9. BoundInv'
  <2>1. PICK n \in Nat : n = Len(jobs)
      BY <1>6
  <2>2. Sources * n <= src * MaxJobs /\ Sources * m <= MaxJobs
      BY <1>2, <1>3, <2>1 DEF FetchInv, BoundInv
  <2>3. Sources * (n + m) <= (src + 1) * MaxJobs
      BY <1>7, <1>8, <2>2, ShareAdds
  <2> QED BY <1>6, <1>7, <2>1, <2>3 DEF BoundInv
<1>10. Len(jobs') <= MaxJobs
  <2>1. PICK n \in Nat : n = Len(jobs')
      BY <1>6
  <2>2. PICK k \in Nat : k = src'
      BY <1>7
  <2>3. Sources * n <= k * MaxJobs /\ k <= Sources /\ Sources # 0
      BY <1>7, <1>8, <1>9, <2>1, <2>2 DEF BoundInv
  <2> QED BY <1>8, <2>1, <2>3, ShareFits
<1>11. src' \in 0..Sources
    BY <1>7, <1>8
<1>12. OwnTypes'
    BY <1>6, <1>7, <1>10, <1>11 DEF FetchInv, OwnTypes, Link, fileVars
<1>13. PhaseInv' /\ CountInv'
    BY <1>7 DEF FetchInv, PhaseInv, CountInv, poolVars
<1> QED BY <1>9, <1>12, <1>13

LEMMA StartJobsFetch ==
    ASSUME FetchInv, StartJobs
    PROVE  OwnTypes' /\ BoundInv' /\ PhaseInv' /\ CountInv'
<1>1. /\ mpc = "list" /\ mpc' = "pool" /\ njobs' = Len(jobs) /\ pmain' # "idle"
      /\ UNCHANGED <<fileVars, run, dry, src, jobs, count, exit, wpos, res>>
    BY DEF StartJobs, StartPool
<1>2. OwnTypes' /\ BoundInv'
    BY <1>1 DEF FetchInv, OwnTypes, BoundInv, fileVars
<1>3. PhaseInv' /\ CountInv'
    BY <1>1 DEF FetchInv, PhaseInv, CountInv
<1> QED BY <1>2, <1>3

LEMMA PoolMainFetch ==
    ASSUME FetchInv, PoolMain
    PROVE  OwnTypes' /\ BoundInv' /\ PhaseInv' /\ CountInv'
<1>1. /\ mpc = "pool" /\ njobs' = njobs /\ pmain # "idle" /\ pmain' # "idle"
      /\ UNCHANGED <<fileVars, mainVars, wpos, res>>
    BY DEF PoolMain, MainStep, Send, CloseJobs, Collect, ReturnResults
<1>2. OwnTypes' /\ BoundInv'
    BY <1>1 DEF FetchInv, OwnTypes, BoundInv, fileVars, mainVars
<1>3. PhaseInv' /\ CountInv'
    BY <1>1 DEF FetchInv, PhaseInv, CountInv, mainVars
<1> QED BY <1>2, <1>3

\* Three parts that make up a finite set.
LEMMA ThreeParts ==
    ASSUME NEW D, IsFiniteSet(D), NEW A \in SUBSET D, NEW B \in SUBSET D, NEW C \in SUBSET D,
           A \cup B \cup C = D, A \cap B = {}, A \cap C = {}, B \cap C = {}
    PROVE  Cardinality(A) + Cardinality(B) + Cardinality(C) = Cardinality(D)
<1>1. /\ IsFiniteSet(A) /\ IsFiniteSet(B) /\ IsFiniteSet(C)
      /\ Cardinality(A) \in Nat /\ Cardinality(B) \in Nat /\ Cardinality(C) \in Nat
    BY FS_Subset, FS_CardinalityType
<1>2. /\ IsFiniteSet(A \cup B)
      /\ Cardinality(A \cup B) = Cardinality(A) + Cardinality(B) - Cardinality(A \cap B)
    BY <1>1, FS_Union
<1>3. Cardinality(D) = Cardinality(A \cup B) + Cardinality(C) - Cardinality((A \cup B) \cap C)
  <2>1. (A \cup B) \cup C = D
      OBVIOUS
  <2> QED BY <1>1, <1>2, <2>1, FS_Union
<1>4. Cardinality(A \cap B) = 0 /\ Cardinality((A \cup B) \cap C) = 0
  <2>1. A \cap B = {} /\ (A \cup B) \cap C = {}
      OBVIOUS
  <2> QED BY <2>1, FS_EmptySet
<1> QED BY <1>1, <1>2, <1>3, <1>4

\* The counting loop of main: every result gets into one counter of a real run.
LEMMA CountResultsFetch ==
    ASSUME FetchInv, CountResults
    PROVE  OwnTypes' /\ BoundInv' /\ PhaseInv' /\ CountInv'
<1> DEFINE Kind(kind) == {i \in DOMAIN collected : Counted(collected[i]) = kind}
<1>1. /\ mpc = "pool" /\ pmain = "returned" /\ mpc' = "write"
      /\ count' = [kind \in DOMAIN count |-> Cardinality(Kind(kind))]
      /\ UNCHANGED <<poolVars, fileVars, run, dry, src, jobs, exit, wpos, res>>
    BY DEF CountResults, Tally
<1>2. PICK n \in Nat : n = njobs /\ n = Len(jobs) /\ n <= MaxJobs
    BY <1>1, PoolAssumption DEF FetchInv, PhaseInv, PoolInv, PoolTypeOK
<1>3. DOMAIN collected = 1..n
    BY <1>1, <1>2 DEF FetchInv, InOrder
<1>4. IsFiniteSet(1..n) /\ Cardinality(1..n) = n
    BY FS_Interval
<1>5. \A kind : Kind(kind) \in SUBSET (1..n)
    BY <1>3
<1>6. ASSUME NEW kind  PROVE Cardinality(Kind(kind)) \in 0..MaxJobs
  <2>1. Cardinality(Kind(kind)) \in Nat /\ Cardinality(Kind(kind)) <= n
      BY <1>4, <1>5, FS_Subset, FS_CardinalityType
  <2> QED BY <1>2, <2>1, PoolAssumption
<1>7. count' \in [{"downloaded", "skipped", "failed"} -> 0..MaxJobs]
    BY <1>1, <1>6 DEF FetchInv, OwnTypes
<1>8. OwnTypes' /\ BoundInv'
    BY <1>1, <1>7 DEF FetchInv, OwnTypes, BoundInv, fileVars
<1>9. PhaseInv'
    BY <1>1 DEF FetchInv, PhaseInv, poolVars
<1>10. ASSUME ~dry
       PROVE  /\ Kind("downloaded") \cup Kind("skipped") \cup Kind("failed") = 1..n
              /\ Kind("downloaded") \cap Kind("skipped") = {}
              /\ Kind("downloaded") \cap Kind("failed") = {}
              /\ Kind("skipped") \cap Kind("failed") = {}
  <2>1. \A j : Counted(j) \in {"downloaded", "skipped", "failed"}
      BY <1>10 DEF Counted
  <2> QED BY <1>3, <2>1
<1>11. ~dry => Cardinality(Kind("downloaded")) + Cardinality(Kind("skipped"))
               + Cardinality(Kind("failed")) = n
  <2> SUFFICES ASSUME ~dry
               PROVE  Cardinality(Kind("downloaded")) + Cardinality(Kind("skipped"))
                      + Cardinality(Kind("failed")) = n
      OBVIOUS
  <2>1. /\ Kind("downloaded") \in SUBSET (1..n) /\ Kind("skipped") \in SUBSET (1..n)
        /\ Kind("failed") \in SUBSET (1..n)
      BY <1>5
  <2>2. /\ Kind("downloaded") \cup Kind("skipped") \cup Kind("failed") = 1..n
        /\ Kind("downloaded") \cap Kind("skipped") = {}
        /\ Kind("downloaded") \cap Kind("failed") = {}
        /\ Kind("skipped") \cap Kind("failed") = {}
      BY <1>10
  <2> HIDE DEF Kind
  <2> QED BY <1>4, <2>1, <2>2, ThreeParts
<1>12. /\ count'.downloaded = Cardinality(Kind("downloaded"))
       /\ count'.skipped = Cardinality(Kind("skipped"))
       /\ count'.failed = Cardinality(Kind("failed"))
    BY <1>1 DEF FetchInv, OwnTypes
<1>13. CountInv'
    BY <1>1, <1>2, <1>11, <1>12 DEF CountInv
<1> QED BY <1>8, <1>9, <1>13

LEMMA ManifestFetch ==
    ASSUME FetchInv, TruncateManifest \/ FillManifest
    PROVE  OwnTypes' /\ BoundInv' /\ PhaseInv' /\ CountInv'
<1>1. CASE TruncateManifest
  <2>1. /\ mpc = "write" /\ mpc' = "writing" /\ fetch' = [fetch EXCEPT !.torn = TRUE]
        /\ UNCHANGED <<poolVars, raw, shared, run, dry, src, jobs, count, exit, wpos, res>>
      BY <1>1 DEF TruncateManifest
  <2>2. OwnTypes' /\ BoundInv'
      BY <2>1 DEF FetchInv, OwnTypes, BoundInv
  <2>3. PhaseInv' /\ CountInv'
      BY <2>1 DEF FetchInv, PhaseInv, CountInv, poolVars
  <2> QED BY <2>2, <2>3
<1>2. CASE FillManifest
  <2>1. /\ mpc = "writing" /\ mpc' = "off" /\ exit' = "ok" /\ pmain' = "idle"
        /\ UNCHANGED <<raw, shared, run, dry, src, jobs, count, wpos, res>>
        /\ fetch' = [by |-> run, torn |-> FALSE,
                     items |-> [i \in 1..Len(collected) |-> jobs[collected[i]].name]]
      BY <1>2 DEF FillManifest, PoolGone
  <2>2. [i \in 1..Len(collected) |-> jobs[collected[i]].name] \in Seq(Names)
    <3>1. PICK n \in Nat : n = njobs /\ n = Len(jobs)
        BY <2>1 DEF FetchInv, PhaseInv, PoolInv, PoolTypeOK
    <3>2. collected \in Seq(1..n) /\ jobs \in Seq([name : Names, existed : BOOLEAN])
        BY <3>1 DEF FetchInv, PoolInv, PoolTypeOK, Jobs, OwnTypes
    <3>3. PICK m \in Nat : m = Len(collected)
        BY <3>2, LenProperties
    <3>4. \A i \in 1..m : collected[i] \in 1..n
        BY <3>2, <3>3, ElementOfSeq
    <3>5. \A j \in 1..n : jobs[j] \in [name : Names, existed : BOOLEAN]
        BY <3>1, <3>2, ElementOfSeq
    <3>6. [i \in 1..m |-> jobs[collected[i]].name] \in [1..m -> Names]
        BY <3>4, <3>5
    <3> QED BY <3>3, <3>6
  <2>3. OwnTypes' /\ BoundInv'
      BY <2>1, <2>2 DEF FetchInv, OwnTypes, BoundInv
  <2>4. PhaseInv' /\ CountInv'
      BY <2>1 DEF FetchInv, PhaseInv, CountInv
  <2> QED BY <2>3, <2>4
<1> QED BY <1>1, <1>2

-----------------------------------------------------------------------------
(* The outcomes of the jobs.                                               *)

\* The results are being, or have been, counted and written.
Counting == mpc \in {"write", "writing"} \/ exit = "ok"

\* A job has an outcome exactly when its worker has left download_file; after
\* the counting loop each has one, and files_failed = 0 means none is "failed".
OutcomeInv ==
    /\ \A j \in Pending : res[j] = "none"
    /\ \A w \in Workers : wpc[w] = "work" => (res[hand[w]] = "none" <=> wpos[w] # "done")
    /\ \A j \in Finished : res[j] # "none"
    /\ mpc = "list" => res = NoResults /\ shared = {}
    /\ Counting => \A j \in DOMAIN jobs :
                      res[j] # "none" /\ (count.failed = 0 => res[j] # "failed")

\* The links of the run are the jobs of the pool.
LEMMA LinksAreJobs ==
    ASSUME FetchInv, mpc \in {"pool", "write", "writing"}
    PROVE  DOMAIN jobs = Jobs /\ Jobs \subseteq 1..MaxJobs
<1>1. njobs = Len(jobs) /\ njobs \in 0..MaxJobs
    BY DEF FetchInv, PhaseInv, PoolInv, PoolTypeOK
<1>2. jobs \in Seq([name : Names, existed : BOOLEAN])
    BY DEF FetchInv, OwnTypes
<1>3. DOMAIN jobs = 1..njobs
    BY <1>1, <1>2
<1> QED BY <1>1, <1>3, PoolAssumption DEF Jobs

LEMMA InitOutcome == Init => OutcomeInv
<1> SUFFICES ASSUME Init  PROVE OutcomeInv
    OBVIOUS
<1>1. Pending = {} /\ Finished = {} /\ (\A w \in Workers : wpc[w] = "none")
    BY IdlePool DEF Init
<1> QED BY <1>1 DEF Init, OutcomeInv, Counting

\* The end of the process, wherever it comes.
LEMMA BreaksOutcome ==
    ASSUME FetchInv, MainFails \/ Kill
    PROVE  OutcomeInv'
<1>1. Pending' = {} /\ Finished' = {} /\ (\A w \in Workers : wpc'[w] = "none")
    BY EndMoves DEF FetchInv, MainFails, Kill
<1>2. mpc' = "off" /\ exit' # "ok"
    BY DEF MainFails, Kill
<1> QED BY <1>1, <1>2 DEF OutcomeInv, Counting

\* The counting loop has every result before it.
LEMMA CountOutcome ==
    ASSUME FetchInv, OutcomeInv, CountResults
    PROVE  OutcomeInv'
<1>1. /\ mpc = "pool" /\ pmain = "returned" /\ mpc' = "write" /\ exit' = exit
      /\ UNCHANGED <<poolVars, jobs, wpos, res, dry>>
      /\ count' = [kind \in DOMAIN count |-> Tally(kind)]
    BY DEF CountResults
<1>2. DOMAIN jobs = Jobs /\ Finished = Jobs
    BY <1>1, LinksAreJobs, ReturnedFinished DEF FetchInv
<1>3. collected = [i \in 1..njobs |-> i] /\ njobs \in Nat
    BY <1>1, PoolAssumption DEF FetchInv, InOrder, PoolInv, PoolTypeOK
<1>4. ASSUME count'.failed = 0, NEW j \in Jobs  PROVE res[j] # "failed"
  <2> DEFINE F == {i \in DOMAIN collected : Counted(collected[i]) = "failed"}
  <2>1. Cardinality(F) = 0
      BY <1>1, <1>4 DEF Tally, FetchInv, OwnTypes
  <2>2. IsFiniteSet(F)
    <3>1. IsFiniteSet(1..njobs) /\ F \subseteq 1..njobs
        BY <1>3, FS_Interval
    <3> QED BY <3>1, FS_Subset
  <2>3. F = {}
      BY <2>1, <2>2, FS_EmptySet
  <2>4. j \in DOMAIN collected /\ collected[j] = j
      BY <1>3 DEF Jobs
  <2>5. Counted(j) # "failed"
      BY <2>3, <2>4
  <2> QED BY <2>5 DEF Counted
<1>5. Pending' = Pending /\ Finished' = Finished
    BY <1>1 DEF poolVars, Pending, Finished, Unsent
<1> QED BY <1>1, <1>2, <1>4, <1>5 DEF OutcomeInv, poolVars

\* The other steps of main.
LEMMA MainOutcome ==
    ASSUME FetchInv, OutcomeInv,
           StartRun \/ ListSource \/ StartJobs \/ PoolMain \/ TruncateManifest \/ FillManifest
    PROVE  OutcomeInv'
<1>1. CASE StartRun
  <2>1. /\ pmain = "idle" /\ UNCHANGED poolVars /\ mpc' = "list" /\ exit' = "none"
        /\ res' = NoResults /\ shared' = {}
      BY <1>1 DEF StartRun, ClearLocals, FetchInv, PhaseInv
  <2>2. Pending' = {} /\ Finished' = {} /\ (\A w \in Workers : wpc'[w] = "none")
      BY <2>1, EndMoves DEF FetchInv
  <2> QED BY <2>1, <2>2 DEF OutcomeInv, Counting
<1>2. CASE ListSource
  <2>1. /\ mpc = "list" /\ UNCHANGED <<poolVars, fileVars, mpc, exit, wpos, res>>
        /\ exit # "ok"
      BY <1>2 DEF ListSource, FetchInv, PhaseInv
  <2>2. Pending' = Pending /\ Finished' = Finished
      BY <2>1 DEF poolVars, Pending, Finished, Unsent
  <2> QED BY <2>1, <2>2 DEF OutcomeInv, Counting, poolVars, fileVars
<1>3. CASE StartJobs
  <2>1. /\ mpc = "list" /\ mpc' = "pool" /\ UNCHANGED <<exit, wpos, res>> /\ exit # "ok"
        /\ res = NoResults
      BY <1>3 DEF StartJobs, FetchInv, PhaseInv, OutcomeInv
  <2>2. StartPool(Len(jobs)) /\ Len(jobs) \in 0..MaxJobs
    <3>1. PICK n \in Nat : n = Len(jobs)
        BY DEF FetchInv, OwnTypes
    <3> QED BY <1>3, <3>1, PoolAssumption DEF StartJobs, FetchInv, OwnTypes
  <2>3. Finished' = {} /\ (\A w \in Workers : wpc'[w] # "work")
      BY <2>2, StartMoves DEF FetchInv
  <2>4. Pending' \subseteq 1..MaxJobs
    <3>1. sent' \in Nat /\ queue' = <<>> /\ njobs' \in 0..MaxJobs
      <4>1. PoolInit
          BY <2>2 DEF StartPool, FetchInv, PoolInv, MainInv
      <4> QED BY <2>2, <4>1 DEF StartPool, PoolInit
    <3>2. Unsent' \subseteq 1..MaxJobs
      <4>1. PICK s \in Nat, n \in Nat : s = sent' /\ n = njobs' /\ n <= MaxJobs
          BY <3>1, PoolAssumption
      <4>2. ASSUME NEW j \in (s + 1)..n  PROVE j \in 1..MaxJobs
        <5>1. j \in Int /\ s + 1 <= j /\ j <= n
            OBVIOUS
        <5>2. n <= MaxJobs /\ MaxJobs \in Nat
            BY <4>1, PoolAssumption
        <5> QED BY <5>1, <5>2
      <4> QED BY <4>1, <4>2 DEF Unsent
    <3> QED BY <3>1, <3>2, EmptyToSet DEF Pending
  <2> QED BY <2>1, <2>3, <2>4 DEF OutcomeInv, Counting, NoResults
<1>4. CASE PoolMain
  <2>1. /\ mpc = "pool" /\ UNCHANGED <<mpc, exit, wpos, res>> /\ exit # "ok"
      BY <1>4 DEF PoolMain, FetchInv, PhaseInv, mainVars
  <2>2. Pending' \subseteq Pending /\ Finished' \subseteq Finished /\ wpc' = wpc /\ hand' = hand
      BY <1>4, MainMoves DEF PoolMain, FetchInv
  <2> QED BY <2>1, <2>2 DEF OutcomeInv, Counting
<1>5. CASE TruncateManifest
  <2>1. /\ mpc = "write" /\ mpc' = "writing"
        /\ UNCHANGED <<poolVars, jobs, count, exit, wpos, res>>
      BY <1>5 DEF TruncateManifest
  <2>2. Pending' = Pending /\ Finished' = Finished
      BY <2>1 DEF poolVars, Pending, Finished, Unsent
  <2> QED BY <2>1, <2>2 DEF OutcomeInv, Counting, poolVars
<1>6. CASE FillManifest
  <2>1. mpc = "writing" /\ mpc' = "off" /\ UNCHANGED <<jobs, count, res>>
      BY <1>6 DEF FillManifest
  <2>2. Pending' = {} /\ Finished' = {} /\ (\A w \in Workers : wpc'[w] = "none")
      BY <1>6, EndMoves DEF FillManifest, FetchInv
  <2> QED BY <2>1, <2>2 DEF OutcomeInv, Counting
<1> QED BY <1>1, <1>2, <1>3, <1>4, <1>5, <1>6

\* A worker gives its own job an outcome, on its way out of download_file.
LEMMA WorkerOutcome ==
    ASSUME FetchInv, OutcomeInv, NEW w \in Workers, Worker(w)
    PROVE  OutcomeInv'
<1>1. UNCHANGED <<mpc, exit, jobs, count>>
    BY WorkersKeepMain DEF mainVars
<1>2. wpos \in [Workers -> Steps] /\ res \in [1..MaxJobs -> Outcomes]
    BY DEF FetchInv, OwnTypes
<1>3. CASE Download(w)
  <2>1. wpc[w] = "work" /\ UNCHANGED poolVars
      BY <1>3 DEF Download, CheckFile, Get, Open, Fill, At, InDownload
  <2>2. /\ mpc = "pool" /\ exit # "ok" /\ hand[w] \in 1..MaxJobs
        /\ hand[w] \notin Pending /\ hand[w] \notin Finished
        /\ \A v \in Workers : wpc[v] = "work" /\ hand[v] = hand[w] => v = w
      BY <2>1, WorkOnLink, HandIsAlone DEF FetchInv, PhaseInv
  <2>3. Pending' = Pending /\ Finished' = Finished /\ wpc' = wpc /\ hand' = hand
      BY <2>1 DEF poolVars, Pending, Finished, Unsent
  <2>4. /\ \A j \in 1..MaxJobs \ {hand[w]} : res'[j] = res[j]
        /\ \A v \in Workers \ {w} : wpos'[v] = wpos[v]
        /\ res'[hand[w]] = "none" <=> wpos'[w] # "done"
    <3>1. res[hand[w]] = "none" /\ wpos[w] # "done"
        BY <1>3, <2>1 DEF Download, CheckFile, Get, Open, Fill, At, OutcomeInv
    <3> QED BY <1>2, <1>3, <2>2, <3>1 DEF Download, CheckFile, Get, Open, Fill, Goto, Result
  <2>5. Pending \subseteq 1..MaxJobs /\ Finished \subseteq 1..MaxJobs
      BY <2>2, PendingOrFinished, LinksAreJobs DEF FetchInv
  <2>6. \A v \in Workers : wpc[v] = "work" => hand[v] \in 1..MaxJobs
      BY WorkOnLink
  <2> QED BY <1>1, <2>2, <2>3, <2>4, <2>5, <2>6 DEF OutcomeInv, Counting
<1>4. CASE PoolWorker(w)
  <2>1. /\ UNCHANGED <<shared, res>> /\ \A v \in Workers \ {w} : wpos'[v] = wpos[v]
        /\ wpos'[w] = "check"
      BY <1>2, <1>4 DEF PoolWorker, fileVars
  <2>2. CASE Lock(w) \/ Recv(w) \/ RecvClosed(w)
    <3>1. /\ Pending' \subseteq Pending /\ Finished' = Finished
          /\ \A v \in Workers \ {w} : wpc'[v] = wpc[v] /\ hand'[v] = hand[v]
          /\ wpc'[w] = "work" => hand'[w] \in Pending
        BY <2>2, TakeMoves DEF FetchInv
    <3> QED BY <1>1, <2>1, <3>1 DEF OutcomeInv, Counting
  <2>3. CASE SendResult(w) /\ wpos[w] = "done"
    <3>1. /\ Pending' = Pending /\ Finished' = Finished \cup {hand[w]}
          /\ \A v \in Workers \ {w} : wpc'[v] = wpc[v] /\ hand'[v] = hand[v]
          /\ wpc[w] = "work" /\ wpc'[w] = "lock"
        BY <2>3, GiveMoves DEF FetchInv
    <3> QED BY <1>1, <2>1, <2>3, <3>1 DEF OutcomeInv, Counting
  <2> QED BY <1>4, <2>2, <2>3 DEF PoolWorker
<1> QED BY <1>3, <1>4 DEF Worker

LEMMA StepOutcome ==
    ASSUME FetchInv, OutcomeInv, [Next]_vars
    PROVE  OutcomeInv'
<1>1. CASE UNCHANGED vars
    BY <1>1 DEF vars, poolVars, fileVars, mainVars, OutcomeInv, Counting, Pending, Finished,
                Unsent
<1> QED BY <1>1, MainOutcome, CountOutcome, BreaksOutcome, WorkerOutcome DEF Next, Main

-----------------------------------------------------------------------------
(* The files.                                                              *)

\* Between its look at the file and the end of its write, a worker whose link
\* is listed once finds the file as it left it.
OneWriter(w) ==
    /\ wpos[w] \in {"get", "open"} => ~dry /\ (Contended(Name(w)) \/ raw[Name(w)] = "absent")
    /\ wpos[w] = "fill" => ~dry /\ (Contended(Name(w)) \/ raw[Name(w)] = "broken")

Filling(j) == \E w \in Workers : At(w, "fill") /\ hand[w] = j

\* The first run finds nothing on disk: a job without an outcome has no file
\* but the one being written, and only a dry run finds one "present".
FirstRun(j) ==
    /\ res[j] = "none" => raw[jobs[j].name] = "absent" \/ Filling(j)
    /\ res[j] = "present" => dry

\* What a job's outcome says of its file, unless another job writes it too.
JobFile(j) ==
    Contended(jobs[j].name) \/
        /\ res[j] = "fetched" => raw[jobs[j].name] = "whole"
        /\ run = 1 => FirstRun(j)

Untouched == raw = [n \in Names |-> "absent"]

FileInv ==
    /\ \A n \in shared : Contended(n)
    /\ \A w \in Workers : wpc[w] = "work" => OneWriter(w)
    /\ \A j \in DOMAIN jobs : JobFile(j)
    /\ run = 0 => mpc = "off" /\ Untouched
    /\ run = 1 /\ mpc = "list" => Untouched
    /\ exit = "ok" => ~fetch.torn /\ fetch.items = [j \in 1..Len(jobs) |-> jobs[j].name]

DirInv == FetchInv /\ OutcomeInv /\ FileInv

LEMMA InitFile == Init => FileInv
<1> SUFFICES ASSUME Init  PROVE FileInv
    OBVIOUS
<1>1. \A w \in Workers : wpc[w] = "none"
    BY IdlePool DEF Init
<1>2. DOMAIN jobs = {}
    BY DEF Init
<1> QED BY <1>1, <1>2 DEF Init, FileInv, Untouched

\* Workers on one name work on two links, so that the name is listed twice.
LEMMA TwoOnOneName ==
    ASSUME FetchInv, NEW v \in Workers, NEW w \in Workers, v # w,
           wpc[v] = "work", wpc[w] = "work", Name(v) = Name(w)
    PROVE  Contended(Name(w))
<1>1. hand[v] # hand[w]
    BY HandIsAlone DEF FetchInv
<1>2. hand[v] \in DOMAIN jobs /\ hand[w] \in DOMAIN jobs
    BY WorkOnLink
<1> QED BY <1>1, <1>2 DEF Contended, Name

\* A link of a list that fits has a number and a name.
LEMMA LinkOf ==
    ASSUME NEW s \in Seq([name : Names, existed : BOOLEAN]), Len(s) <= MaxJobs,
           NEW j \in DOMAIN s
    PROVE  j \in 1..MaxJobs /\ s[j].name \in Names
<1>1. PICK n \in Nat : n = Len(s) /\ n <= MaxJobs /\ DOMAIN s = 1..n
    BY LenProperties
<1>2. s[j] \in [name : Names, existed : BOOLEAN]
    BY <1>1, ElementOfSeq
<1> QED BY <1>1, <1>2, PoolAssumption

\* The end of the process: what it had in hand is gone, the files stay.
LEMMA BreaksFile ==
    ASSUME DirInv, MainFails \/ Kill
    PROVE  FileInv'
<1>1. \A w \in Workers : wpc'[w] = "none"
    BY EndMoves DEF DirInv, FetchInv, MainFails, Kill
<1>2. /\ mpc # "off" /\ mpc' = "off" /\ exit' # "ok" /\ run' = run
      /\ shared' = {} /\ jobs' = <<>>
    BY DEF MainFails, Kill, ClearLocals
<1>3. DOMAIN jobs' = {}
    BY <1>2
<1> QED BY <1>1, <1>2, <1>3 DEF DirInv, FileInv

LEMMA ListFile ==
    ASSUME DirInv, StartRun \/ ListSource
    PROVE  FileInv'
<1>1. CASE StartRun
  <2>1. /\ run \in Nat /\ run' = run + 1 /\ exit' = "none" /\ raw' = raw
        /\ shared' = {} /\ jobs' = <<>> /\ pmain = "idle" /\ UNCHANGED poolVars
      BY <1>1, FetcherAssumption DEF StartRun, ClearLocals, DirInv, FetchInv, OwnTypes, PhaseInv
  <2>2. \A w \in Workers : wpc'[w] = "none"
      BY <2>1, EndMoves DEF DirInv, FetchInv
  <2>3. DOMAIN jobs' = {}
      BY <2>1
  <2>4. run' # 0 /\ (run' = 1 => run = 0)
      BY <2>1
  <2> QED BY <2>1, <2>2, <2>3, <2>4 DEF DirInv, FileInv, Untouched
<1>2. CASE ListSource
  <2>1. /\ mpc = "list" /\ pmain = "idle" /\ exit # "ok"
        /\ UNCHANGED <<poolVars, fileVars, run, dry, mpc, exit, res>>
        /\ res = NoResults /\ shared = {} /\ OwnTypes'
      BY <1>2, ListSourceFetch DEF ListSource, DirInv, FetchInv, PhaseInv, OutcomeInv
  <2>2. \A w \in Workers : wpc'[w] = "none"
      BY <2>1, EndMoves DEF DirInv, FetchInv
  <2>3. ASSUME NEW j \in DOMAIN jobs'  PROVE j \in 1..MaxJobs /\ jobs'[j].name \in Names
    <3>1. jobs' \in Seq([name : Names, existed : BOOLEAN]) /\ Len(jobs') <= MaxJobs
        BY <2>1 DEF OwnTypes
    <3> QED BY <3>1, LinkOf
  <2>4. ASSUME NEW j \in DOMAIN jobs'  PROVE JobFile(j)'
    <3>1. res'[j] = "none"
        BY <2>1, <2>3 DEF NoResults
    <3>2. run = 1 => raw[jobs'[j].name] = "absent"
        BY <2>1, <2>3 DEF DirInv, FileInv, Untouched
    <3> QED BY <2>1, <3>1, <3>2 DEF JobFile, FirstRun, fileVars
  <2> QED BY <2>1, <2>2, <2>4 DEF DirInv, FileInv, Untouched, fileVars
<1> QED BY <1>1, <1>2

\* The steps of main between the listing and the manifest leave files,
\* outcomes and hands alone.
LEMMA QuietFile ==
    ASSUME DirInv, StartJobs \/ PoolMain \/ CountResults \/ TruncateManifest \/ UNCHANGED vars
    PROVE  FileInv'
<1>1. CASE StartJobs
  <2>1. /\ mpc = "list" /\ exit # "ok" /\ mpc' = "pool"
        /\ UNCHANGED <<raw, shared, run, dry, jobs, exit, res>>
        /\ res = NoResults /\ shared = {}
      BY <1>1 DEF StartJobs, DirInv, FetchInv, PhaseInv, OutcomeInv, fileVars
  <2>2. \A w \in Workers : wpc'[w] # "work"
    <3>1. PICK n \in Nat : n = Len(jobs) /\ n <= MaxJobs
        BY DEF DirInv, FetchInv, OwnTypes
    <3>2. StartPool(n) /\ n \in 0..MaxJobs
        BY <1>1, <3>1, PoolAssumption DEF StartJobs
    <3> QED BY <3>2, StartMoves DEF DirInv, FetchInv
  <2>3. ASSUME NEW j \in DOMAIN jobs  PROVE j \in 1..MaxJobs /\ jobs[j].name \in Names
    <3>1. jobs \in Seq([name : Names, existed : BOOLEAN]) /\ Len(jobs) <= MaxJobs
        BY DEF DirInv, FetchInv, OwnTypes
    <3> QED BY <3>1, LinkOf
  <2>4. ASSUME NEW j \in DOMAIN jobs  PROVE JobFile(j)'
    <3>1. res'[j] = "none"
        BY <2>1, <2>3 DEF NoResults
    <3>2. run = 1 => raw[jobs[j].name] = "absent"
        BY <2>1, <2>3 DEF DirInv, FileInv, Untouched
    <3> QED BY <2>1, <3>1, <3>2 DEF JobFile, FirstRun
  <2> QED BY <2>1, <2>2, <2>4 DEF DirInv, FileInv, Untouched
<1>2. CASE PoolMain \/ CountResults \/ TruncateManifest \/ UNCHANGED vars
  <2>1. /\ UNCHANGED <<raw, shared, run, dry, jobs, exit, wpos, res>>
        /\ wpc' = wpc /\ hand' = hand
        /\ mpc' = "list" => mpc = "list"
        /\ mpc = "off" => mpc' = "off"
        /\ exit = "ok" => fetch' = fetch
    <3>1. CASE PoolMain
        BY <3>1, MainMoves DEF PoolMain, DirInv, FetchInv, fileVars, mainVars
    <3>2. CASE CountResults
        BY <3>2 DEF CountResults, poolVars, fileVars
    <3>3. CASE TruncateManifest
        BY <3>3 DEF TruncateManifest, poolVars, DirInv, FetchInv, PhaseInv
    <3>4. CASE UNCHANGED vars
        BY <3>4 DEF vars, poolVars, fileVars, mainVars
    <3> QED BY <1>2, <3>1, <3>2, <3>3, <3>4
  <2> QED BY <2>1 DEF DirInv, FileInv, Contended, OneWriter, JobFile, FirstRun, Filling, At,
                      Name, Untouched
<1> QED BY <1>1, <1>2

\* fetch.json is written whole, in discovery order, and ends the run.
LEMMA FillFile ==
    ASSUME DirInv, FillManifest
    PROVE  FileInv'
<1>1. /\ mpc = "writing" /\ mpc' = "off" /\ exit' = "ok"
      /\ UNCHANGED <<raw, shared, run, dry, jobs, res>>
      /\ fetch' = [by |-> run, torn |-> FALSE,
                   items |-> [i \in 1..Len(collected) |-> jobs[collected[i]].name]]
    BY DEF FillManifest
<1>2. \A w \in Workers : wpc'[w] = "none"
    BY EndMoves DEF DirInv, FetchInv, FillManifest
<1>3. \A j \in DOMAIN jobs : res[j] # "none"
    BY <1>1 DEF DirInv, OutcomeInv, Counting
<1>4. PICK n \in Nat : n = Len(jobs) /\ n = njobs /\ collected = [i \in 1..n |-> i]
    BY <1>1, PoolAssumption DEF DirInv, FetchInv, PhaseInv, InOrder, PoolInv, PoolTypeOK
<1>5. fetch'.items = [j \in 1..n |-> jobs[j].name] /\ ~fetch'.torn
  <2>1. Len(collected) = n /\ \A i \in 1..n : collected[i] = i
      BY <1>4
  <2>2. [i \in 1..n |-> jobs[collected[i]].name] = [j \in 1..n |-> jobs[j].name]
      BY <2>1
  <2> QED BY <1>1, <2>1, <2>2
<1>6. ASSUME NEW j \in DOMAIN jobs  PROVE JobFile(j)'
    BY <1>1, <1>3 DEF DirInv, FileInv, JobFile, FirstRun, Contended
<1> QED BY <1>1, <1>2, <1>4, <1>5, <1>6 DEF DirInv, FileInv, Contended

\* Of the files only the one of the worker's own link changes, and a name
\* that is listed once is not written by two.
LEMMA DownloadFile ==
    ASSUME DirInv, NEW w \in Workers, Download(w)
    PROVE  FileInv'
<1>1. /\ wpc[w] = "work" /\ UNCHANGED <<poolVars, mainVars, fetch>>
    BY DEF Download, CheckFile, Get, Open, Fill, At, InDownload
<1>2. /\ hand[w] \in 1..MaxJobs /\ hand[w] \in DOMAIN jobs /\ Name(w) \in Names /\ mpc = "pool"
      /\ res[hand[w]] = "none"
      /\ \A v \in Workers : wpc[v] = "work" /\ hand[v] = hand[w] => v = w
  <2>1. wpos[w] # "done"
      BY DEF Download, CheckFile, Get, Open, Fill, At
  <2> QED BY <1>1, <2>1, WorkOnLink, HandIsAlone DEF DirInv, FetchInv, OutcomeInv
<1>3. /\ raw \in [Names -> FileState] /\ wpos \in [Workers -> Steps]
      /\ res \in [1..MaxJobs -> Outcomes] /\ DOMAIN jobs \subseteq 1..MaxJobs
    BY <1>2, LinksAreJobs DEF DirInv, FetchInv, OwnTypes
<1>4. /\ \A n \in Names \ {Name(w)} : raw'[n] = raw[n]
      /\ \A v \in Workers \ {w} : wpos'[v] = wpos[v]
      /\ \A j \in 1..MaxJobs \ {hand[w]} : res'[j] = res[j]
    BY <1>2, <1>3 DEF Download, CheckFile, Get, Open, Fill, Goto, Result
<1>5. /\ \A n : Contended(n)' <=> Contended(n)
      /\ \A v \in Workers : Name(v)' = Name(v) /\ wpc'[v] = wpc[v] /\ hand'[v] = hand[v]
      /\ \A j : jobs'[j] = jobs[j]
      /\ run' = run /\ dry' = dry /\ mpc' = mpc /\ exit' = exit /\ jobs' = jobs
    BY <1>1 DEF Contended, Name, poolVars, mainVars
<1>6. \A v \in Workers \ {w} : wpc[v] = "work" /\ Name(v) = Name(w) => Contended(Name(w))
    BY <1>1, TwoOnOneName DEF DirInv
<1>7. OneWriter(w)
    BY <1>1 DEF DirInv, FileInv
<1>8. \A n \in shared' : Contended(n)
  <2>1. CASE Open(w)
    <3>1. Writing(Name(w)) # {} => Contended(Name(w))
        BY <1>6, <2>1 DEF Open, Writing, At
    <3> QED BY <2>1, <3>1 DEF Open, DirInv, FileInv
  <2>2. CASE ~Open(w)
      BY <2>2 DEF Download, CheckFile, Get, Fill, DirInv, FileInv
  <2> QED BY <2>1, <2>2
<1>9. OneWriter(w)'
    BY <1>2, <1>3, <1>5, <1>7
       DEF Download, CheckFile, Get, Open, Fill, At, Goto, OneWriter, Exists, FileState
<1>10. ASSUME NEW v \in Workers \ {w}, wpc[v] = "work"  PROVE OneWriter(v)'
  <2>1. OneWriter(v) /\ Name(v) \in Names
      BY <1>10, WorkOnLink DEF DirInv, FileInv
  <2>2. CASE Name(v) = Name(w)
      BY <1>4, <1>5, <1>6, <1>10, <2>1, <2>2 DEF OneWriter
  <2>3. CASE Name(v) # Name(w)
      BY <1>4, <1>5, <1>10, <2>1, <2>3 DEF OneWriter
  <2> QED BY <2>2, <2>3
<1>11. JobFile(hand[w])'
  <2>1. JobFile(hand[w]) /\ jobs[hand[w]].name = Name(w)
      BY <1>2 DEF DirInv, FileInv, Name
  <2> SUFFICES ASSUME ~Contended(Name(w))
               PROVE  /\ res'[hand[w]] = "fetched" => raw'[Name(w)] = "whole"
                      /\ run = 1 => FirstRun(hand[w])'
      BY <1>1, <1>5, <2>1 DEF JobFile, mainVars, poolVars
  <2>2. run = 1 => raw[Name(w)] = "absent" \/ Filling(hand[w])
      BY <1>2, <2>1 DEF JobFile, FirstRun
  <2>3. Filling(hand[w]) => wpos[w] = "fill"
      BY <1>2 DEF Filling, At
  <2>4. CASE CheckFile(w)
    <3>1. run = 1 => raw[Name(w)] = "absent"
        BY <2>2, <2>3, <2>4 DEF CheckFile, At
    <3>2. /\ raw' = raw
          /\ res' = res \/ (Result(w, "present") /\ (Exists(Name(w)) \/ dry))
        BY <2>4 DEF CheckFile
    <3>3. Result(w, "present") => res'[hand[w]] = "present"
        BY <1>2, <1>3 DEF Result
    <3> QED BY <1>1, <1>2, <1>5, <2>1, <3>1, <3>2, <3>3
               DEF FirstRun, Exists, mainVars, poolVars
  <2>5. CASE Get(w)
    <3>1. raw[Name(w)] = "absent"
        BY <1>7, <2>5 DEF OneWriter, Get, At
    <3>2. raw' = raw /\ (res'[hand[w]] = "none" \/ res'[hand[w]] = "failed")
        BY <1>2, <1>3, <2>5 DEF Get, Result
    <3> QED BY <1>1, <1>5, <2>1, <3>1, <3>2 DEF FirstRun, mainVars, poolVars
  <2>6. CASE Open(w)
    <3>1. Filling(hand[w])' /\ res' = res
        BY <1>1, <1>3, <2>6 DEF Filling, At, Open, Goto, poolVars
    <3> QED BY <1>2, <1>5, <3>1 DEF FirstRun
  <2>7. CASE Fill(w)
    <3>1. Writing(Name(w)) = {w} /\ Name(w) \notin shared
        BY <1>6, <2>7 DEF Writing, At, Fill, DirInv, FileInv
    <3>2. Written(w) = {"whole"}
        BY <3>1 DEF Written
    <3>3. \/ res'[hand[w]] = "fetched" /\ raw'[Name(w)] = "whole"
          \/ res'[hand[w]] = "failed"
        BY <1>2, <1>3, <2>7, <3>2 DEF Fill, Result
    <3> QED BY <1>5, <3>3 DEF FirstRun
  <2> QED BY <2>4, <2>5, <2>6, <2>7 DEF Download
<1>12. ASSUME NEW j \in DOMAIN jobs, j # hand[w]  PROVE JobFile(j)'
  <2>1. JobFile(j) /\ j \in 1..MaxJobs
      BY <1>3 DEF DirInv, FileInv
  <2>2. jobs[j].name = Name(w) => Contended(Name(w))
      BY <1>2, <1>12 DEF Contended, Name
  <2>3. jobs[j].name \in Names
    <3>1. jobs \in Seq([name : Names, existed : BOOLEAN]) /\ Len(jobs) <= MaxJobs
        BY DEF DirInv, FetchInv, OwnTypes
    <3> QED BY <3>1, LinkOf
  <2>4. res'[j] = res[j]
      BY <1>4, <1>12, <2>1
  <2>5. jobs[j].name # Name(w) => raw'[jobs[j].name] = raw[jobs[j].name]
      BY <1>4, <2>3
  <2>6. Filling(j) => Filling(j)'
      BY <1>4, <1>5, <1>12 DEF Filling, At
  <2> QED BY <1>5, <2>1, <2>2, <2>4, <2>5, <2>6 DEF JobFile, FirstRun
<1>13. run # 0
    BY <1>2 DEF DirInv, FileInv
<1>14. exit' = "ok" => ~fetch'.torn /\ fetch'.items = [j \in 1..Len(jobs') |-> jobs'[j].name]
    BY <1>1, <1>5 DEF DirInv, FileInv
<1> QED BY <1>2, <1>5, <1>8, <1>9, <1>10, <1>11, <1>12, <1>13, <1>14 DEF FileInv

\* A worker on its way to or from a job touches no file.
LEMMA PoolWorkerFile ==
    ASSUME DirInv, NEW w \in Workers, PoolWorker(w)
    PROVE  FileInv'
<1>1. /\ UNCHANGED <<raw, shared, fetch, res, mainVars>>
      /\ wpos'[w] = "check" /\ \A v \in Workers \ {w} : wpos'[v] = wpos[v]
    BY DEF PoolWorker, fileVars, DirInv, FetchInv, OwnTypes
<1>2. /\ wpc[w] = "work" => wpos[w] = "done"
      /\ \A v \in Workers \ {w} : wpc'[v] = wpc[v] /\ hand'[v] = hand[v]
  <2>1. CASE Lock(w) \/ Recv(w) \/ RecvClosed(w)
      BY <2>1, TakeMoves DEF DirInv, FetchInv
  <2>2. CASE SendResult(w) /\ wpos[w] = "done"
      BY <2>2, GiveMoves DEF DirInv, FetchInv
  <2> QED BY <2>1, <2>2 DEF PoolWorker
<1>3. \A j : Filling(j) => Filling(j)'
    BY <1>1, <1>2 DEF Filling, At
<1>4. /\ \A n : Contended(n)' <=> Contended(n)
      /\ run' = run /\ dry' = dry /\ mpc' = mpc /\ exit' = exit /\ jobs' = jobs
    BY <1>1 DEF Contended, mainVars
<1>5. ASSUME NEW v \in Workers, wpc'[v] = "work"  PROVE OneWriter(v)'
  <2>1. CASE v = w
      BY <1>1, <2>1 DEF OneWriter
  <2>2. CASE v # w
      BY <1>1, <1>2, <1>4, <1>5, <2>2 DEF DirInv, FileInv, OneWriter, Name
  <2> QED BY <2>1, <2>2
<1>6. ASSUME NEW j \in DOMAIN jobs  PROVE JobFile(j)'
    BY <1>1, <1>3, <1>4 DEF DirInv, FileInv, JobFile, FirstRun
<1> QED BY <1>1, <1>4, <1>5, <1>6 DEF DirInv, FileInv, Untouched

\* A whole file is never written again, but by a second job of the same name.
LEMMA WholeStep ==
    ASSUME DirInv, [Next]_vars, NEW n \in Names, raw[n] = "whole"
    PROVE  raw'[n] = "whole" \/ Contended(n)
<1>1. ASSUME NEW w \in Workers, Open(w) \/ Fill(w)  PROVE raw'[n] = "whole" \/ Contended(n)
  <2>1. OneWriter(w)
      BY <1>1 DEF DirInv, FileInv, Open, Fill, At
  <2>2. raw[Name(w)] = "whole" => Contended(Name(w))
      BY <1>1, <2>1 DEF OneWriter, Open, Fill, At
  <2>3. raw \in [Names -> FileState]
      BY DEF DirInv, FetchInv, OwnTypes
  <2> QED BY <1>1, <2>2, <2>3 DEF Open, Fill
<1>2. ASSUME NEW w \in Workers, CheckFile(w) \/ Get(w) \/ PoolWorker(w)  PROVE raw' = raw
    BY <1>2 DEF CheckFile, Get, PoolWorker, fileVars
<1>3. ASSUME StartRun \/ Main \/ Kill  PROVE raw' = raw
    BY <1>3 DEF StartRun, Main, ListSource, StartJobs, PoolMain, CountResults,
                TruncateManifest, FillManifest, MainFails, Kill, fileVars
<1>4. CASE UNCHANGED vars
    BY <1>4 DEF vars, fileVars
<1> QED BY <1>1, <1>2, <1>3, <1>4 DEF Next, Worker, Download

-----------------------------------------------------------------------------
(* The results.                                                            *)

THEOREM FetchInvariant == Spec => []FetchInv
<1>1. FetchInv /\ [Next]_vars => FetchInv'
  <2> SUFFICES ASSUME FetchInv, [Next]_vars  PROVE FetchInv'
      OBVIOUS
  <2>1. PoolInv' /\ InOrder'
      BY PoolKept
  <2>2. OwnTypes' /\ BoundInv' /\ PhaseInv' /\ CountInv'
    <3>1. CASE UNCHANGED vars
        BY <3>1 DEF FetchInv, OwnTypes, BoundInv, PhaseInv, CountInv, vars, poolVars, fileVars,
                    mainVars
    <3>2. CASE Next
        BY <3>2, StartRunFetch, ListSourceFetch, StartJobsFetch, PoolMainFetch,
           CountResultsFetch, ManifestFetch, BreaksFetch, WorkerFetch DEF Next, Main
    <3> QED BY <3>1, <3>2
  <2> QED BY <2>1, <2>2 DEF FetchInv
<1> QED BY <1>1, InitFetch, PTL DEF Spec

\* Every variable of the stage and of its pool keeps its type.
THEOREM FetchTypes == Spec => []TypeOK
<1>1. FetchInv => TypeOK
    BY DEF FetchInv, PoolInv, OwnTypes, TypeOK, Steps, Outcomes
<1> QED BY <1>1, FetchInvariant, PTL

\* files_downloaded, files_skipped and files_failed of a finished real run add
\* up to the links, for every number of sources, links and threads.
THEOREM CountersAreRight == Spec => []CountersAddUp
<1>1. FetchInv => CountersAddUp
    BY DEF FetchInv, CountInv, CountersAddUp
<1> QED BY <1>1, FetchInvariant, PTL

THEOREM DirInvariant == Spec => []DirInv
<1>1. Init => DirInv
    BY InitFetch, InitOutcome, InitFile DEF DirInv
<1>2. DirInv /\ [Next]_vars => OutcomeInv' /\ FileInv'
  <2> SUFFICES ASSUME DirInv, [Next]_vars  PROVE OutcomeInv' /\ FileInv'
      OBVIOUS
  <2>1. OutcomeInv'
      BY StepOutcome DEF DirInv
  <2>2. FileInv'
      BY ListFile, QuietFile, FillFile, BreaksFile, DownloadFile, PoolWorkerFile
         DEF Next, Main, Worker
  <2> QED BY <2>1, <2>2
<1>3. DirInv <=> FetchInv /\ OutcomeInv /\ FileInv
    BY DEF DirInv
<1> QED BY <1>1, <1>2, <1>3, FetchInvariant, PTL DEF Spec

\* A first real run of the fetcher that ends with files_failed = 0 has left
\* every link that one source lists whole on disk, and all of them in
\* fetch.json: no job is passed over, cut short or lost between the threads.
THEOREM CleanRunsAreComplete == Spec => []CleanRunIsComplete
<1>1. DirInv => CleanRunIsComplete
  <2> SUFFICES ASSUME DirInv, exit = "ok", run = 1, ~dry, count.failed = 0
               PROVE  /\ ~fetch.torn /\ fetch.items = [j \in 1..Len(jobs) |-> jobs[j].name]
                      /\ \A j \in DOMAIN jobs :
                            Contended(jobs[j].name) \/ raw[jobs[j].name] = "whole"
      BY DEF CleanRunIsComplete
  <2>1. ASSUME NEW j \in DOMAIN jobs  PROVE res[j] \in Outcomes \ {"none", "failed"}
    <3>1. res[j] \notin {"none", "failed"}
        BY DEF DirInv, OutcomeInv, Counting
    <3>2. j \in 1..MaxJobs
        BY LinkOf DEF DirInv, FetchInv, OwnTypes
    <3> QED BY <3>1, <3>2 DEF DirInv, FetchInv, OwnTypes
  <2>2. ASSUME NEW j \in DOMAIN jobs
        PROVE  Contended(jobs[j].name) \/ raw[jobs[j].name] = "whole"
      BY <2>1 DEF DirInv, FileInv, JobFile, FirstRun, Outcomes
  <2> QED BY <2>2 DEF DirInv, FileInv
<1> QED BY <1>1, DirInvariant, PTL

\* download_file never truncates a file that is whole, in this run or a later
\* one, after a kill or a failure, unless two sources list its name.
THEOREM WholeFilesAreKept == Spec => WholeIsKept
<1>1. DirInv /\ [Next]_vars =>
          [\A n \in Names : raw[n] = "whole" => raw'[n] = "whole" \/ Contended(n)]_vars
    BY WholeStep
<1> QED BY <1>1, DirInvariant, PTL DEF Spec, WholeIsKept

\* The stage uses the pool as WorkerPool says, whatever download_file does and
\* whenever the process is killed ...
THEOREM FetcherIsPool == Spec => PoolSpec
<1>1. Init => PoolInit
    BY DEF Init
<1>2. FetchInv /\ [Next]_vars => [PoolNext]_poolVars
    BY FetchUsesPool DEF FetchInv
<1> QED BY <1>1, <1>2, FetchInvariant, PTL DEF Spec, PoolSpec

\* ... so each of its runs downloads a batch: every link once, results in order.
THEOREM FetcherImplementsBatch == Spec => ImplementsBatch
BY FetcherIsPool, PoolImplementsBatch, PTL

\* ... and none of them is stuck or spins: some worker can go on while main
\* waits, and a run over n jobs takes at most the steps that StepsInv counts.
THEOREM FetcherNeverStuck == Spec => []NeverStuck /\ CallAdvances /\ []StepsInv
BY FetcherIsPool, CallIsNeverStuck, EveryStepCounts, CallIsBounded, PTL
=============================================================================
