--------------------------- MODULE ConverterProofs --------------------------
(***************************************************************************)
(* Proofs about Converter, for every fetch.json, every map from names to   *)
(* records and every concurrency: the stage uses the pool as WorkerPool    *)
(* describes it, convert.json matches fetch.json item by item, and what the*)
(* stage reports as converted or probed is whole on disk.                  *)
(***************************************************************************)
EXTENDS Converter, WorkerPoolProofs, WellFoundedInduction

Steps == {"check", "spawn", "encode", "probe", "done"}
WavState == {"absent", "broken", "whole"}
Items == [status : Statuses, probe : BOOLEAN]

-----------------------------------------------------------------------------
(* The jobs of a list.                                                     *)

\* Every set of numbers has a least one: the induction of the next lemmas,
\* which the provers cannot take from a theorem with an operator parameter.
LEMMA Least ==
    ASSUME NEW T, T \subseteq Nat, T # {}
    PROVE  \E m \in T : \A k \in T : ~(k < m)
<1> DEFINE R == OpToRel(<, Nat)
<1>1. IsWellFoundedOn(R, Nat)
    BY NatLessThanWellFounded
<1>2. \A k, m \in Nat : k < m => <<k, m>> \in R
    BY DEF OpToRel
<1> HIDE DEF R
<1>3. \E m \in T : \A k \in T : ~(<<k, m>> \in R)
    BY <1>1, WFMin
<1> QED BY <1>2, <1>3

\* What main's loop over the items has gathered after each of them.
Gathers(f, l, files) ==
    f = [i \in 0..Len(l) |->
            IF i = 0 THEN <<>>
            ELSE IF l[i] \in files THEN Append(f[i - 1], l[i]) ELSE f[i - 1]]

\* The loop's definition by recursion defines something.
LEMMA GathersExists ==
    ASSUME NEW l \in Seq(Names), NEW files
    PROVE  \E f : Gathers(f, l, files)
<1> DEFINE Upto(f, m) ==
             f = [i \in 0..m |->
                     IF i = 0 THEN <<>>
                     ELSE IF l[i] \in files THEN Append(f[i - 1], l[i]) ELSE f[i - 1]]
           T == {m \in Nat : ~\E f : Upto(f, m)}
<1>1. SUFFICES T = {}
  <2>1. Len(l) \in Nat
      OBVIOUS
  <2>2. \E f : Upto(f, Len(l))
      BY <1>1, <2>1
  <2> QED BY <2>2 DEF Gathers
<1>2. SUFFICES ASSUME T # {}  PROVE FALSE
    OBVIOUS
<1>3. PICK m \in T : \A k \in T : ~(k < m)
  <2>1. T \subseteq Nat
      OBVIOUS
  <2> HIDE DEF T
  <2> QED BY <1>2, <2>1, Least
<1>4. m \in Nat /\ ~\E f : Upto(f, m)
    OBVIOUS
<1>5. m # 0
  <2>1. Upto([i \in 0..0 |-> <<>>], 0)
      OBVIOUS
  <2> QED BY <1>4, <2>1
<1>6. PICK g : Upto(g, m - 1)
  <2>1. m - 1 \in Nat /\ m - 1 < m
      BY <1>4, <1>5
  <2>2. m - 1 \notin T
      BY <1>3, <2>1
  <2> QED BY <2>1, <2>2
<1> DEFINE last == IF l[m] \in files THEN Append(g[m - 1], l[m]) ELSE g[m - 1]
           f == [i \in 0..m |-> IF i = m THEN last ELSE g[i]]
<1>7. Upto(f, m)
  <2>1. ASSUME NEW i \in 0..m, i # m, i # 0
        PROVE  f[i] = IF l[i] \in files THEN Append(f[i - 1], l[i]) ELSE f[i - 1]
    <3>1. i \in 0..(m - 1) /\ i - 1 \in 0..m /\ i - 1 # m
        BY <1>4, <2>1
    <3>2. f[i] = g[i] /\ f[i - 1] = g[i - 1]
        BY <2>1, <3>1
    <3>3. g[i] = IF l[i] \in files THEN Append(g[i - 1], l[i]) ELSE g[i - 1]
        BY <1>6, <2>1, <3>1
    <3> QED BY <3>2, <3>3
  <2>2. f[0] = <<>>
    <3>1. 0 \in 0..(m - 1) /\ 0 \in 0..m
        BY <1>4, <1>5
    <3>2. g[0] = <<>>
        BY <1>6, <3>1
    <3> QED BY <1>5, <3>1, <3>2
  <2>3. f[m] = IF l[m] \in files THEN Append(f[m - 1], l[m]) ELSE f[m - 1]
    <3>1. m \in 0..m /\ m - 1 \in 0..m /\ m - 1 # m
        BY <1>4, <1>5
    <3> QED BY <3>1
  <2> QED BY <1>5, <2>1, <2>2, <2>3
<1> QED BY <1>4, <1>7

\* One job at most for each item, each with the name of an item that is present.
LEMMA KeptTyped ==
    ASSUME NEW l \in Seq(Names), NEW files
    PROVE  KeptOf(l, files) \in Seq(Names) /\ Len(KeptOf(l, files)) <= Len(l)
<1> DEFINE kept == CHOOSE f : Gathers(f, l, files)
           Good(i) == kept[i] \in Seq(Names) /\ Len(kept[i]) <= i
           T == {i \in 0..Len(l) : ~Good(i)}
<1>1. KeptOf(l, files) = kept[Len(l)]
    BY DEF KeptOf, Gathers
<1>2. PICK n \in Nat : n = Len(l)
    OBVIOUS
<1>3. Gathers(kept, l, files)
    BY GathersExists
<1>4. \A i \in 1..n : l[i] \in Names
    BY <1>2, ElementOfSeq
<1>5. /\ kept[0] = <<>>
      /\ \A i \in 1..n : kept[i] = IF l[i] \in files THEN Append(kept[i - 1], l[i])
                                   ELSE kept[i - 1]
  <2> HIDE DEF kept
  <2>1. kept = [i \in 0..n |->
            IF i = 0 THEN <<>>
            ELSE IF l[i] \in files THEN Append(kept[i - 1], l[i]) ELSE kept[i - 1]]
      BY <1>2, <1>3 DEF Gathers
  <2>2. 0 \in 0..n /\ \A i \in 1..n : i \in 0..n /\ i # 0
      OBVIOUS
  <2> QED BY <2>1, <2>2
<1> HIDE DEF kept
<1>6. SUFFICES T = {}
    BY <1>1, <1>2, <1>6
<1>7. SUFFICES ASSUME T # {}  PROVE FALSE
    OBVIOUS
<1>8. PICK m \in T : \A k \in T : ~(k < m)
  <2>1. T \subseteq Nat
      BY <1>2
  <2> HIDE DEF T
  <2> QED BY <1>7, <2>1, Least
<1>9. m \in 0..n /\ ~Good(m)
    BY <1>2
<1>10. m # 0
  <2>1. <<>> \in Seq(Names) /\ Len(<<>>) = 0
      OBVIOUS
  <2>2. Good(0)
      BY <1>5, <2>1
  <2> HIDE DEF Good
  <2> QED BY <1>9, <2>2
<1>11. m \in 1..n /\ m - 1 \in 0..n /\ m - 1 < m
    BY <1>9, <1>10
<1>12. Good(m - 1)
    BY <1>2, <1>8, <1>11
<1>13. PICK before \in Seq(Names) : before = kept[m - 1] /\ Len(before) <= m - 1
    BY <1>12
<1>14. /\ Append(before, l[m]) \in Seq(Names)
       /\ Len(Append(before, l[m])) = Len(before) + 1
       /\ Len(before) \in Nat
    BY <1>4, <1>11, AppendProperties, LenProperties
<1>15. kept[m] \in {before, Append(before, l[m])}
    BY <1>5, <1>11, <1>13
<1>16. Good(m)
  <2>1. PICK size \in Nat : size = Len(before) /\ size <= m - 1
      BY <1>13, <1>14
  <2>2. CASE kept[m] = before
      BY <1>11, <2>1, <2>2
  <2>3. CASE kept[m] = Append(before, l[m])
    <3>1. size + 1 <= m
        BY <1>11, <2>1
    <3> QED BY <1>14, <2>1, <2>3, <3>1
  <2> QED BY <1>15, <2>2, <2>3
<1> QED BY <1>9, <1>16

-----------------------------------------------------------------------------
(* The inductive invariant.                                                *)

\* The types of the stage's own variables.
OwnTypes ==
    /\ fetch \subseteq FetchLists /\ Cardinality(fetch) <= 1 /\ raw \subseteq Names
    /\ wav \in [Records -> WavState] /\ shared \subseteq Records
    /\ run \in 0..MaxRuns /\ dry \in BOOLEAN
    /\ mpc \in {"off", "read", "pool", "write", "writing"}
    /\ jobs \in Seq(Names) /\ Len(jobs) <= MaxJobs
    /\ cpc \in [Workers -> Steps]
    /\ item \in [1..MaxJobs -> Items]
    /\ convert = [by |-> convert.by, torn |-> convert.torn, items |-> convert.items]
    /\ convert.by \in 0..MaxRuns /\ convert.torn \in BOOLEAN
    /\ \A i \in DOMAIN convert.items : convert.items[i].rec \in Records
    /\ exit \in {"none", "ok", "error", "killed"}

\* Where main is, and what it has asked of the pool: the jobs of fetch.json.
PhaseInv ==
    /\ mpc \in {"off", "read"} <=> pmain = "idle"
    /\ mpc \in {"write", "writing"} => pmain = "returned"
    /\ mpc \in {"pool", "write", "writing"} =>
          njobs = Len(jobs) /\ \E l \in fetch : jobs = Kept(l)
    /\ mpc \in {"off", "read"} => jobs = <<>> /\ shared = {}
    /\ exit = "ok" => mpc = "off"

\* What convert_one has filled in of the item of each job: nothing before its
\* status is known, no probe before ffprobe has run, a status when it is done.
ItemInv ==
    /\ \A j \in Pending : item[j] = NoItem
    /\ \A w \in Workers : wpc[w] = "work" =>
          /\ cpc[w] \in {"check", "spawn", "encode"} => item[hand[w]] = NoItem
          /\ cpc[w] = "probe" => item[hand[w]].status # "none" /\ ~item[hand[w]].probe
          /\ cpc[w] = "done" => item[hand[w]].status # "none"
    /\ \A j \in Finished : item[j].status # "none"

\* Between its look at the wav and the end of ffprobe, a worker whose record
\* has one job finds the file as it, or its ffmpeg, left it.
OneWriter(w) ==
    Contended(Record(w)) \/
        /\ cpc[w] = "spawn" => wav[Record(w)] = "absent"
        /\ cpc[w] = "encode" => wav[Record(w)] = "broken"
        /\ cpc[w] = "probe" => wav[Record(w)] # "absent"

\* What a job's item says of its wav, unless another job writes it too.
JobFile(j) ==
    Contended(Rec(j)) \/
        (item[j].status = "ok" \/ (ProbeExact /\ item[j].probe) => wav[Rec(j)] = "whole")

\* What is counted as there is there, however many jobs write it.
JobCounted(j) == item[j].status \in {"ok", "skip_exists"} => Exists(Rec(j))

WavInv ==
    /\ \A r \in shared : Contended(r)
    /\ \A w \in Workers : wpc[w] = "work" => OneWriter(w)
    /\ \A j \in DOMAIN jobs : JobFile(j) /\ JobCounted(j)

BaseInv == PoolInv /\ InOrder /\ OwnTypes /\ PhaseInv
ConvertInv == BaseInv /\ ItemInv /\ WavInv /\ ManifestMatchesFetch /\ ProbeVouches

\* A job of a list that fits has a number, a name and a record.
LEMMA JobOf ==
    ASSUME NEW s \in Seq(Names), Len(s) <= MaxJobs, NEW j \in DOMAIN s
    PROVE  j \in 1..MaxJobs /\ s[j] \in Names /\ RecordOf[s[j]] \in Records
<1>1. PICK n \in Nat : n = Len(s) /\ n <= MaxJobs /\ DOMAIN s = 1..n
    BY LenProperties
<1>2. s[j] \in Names
    BY <1>1, ElementOfSeq
<1> QED BY <1>1, <1>2, PoolAssumption, ConverterAssumption

LEMMA InitConvert == Init => ConvertInv
<1> SUFFICES ASSUME Init  PROVE ConvertInv
    OBVIOUS
<1>1. PoolInv
    BY InitInv DEF Init
<1>2. InOrder
    BY DEF Init, PoolInit, InOrder
<1>3. fetch \subseteq FetchLists /\ Cardinality(fetch) <= 1 /\ raw \subseteq Names
  <2>1. CASE fetch = {}
    <3>1. Cardinality(fetch) = 0
        BY <2>1, FS_EmptySet
    <3> QED BY <2>1, <3>1 DEF Init
  <2>2. CASE fetch # {}
    <3>1. PICK l \in FetchLists : fetch = {l}
        BY <2>2 DEF Init
    <3>2. Cardinality(fetch) = 1
        BY <3>1, FS_Singleton
    <3>3. ToSet(l) \subseteq Names
      <4>1. l \in Seq(Names)
          BY ConverterAssumption
      <4> QED BY <4>1, ElementOfSeq DEF ToSet
    <3> QED BY <3>1, <3>2, <3>3 DEF Init
  <2> QED BY <2>1, <2>2
<1>4. item \in [1..MaxJobs -> Items]
    BY DEF Init, NoItem, Items, Statuses
<1>5. jobs \in Seq(Names) /\ Len(jobs) <= MaxJobs /\ DOMAIN jobs = {}
    BY PoolAssumption DEF Init
<1>6. 0 \in 0..MaxRuns
    BY ConverterAssumption
<1>7. OwnTypes
    BY <1>3, <1>4, <1>5, <1>6 DEF Init, OwnTypes, WavState, Steps
<1>8. PhaseInv
    BY DEF Init, PoolInit, PhaseInv
<1>9. Pending = {} /\ Finished = {} /\ (\A w \in Workers : wpc[w] = "none")
    BY IdlePool DEF Init
<1>10. ItemInv /\ WavInv
    BY <1>5, <1>9 DEF ItemInv, WavInv, Init
<1>11. ManifestMatchesFetch /\ ProbeVouches
    BY DEF Init, ManifestMatchesFetch, ProbeVouches
<1> QED BY <1>1, <1>2, <1>7, <1>8, <1>10, <1>11 DEF ConvertInv, BaseInv

-----------------------------------------------------------------------------
(* The stage's steps are steps of the pool, or none of its business.       *)

\* The call of the pool: the jobs are those of the one list of fetch.json.
LEMMA StartsPool ==
    ASSUME OwnTypes, StartJobs
    PROVE  \E n \in 0..MaxJobs :
              /\ StartPool(n) /\ n = Len(jobs') /\ jobs' \in Seq(Names)
              /\ \E l \in fetch : jobs' = Kept(l)
<1>1. PICK l \in fetch : jobs' = Kept(l) /\ StartPool(Len(jobs'))
    BY DEF StartJobs
<1>2. l \in Seq(Names) /\ Len(l) <= MaxJobs
    BY ConverterAssumption DEF OwnTypes
<1>3. jobs' \in Seq(Names) /\ Len(jobs') <= Len(l)
    BY <1>1, <1>2, KeptTyped DEF Kept
<1>4. PICK n \in Nat : n = Len(jobs')
    BY <1>3
<1>5. PICK m \in Nat : m = Len(l) /\ m <= MaxJobs /\ n <= m
    BY <1>2, <1>3, <1>4
<1>6. n \in 0..MaxJobs
    BY <1>5, PoolAssumption
<1> QED BY <1>1, <1>3, <1>4, <1>6

LEMMA ConvertUsesPool ==
    ASSUME OwnTypes, [Next]_vars
    PROVE  [PoolNext]_poolVars
<1>1. CASE StartJobs
    BY <1>1, StartsPool DEF PoolNext
<1>2. CASE PoolMain
    BY <1>2 DEF PoolMain, PoolNext
<1>3. CASE FillManifest \/ ManifestFails \/ Kill
    BY <1>3 DEF FillManifest, ManifestFails, Kill, PoolNext
<1>4. ASSUME NEW w \in Workers, PoolWorker(w)  PROVE PoolNext
    BY <1>4 DEF PoolWorker, PoolNext, WorkerStep
<1>5. ASSUME NEW w \in Workers, ConvertOne(w)  PROVE UNCHANGED poolVars
    BY <1>5 DEF ConvertOne, CheckOutput, FfmpegRefuses, FfmpegOpens, FfmpegSucceeds, FfmpegFails,
                Probe, InConvertOne
<1>6. CASE StartRun \/ StartFails \/ PoolEmpty \/ TruncateManifest
    BY <1>6 DEF StartRun, StartFails, PoolEmpty, TruncateManifest
<1>7. CASE UNCHANGED vars
    BY <1>7 DEF vars
<1> QED BY <1>1, <1>2, <1>3, <1>4, <1>5, <1>6, <1>7 DEF Next, Main, Worker

\* What the pool's invariant becomes, in every step of the stage.
LEMMA PoolKept ==
    ASSUME BaseInv, [Next]_vars
    PROVE  PoolInv' /\ InOrder'
BY ConvertUsesPool, StepInv, StepInOrder DEF BaseInv

\* The variables that main alone changes stay as they are while workers work.
LEMMA WorkersKeepMain ==
    ASSUME BaseInv, NEW w \in Workers, Worker(w)
    PROVE  /\ UNCHANGED <<mainVars, fetch, raw, convert>>
           /\ pmain' = pmain /\ njobs' = njobs
BY DEF Worker, ConvertOne, CheckOutput, FfmpegRefuses, FfmpegOpens, FfmpegSucceeds, FfmpegFails,
       Probe, InConvertOne, PoolWorker, Lock, Recv, RecvClosed, SendResult, poolVars, mainVars,
       fileVars

\* The jobs of the run are those of the pool.
LEMMA JobsOfRun ==
    ASSUME BaseInv, mpc \in {"pool", "write", "writing"}
    PROVE  DOMAIN jobs = Jobs /\ Jobs \subseteq 1..MaxJobs
<1>1. njobs = Len(jobs) /\ njobs \in 0..MaxJobs
    BY DEF BaseInv, PhaseInv, PoolInv, PoolTypeOK
<1>2. jobs \in Seq(Names)
    BY DEF BaseInv, OwnTypes
<1>3. DOMAIN jobs = 1..njobs
    BY <1>1, <1>2
<1> QED BY <1>1, <1>3, PoolAssumption DEF Jobs

\* A worker works on a job of this run.
LEMMA WorkOnJob ==
    ASSUME BaseInv, NEW w \in Workers, wpc[w] = "work"
    PROVE  /\ hand[w] \in 1..MaxJobs /\ hand[w] \in DOMAIN jobs /\ Record(w) \in Records
           /\ mpc = "pool"
<1>1. hand[w] \in Jobs /\ pmain \in {"send", "collect"}
    BY HandIsJob DEF BaseInv
<1>2. mpc = "pool"
    BY <1>1 DEF BaseInv, PhaseInv, OwnTypes
<1>3. hand[w] \in 1..MaxJobs /\ hand[w] \in DOMAIN jobs
    BY <1>1, <1>2, JobsOfRun
<1>4. Record(w) \in Records
    BY <1>3, JobOf DEF BaseInv, OwnTypes, Record, Rec
<1> QED BY <1>2, <1>3, <1>4

-----------------------------------------------------------------------------
(* The steps of main.                                                      *)

\* What the rest of the invariant becomes in a step of the stage.
StageInv == OwnTypes /\ PhaseInv /\ ItemInv /\ WavInv /\ ManifestMatchesFetch /\ ProbeVouches

\* Before the pool is called and while it works, main leaves the files, the
\* jobs and their items alone.
LEMMA QuietStage ==
    ASSUME ConvertInv,
           StartRun \/ StartFails \/ PoolMain \/ PoolEmpty \/ TruncateManifest \/ UNCHANGED vars
    PROVE  StageInv'
<1>1. /\ UNCHANGED <<fetch, raw, wav, shared, jobs, cpc, item>> /\ wpc' = wpc /\ hand' = hand
      /\ Pending' \subseteq Pending /\ Finished' \subseteq Finished /\ njobs' = njobs
      /\ exit' = "ok" => UNCHANGED <<run, convert, exit>>
      /\ dry' \in BOOLEAN /\ run' \in 0..MaxRuns /\ exit' \in {"none", "ok", "error", "killed"}
      /\ convert' = convert \/ convert' = [convert EXCEPT !.torn = TRUE]
  <2>1. CASE StartRun
      BY <2>1, ConverterAssumption
         DEF StartRun, ConvertInv, BaseInv, OwnTypes, fileVars, poolVars, Pending, Finished, Unsent
  <2>2. CASE PoolMain
      BY <2>2, MainMoves DEF PoolMain, ConvertInv, BaseInv, OwnTypes, PhaseInv, fileVars
  <2>3. CASE StartFails \/ PoolEmpty
      BY <2>3 DEF StartFails, PoolEmpty, ConvertInv, BaseInv, OwnTypes, PhaseInv, fileVars,
                  poolVars, Pending, Finished, Unsent
  <2>4. CASE TruncateManifest
      BY <2>4 DEF TruncateManifest, ConvertInv, BaseInv, OwnTypes, PhaseInv, poolVars, Pending,
                  Finished, Unsent
  <2>5. CASE UNCHANGED vars
      BY <2>5 DEF vars, ConvertInv, BaseInv, OwnTypes, mainVars, fileVars, poolVars, Pending,
                  Finished, Unsent
  <2> QED BY <2>1, <2>2, <2>3, <2>4, <2>5
<1>2. PhaseInv'
  <2>1. /\ \A l : Kept(l)' = Kept(l)
      BY <1>1 DEF Kept
  <2>2. CASE StartRun \/ StartFails
      BY <1>1, <2>2 DEF StartRun, StartFails, ConvertInv, BaseInv, PhaseInv, poolVars
  <2>3. CASE PoolMain
    <3>1. pmain # "idle" /\ pmain' # "idle"
        BY <2>3 DEF PoolMain, MainStep, Send, CloseJobs, Collect, ReturnResults
    <3> QED BY <1>1, <2>1, <2>3, <3>1 DEF PoolMain, ConvertInv, BaseInv, PhaseInv
  <2>4. CASE PoolEmpty \/ TruncateManifest
      BY <1>1, <2>1, <2>4
         DEF PoolEmpty, TruncateManifest, ConvertInv, BaseInv, PhaseInv, poolVars
  <2>5. CASE UNCHANGED vars
      BY <1>1, <2>1, <2>5 DEF vars, ConvertInv, BaseInv, PhaseInv, poolVars, mainVars
  <2> QED BY <2>2, <2>3, <2>4, <2>5
<1>3. OwnTypes'
  <2>1. /\ convert' = [by |-> convert'.by, torn |-> convert'.torn, items |-> convert'.items]
        /\ convert'.by \in 0..MaxRuns /\ convert'.torn \in BOOLEAN
        /\ convert'.items = convert.items
      BY <1>1 DEF ConvertInv, BaseInv, OwnTypes
  <2>2. mpc' \in {"off", "read", "pool", "write", "writing"}
      BY DEF StartRun, StartFails, PoolMain, PoolEmpty, TruncateManifest, vars, mainVars,
             ConvertInv, BaseInv, OwnTypes
  <2> QED BY <1>1, <2>1, <2>2 DEF ConvertInv, BaseInv, OwnTypes
<1>4. ItemInv'
    BY <1>1 DEF ConvertInv, ItemInv
<1>5. WavInv'
    BY <1>1 DEF ConvertInv, WavInv, OneWriter, JobFile, JobCounted, Exists, Contended, Record, Rec
<1>6. ManifestMatchesFetch' /\ ProbeVouches'
  <2>1. \A l : Kept(l)' = Kept(l)
      BY <1>1 DEF Kept
  <2>2. CASE exit' = "ok"
    <3>1. UNCHANGED <<fetch, wav, run, convert, exit>>
        BY <1>1, <2>2
    <3> QED BY <2>1, <3>1 DEF ConvertInv, ManifestMatchesFetch, ProbeVouches, Exists
  <2>3. CASE exit' # "ok"
      BY <2>3 DEF ManifestMatchesFetch, ProbeVouches
  <2> QED BY <2>2, <2>3
<1> QED BY <1>2, <1>3, <1>4, <1>5, <1>6 DEF StageInv

\* The pool is called on the jobs of fetch.json, with nothing done of them.
LEMMA StartStage ==
    ASSUME ConvertInv, StartJobs
    PROVE  StageInv'
<1>1. PICK n \in 0..MaxJobs :
          /\ StartPool(n) /\ n = Len(jobs') /\ jobs' \in Seq(Names)
          /\ \E l \in fetch : jobs' = Kept(l)
    BY StartsPool DEF ConvertInv, BaseInv
<1>2. /\ mpc = "read" /\ mpc' = "pool" /\ exit' = exit /\ exit # "ok" /\ shared = {}
      /\ UNCHANGED <<fetch, raw, wav, shared, convert, run, dry>>
      /\ item' = [j \in 1..MaxJobs |-> NoItem] /\ cpc' = [w \in Workers |-> "check"]
      /\ njobs' = n /\ pmain' # "idle"
    BY <1>1 DEF StartJobs, fileVars, ConvertInv, BaseInv, PhaseInv, StartPool
<1>3. Finished' = {} /\ (\A w \in Workers : wpc'[w] # "work")
    BY <1>1, StartMoves DEF ConvertInv, BaseInv
<1>4. Pending' \subseteq 1..MaxJobs
  <2>1. sent' = 0 /\ queue' = <<>>
    <3>1. PoolInit
        BY <1>1 DEF StartPool, ConvertInv, BaseInv, PoolInv, MainInv
    <3> QED BY <1>1, <3>1 DEF StartPool, PoolInit
  <2>2. Unsent' = 1..n
      BY <1>2, <2>1 DEF Unsent
  <2>3. 1..n \subseteq 1..MaxJobs
      BY PoolAssumption
  <2> QED BY <2>1, <2>2, <2>3, EmptyToSet DEF Pending
<1>5. item' \in [1..MaxJobs -> Items] /\ cpc' \in [Workers -> Steps]
    BY <1>2 DEF NoItem, Items, Statuses, Steps
<1>6. Len(jobs') <= MaxJobs
    BY <1>1, PoolAssumption
<1>7. OwnTypes'
    BY <1>1, <1>2, <1>5, <1>6 DEF ConvertInv, BaseInv, OwnTypes
<1>8. PhaseInv'
  <2>1. \A l : Kept(l)' = Kept(l)
      BY <1>2 DEF Kept
  <2> QED BY <1>1, <1>2, <2>1 DEF PhaseInv
<1>9. ItemInv'
    BY <1>2, <1>3, <1>4 DEF ItemInv
<1>10. WavInv'
  <2>1. ASSUME NEW j \in DOMAIN jobs'  PROVE JobFile(j)' /\ JobCounted(j)'
    <3>1. j \in 1..MaxJobs
        BY <1>1, <1>6, JobOf
    <3> QED BY <1>2, <3>1 DEF JobFile, JobCounted, NoItem
  <2> QED BY <1>2, <1>3, <2>1 DEF WavInv
<1>11. ManifestMatchesFetch' /\ ProbeVouches'
    BY <1>2 DEF ManifestMatchesFetch, ProbeVouches
<1> QED BY <1>7, <1>8, <1>9, <1>10, <1>11 DEF StageInv

\* What the end of the process leaves: files, and nothing in hand.
LEMMA EndStage ==
    ASSUME ConvertInv, FillManifest \/ ManifestFails \/ Kill
    PROVE  PhaseInv' /\ ItemInv' /\ WavInv' /\ (convert' = convert => OwnTypes')
<1>1. /\ mpc' = "off" /\ UNCHANGED <<fetch, raw, wav, run, dry>>
      /\ exit' \in {"ok", "error", "killed"}
      /\ ClearLocals /\ pmain' = "idle"
    BY DEF FillManifest, ManifestFails, Kill, PoolGone, poolVars
<1>2. Pending' = {} /\ Finished' = {} /\ (\A w \in Workers : wpc'[w] = "none")
    BY EndMoves DEF FillManifest, ManifestFails, Kill, ConvertInv, BaseInv
<1>3. /\ jobs' = <<>> /\ shared' = {} /\ DOMAIN jobs' = {}
      /\ jobs' \in Seq(Names) /\ Len(jobs') <= MaxJobs
      /\ item' \in [1..MaxJobs -> Items] /\ cpc' \in [Workers -> Steps]
    BY <1>1, PoolAssumption DEF ClearLocals, NoItem, Items, Statuses, Steps
<1>4. PhaseInv'
    BY <1>1, <1>3 DEF PhaseInv
<1>5. ItemInv' /\ WavInv'
    BY <1>2, <1>3 DEF ItemInv, WavInv
<1>6. convert' = convert => OwnTypes'
    BY <1>1, <1>3 DEF ConvertInv, BaseInv, OwnTypes
<1> QED BY <1>4, <1>5, <1>6

LEMMA BreaksStage ==
    ASSUME ConvertInv, ManifestFails \/ Kill
    PROVE  StageInv'
<1>1. exit' # "ok" /\ convert' = convert
    BY DEF ManifestFails, Kill
<1>2. ManifestMatchesFetch' /\ ProbeVouches'
    BY <1>1 DEF ManifestMatchesFetch, ProbeVouches
<1> QED BY <1>1, <1>2, EndStage DEF StageInv

\* convert.json is written whole, item for item, when every job has its item.
LEMMA FillStage ==
    ASSUME ConvertInv, FillManifest
    PROVE  StageInv'
<1>1. /\ mpc = "writing" /\ convert' = [by |-> run, torn |-> FALSE, items |-> Results]
      /\ pmain = "returned" /\ UNCHANGED <<fetch, raw, wav, run>>
    BY DEF FillManifest, ConvertInv, BaseInv, PhaseInv
<1>2. PICK l \in fetch : jobs = Kept(l)
    BY <1>1 DEF ConvertInv, BaseInv, PhaseInv
<1>3. PICK n \in Nat : n = Len(jobs) /\ n = njobs /\ collected = [i \in 1..n |-> i]
    BY <1>1, PoolAssumption DEF ConvertInv, BaseInv, PhaseInv, InOrder, PoolInv, PoolTypeOK
<1>4. DOMAIN jobs = 1..n /\ Finished = 1..n /\ 1..n \subseteq 1..MaxJobs
    BY <1>1, <1>3, JobsOfRun, ReturnedFinished DEF ConvertInv, BaseInv, Jobs
<1>5. Results = [i \in 1..n |-> [rec |-> Rec(i), status |-> item[i].status,
                                 probe |-> item[i].probe]]
  <2>1. Len(collected) = n /\ \A i \in 1..n : collected[i] = i
      BY <1>3
  <2> QED BY <2>1 DEF Results
<1>6. \A i \in 1..n : Rec(i) \in Records /\ item[i].status # "none" /\ JobFile(i) /\ JobCounted(i)
  <2>1. jobs \in Seq(Names) /\ Len(jobs) <= MaxJobs
      BY DEF ConvertInv, BaseInv, OwnTypes
  <2> QED BY <1>4, <2>1, JobOf DEF Rec, ConvertInv, ItemInv, WavInv
<1>7. OwnTypes'
  <2>1. /\ fetch' \subseteq FetchLists /\ Cardinality(fetch') <= 1 /\ raw' \subseteq Names
        /\ wav' \in [Records -> WavState] /\ run' \in 0..MaxRuns /\ dry' \in BOOLEAN
        /\ mpc' = "off" /\ exit' = "ok" /\ ClearLocals
      BY DEF FillManifest, ConvertInv, BaseInv, OwnTypes
  <2>2. /\ shared' \subseteq Records /\ jobs' \in Seq(Names) /\ Len(jobs') <= MaxJobs
        /\ cpc' \in [Workers -> Steps] /\ item' \in [1..MaxJobs -> Items]
      BY <2>1, PoolAssumption DEF ClearLocals, NoItem, Items, Statuses, Steps
  <2>3. \A i \in DOMAIN convert'.items : convert'.items[i].rec \in Records
      BY <1>1, <1>5, <1>6
  <2>4. /\ convert' = [by |-> convert'.by, torn |-> convert'.torn, items |-> convert'.items]
        /\ convert'.by \in 0..MaxRuns /\ convert'.torn \in BOOLEAN
      BY <1>1 DEF ConvertInv, BaseInv, OwnTypes
  <2> QED BY <2>1, <2>2, <2>3, <2>4 DEF OwnTypes
<1>8. ManifestMatchesFetch'
  <2>1. Kept(l)' = jobs
      BY <1>1, <1>2 DEF Kept
  <2>2. Len(convert'.items) = n /\ convert'.by = run' /\ ~convert'.torn
      BY <1>1, <1>5
  <2>3. ASSUME NEW i \in 1..n
        PROVE  /\ convert'.items[i].rec = RecordOf[jobs[i]]
               /\ convert'.items[i].status # "none"
               /\ convert'.items[i].status \in {"ok", "skip_exists"} =>
                     wav'[convert'.items[i].rec] # "absent"
    <3>1. convert'.items[i].rec = Rec(i) /\ convert'.items[i].status = item[i].status
        BY <1>1, <1>5
    <3>2. item[i].status \in {"ok", "skip_exists"} => wav[Rec(i)] # "absent"
        BY <1>6 DEF JobCounted, Exists
    <3> QED BY <1>1, <1>6, <3>1, <3>2 DEF Rec
  <2> QED BY <1>1, <1>3, <1>4, <2>1, <2>2, <2>3 DEF ManifestMatchesFetch, Exists
<1>9. ProbeVouches'
  <2>1. DOMAIN convert'.items = 1..n
      BY <1>1, <1>5
  <2>2. ASSUME ProbeExact, NEW i \in 1..n, convert'.items[i].probe,
               \A k \in 1..n : convert'.items[k].rec = convert'.items[i].rec => k = i
        PROVE  wav[convert'.items[i].rec] = "whole"
    <3>1. convert'.items[i].rec = Rec(i) /\ item[i].probe
        BY <1>1, <1>5, <2>2
    <3>2. \A k \in 1..n : Rec(k) = Rec(i) => k = i
        BY <1>1, <1>5, <2>2
    <3>3. ~Contended(Rec(i))
        BY <1>4, <3>2 DEF Contended
    <3> QED BY <1>6, <2>2, <3>1, <3>3 DEF JobFile
  <2> QED BY <1>1, <2>1, <2>2 DEF ProbeVouches
<1> QED BY <1>7, <1>8, <1>9, EndStage DEF StageInv

-----------------------------------------------------------------------------
(* The steps of the workers.                                               *)

\* Workers on one record work on two jobs, so that the record has two jobs.
LEMMA TwoOnOneRecord ==
    ASSUME BaseInv, NEW v \in Workers, NEW w \in Workers, v # w,
           wpc[v] = "work", wpc[w] = "work", Record(v) = Record(w)
    PROVE  Contended(Record(w))
<1>1. hand[v] # hand[w]
    BY HandIsAlone DEF BaseInv
<1>2. hand[v] \in DOMAIN jobs /\ hand[w] \in DOMAIN jobs
    BY WorkOnJob
<1> QED BY <1>1, <1>2 DEF Contended, Record

\* What one step of convert_one does to the worker's own job and its wav.
LEMMA OwnStep ==
    ASSUME ConvertInv, NEW w \in Workers, ConvertOne(w)
    PROVE  /\ item' \in [1..MaxJobs -> Items] /\ wav' \in [Records -> WavState]
           /\ cpc' \in [Workers -> Steps] /\ shared' \subseteq Records
           /\ cpc'[w] \in {"check", "spawn", "encode"} => item'[hand[w]] = NoItem
           /\ cpc'[w] = "probe" => item'[hand[w]].status # "none" /\ ~item'[hand[w]].probe
           /\ cpc'[w] = "done" => item'[hand[w]].status # "none"
           /\ item'[hand[w]].status \in {"ok", "skip_exists"} => wav'[Record(w)] # "absent"
           /\ ~Contended(Record(w)) =>
                 /\ cpc'[w] = "spawn" => wav'[Record(w)] = "absent"
                 /\ cpc'[w] = "encode" => wav'[Record(w)] = "broken"
                 /\ cpc'[w] = "probe" => wav'[Record(w)] # "absent"
                 /\ item'[hand[w]].status = "ok" \/ (ProbeExact /\ item'[hand[w]].probe) =>
                       wav'[Record(w)] = "whole"
<1> DEFINE h == hand[w]
           r == Record(w)
<1>1. wpc[w] = "work"
    BY DEF ConvertOne, CheckOutput, FfmpegRefuses, FfmpegOpens, FfmpegSucceeds, FfmpegFails,
           Probe, At
<1>2. h \in 1..MaxJobs /\ h \in DOMAIN jobs /\ r \in Records
    BY <1>1, WorkOnJob DEF ConvertInv
<1>3. /\ item \in [1..MaxJobs -> Items] /\ wav \in [Records -> WavState]
      /\ cpc \in [Workers -> Steps] /\ shared \subseteq Records /\ item[h] \in Items
    BY <1>2 DEF ConvertInv, BaseInv, OwnTypes
<1>4. /\ cpc[w] \in {"check", "spawn", "encode"} => item[h] = NoItem
      /\ cpc[w] = "probe" => item[h].status # "none" /\ ~item[h].probe
    BY <1>1 DEF ConvertInv, ItemInv
<1>5. Contended(r) \/
        /\ cpc[w] = "spawn" => wav[r] = "absent"
        /\ cpc[w] = "encode" => wav[r] = "broken"
        /\ cpc[w] = "probe" => wav[r] # "absent"
    BY <1>1 DEF ConvertInv, WavInv, OneWriter
<1>6. /\ Contended(r) \/ (item[h].status = "ok" => wav[r] = "whole")
      /\ item[h].status \in {"ok", "skip_exists"} => wav[r] # "absent"
    BY <1>2 DEF ConvertInv, WavInv, JobFile, JobCounted, Exists, Record
<1>7. CASE CheckOutput(w) \/ FfmpegRefuses(w) \/ FfmpegFails(w)
  <2>1. /\ wav' = wav /\ shared' \subseteq Records /\ item[h] = NoItem
        /\ \/ /\ item' = [item EXCEPT ![h].status = "skip_exists"]
              /\ cpc' = [cpc EXCEPT ![w] = "probe"] /\ wav[r] # "absent"
           \/ /\ \E s \in {"dry_run", "ffmpeg_error"} : item' = [item EXCEPT ![h].status = s]
              /\ cpc' = [cpc EXCEPT ![w] = "done"]
           \/ item' = item /\ cpc' = [cpc EXCEPT ![w] = "spawn"] /\ wav[r] = "absent"
      BY <1>3, <1>4, <1>7
         DEF CheckOutput, FfmpegRefuses, FfmpegFails, At, Goto, SetStatus, Exists
  <2> HIDE DEF h, r
  <2>2. CASE item' = [item EXCEPT ![h].status = "skip_exists"]
             /\ cpc' = [cpc EXCEPT ![w] = "probe"] /\ wav[r] # "absent"
      BY <1>2, <1>3, <2>1, <2>2 DEF h, r, NoItem, Items, Statuses, Steps
  <2>3. CASE item' = [item EXCEPT ![h].status = "dry_run"]
             /\ cpc' = [cpc EXCEPT ![w] = "done"]
      BY <1>2, <1>3, <2>1, <2>3 DEF h, r, NoItem, Items, Statuses, Steps
  <2>4. CASE item' = [item EXCEPT ![h].status = "ffmpeg_error"]
             /\ cpc' = [cpc EXCEPT ![w] = "done"]
      BY <1>2, <1>3, <2>1, <2>4 DEF h, r, NoItem, Items, Statuses, Steps
  <2>5. CASE item' = item /\ cpc' = [cpc EXCEPT ![w] = "spawn"] /\ wav[r] = "absent"
      BY <1>2, <1>3, <2>1, <2>5 DEF h, r, NoItem, Steps
  <2> QED BY <2>1, <2>2, <2>3, <2>4, <2>5
<1>8. CASE FfmpegOpens(w)
  <2>1. /\ wav' = [wav EXCEPT ![r] = "broken"] /\ item' = item /\ item[h] = NoItem
        /\ cpc' = [cpc EXCEPT ![w] = "encode"] /\ shared' \subseteq Records
      BY <1>2, <1>3, <1>4, <1>8 DEF FfmpegOpens, At, Goto
  <2> QED BY <1>2, <1>3, <2>1 DEF NoItem, WavState, Steps
<1>9. CASE FfmpegSucceeds(w)
  <2>1. /\ item' = [item EXCEPT ![h].status = "ok"] /\ item[h] = NoItem
        /\ cpc' = [cpc EXCEPT ![w] = "probe"] /\ shared' \subseteq Records
        /\ At(w, "encode")
      BY <1>3, <1>4, <1>9 DEF FfmpegSucceeds, At, Goto, SetStatus
  <2>2. PICK c \in Written(w) : wav' = [wav EXCEPT ![r] = c]
      BY <1>9 DEF FfmpegSucceeds
  <2>3. c \in {"broken", "whole"}
      BY DEF Written
  <2>4. ~Contended(r) => c = "whole"
    <3>1. ~Contended(r) => Encoding(r) = {w} /\ r \notin shared
      <4>1. \A v \in Workers \ {w} : wpc[v] = "work" /\ Record(v) = r => Contended(r)
          BY <1>1, TwoOnOneRecord DEF ConvertInv
      <4> QED BY <2>1, <4>1 DEF Encoding, At, ConvertInv, WavInv
    <3> QED BY <3>1 DEF Written
  <2> HIDE DEF h, r
  <2> QED BY <1>2, <1>3, <2>1, <2>2, <2>3, <2>4 DEF h, r, NoItem, Items, Statuses, WavState, Steps
<1>10. CASE Probe(w)
  <2>1. PICK ok \in BOOLEAN :
          /\ wav[r] = "broken" /\ ProbeExact => ~ok
          /\ item' = [item EXCEPT ![h].probe = ok]
      BY <1>10 DEF Probe
  <2>2. /\ wav' = wav /\ shared' = shared /\ cpc[w] = "probe"
        /\ cpc' = [cpc EXCEPT ![w] = "done"]
      BY <1>10 DEF Probe, At, Goto
  <2>3. /\ item' \in [1..MaxJobs -> Items] /\ item'[h].status = item[h].status
        /\ item'[h].probe = ok
      BY <1>2, <1>3, <2>1 DEF Items
  <2>4. ~Contended(r) /\ ProbeExact /\ ok => wav[r] = "whole"
      BY <1>2, <1>3, <1>5, <2>1, <2>2 DEF WavState
  <2> HIDE DEF h, r
  <2> QED BY <1>2, <1>3, <1>4, <1>6, <2>2, <2>3, <2>4 DEF h, r, Steps
<1> QED BY <1>7, <1>8, <1>9, <1>10 DEF ConvertOne

\* ... and what it leaves alone: every other job, worker and wav.
LEMMA OtherSteps ==
    ASSUME ConvertInv, NEW w \in Workers, ConvertOne(w)
    PROVE  /\ \A j \in 1..MaxJobs \ {hand[w]} : item'[j] = item[j]
           /\ \A v \in Workers \ {w} : cpc'[v] = cpc[v]
           /\ \A r \in Records \ {Record(w)} : wav'[r] = wav[r]
           /\ \A r \in shared' : r \in shared \/ Contended(r)
           /\ wpc[w] = "work" /\ UNCHANGED poolVars
<1>1. wpc[w] = "work" /\ UNCHANGED poolVars
    BY DEF ConvertOne, CheckOutput, FfmpegRefuses, FfmpegOpens, FfmpegSucceeds, FfmpegFails,
           Probe, At, InConvertOne
<1>2. /\ hand[w] \in 1..MaxJobs /\ item \in [1..MaxJobs -> Items]
      /\ wav \in [Records -> WavState] /\ cpc \in [Workers -> Steps]
    BY <1>1, WorkOnJob DEF ConvertInv, BaseInv, OwnTypes
<1>3. \A r \in shared' : r \in shared \/ Contended(r)
  <2>1. CASE FfmpegOpens(w)
    <3>1. Encoding(Record(w)) # {} => Contended(Record(w))
      <4>1. \A v \in Workers \ {w} :
               wpc[v] = "work" /\ Record(v) = Record(w) => Contended(Record(w))
          BY <1>1, TwoOnOneRecord DEF ConvertInv
      <4> QED BY <2>1, <4>1 DEF FfmpegOpens, Encoding, At
    <3> QED BY <2>1, <3>1 DEF FfmpegOpens
  <2>2. CASE ~FfmpegOpens(w)
      BY <2>2 DEF ConvertOne, CheckOutput, FfmpegRefuses, FfmpegSucceeds, FfmpegFails, Probe
  <2> QED BY <2>1, <2>2
<1>4. /\ \A j \in 1..MaxJobs \ {hand[w]} : item'[j] = item[j]
      /\ \A v \in Workers \ {w} : cpc'[v] = cpc[v]
      /\ \A r \in Records \ {Record(w)} : wav'[r] = wav[r]
    BY <1>2 DEF ConvertOne, CheckOutput, FfmpegRefuses, FfmpegOpens, FfmpegSucceeds, FfmpegFails,
                Probe, Goto, SetStatus
<1> QED BY <1>1, <1>3, <1>4

\* Nothing but an ffmpeg writes a wav.
LEMMA WavWriters ==
    ASSUME ConvertInv, [Next]_vars, NEW r \in Records, wav'[r] # wav[r]
    PROVE  /\ wav'[r] \in {"broken", "whole"} /\ jobs' = jobs
           /\ \E w \in Workers : Record(w) = r /\ (FfmpegOpens(w) \/ FfmpegSucceeds(w))
<1>1. wav \in [Records -> WavState]
    BY DEF ConvertInv, BaseInv, OwnTypes
<1>2. ASSUME NEW w \in Workers, FfmpegOpens(w) \/ FfmpegSucceeds(w)
      PROVE  /\ wav'[r] \in {"broken", "whole"} /\ jobs' = jobs /\ Record(w) = r
    BY <1>1, <1>2 DEF FfmpegOpens, FfmpegSucceeds, Written, InConvertOne, mainVars
<1>3. ASSUME NEW w \in Workers,
             CheckOutput(w) \/ FfmpegRefuses(w) \/ FfmpegFails(w) \/ Probe(w) \/ PoolWorker(w)
      PROVE  wav' = wav
    BY <1>3 DEF CheckOutput, FfmpegRefuses, FfmpegFails, Probe, PoolWorker, fileVars
<1>4. ASSUME StartRun \/ Main \/ Kill  PROVE wav' = wav
    BY <1>4 DEF StartRun, Main, StartFails, StartJobs, PoolMain, PoolEmpty, TruncateManifest,
                FillManifest, ManifestFails, Kill, fileVars
<1>5. CASE UNCHANGED vars
    BY <1>5 DEF vars, fileVars
<1> QED BY <1>2, <1>3, <1>4, <1>5 DEF Next, Worker, ConvertOne

LEMMA ConvertOneStage ==
    ASSUME ConvertInv, NEW w \in Workers, ConvertOne(w)
    PROVE  StageInv'
<1>1. /\ UNCHANGED <<poolVars, mainVars, fetch, raw, convert>> /\ wpc[w] = "work"
    BY OtherSteps DEF ConvertOne, CheckOutput, FfmpegRefuses, FfmpegOpens, FfmpegSucceeds,
                      FfmpegFails, Probe, InConvertOne
<1>2. /\ \A j \in 1..MaxJobs \ {hand[w]} : item'[j] = item[j]
      /\ \A v \in Workers \ {w} : cpc'[v] = cpc[v]
      /\ \A r \in Records \ {Record(w)} : wav'[r] = wav[r]
      /\ \A r \in shared' : r \in shared \/ Contended(r)
    BY OtherSteps
<1>3. /\ mpc = "pool" /\ exit # "ok" /\ hand[w] \in 1..MaxJobs /\ hand[w] \in DOMAIN jobs
      /\ hand[w] \notin Pending /\ hand[w] \notin Finished
      /\ \A v \in Workers : wpc[v] = "work" /\ hand[v] = hand[w] => v = w
    BY <1>1, WorkOnJob, HandIsAlone DEF ConvertInv, BaseInv, PhaseInv
<1>4. /\ Pending \subseteq 1..MaxJobs /\ Finished \subseteq 1..MaxJobs
      /\ DOMAIN jobs \subseteq 1..MaxJobs
    BY <1>3, PendingOrFinished, JobsOfRun DEF ConvertInv, BaseInv
<1>5. /\ Pending' = Pending /\ Finished' = Finished /\ wpc' = wpc /\ hand' = hand
      /\ \A r : Contended(r)' <=> Contended(r)
      /\ \A j : Rec(j)' = Rec(j)
      /\ jobs' = jobs /\ mpc' = mpc /\ exit' = exit
    BY <1>1 DEF poolVars, mainVars, Pending, Finished, Unsent, Contended, Rec
<1>6. \A v \in Workers : Record(v)' = Record(v)
    BY <1>5 DEF Record
<1>7. OwnTypes'
    BY <1>1, OwnStep DEF ConvertInv, BaseInv, OwnTypes, mainVars
<1>8. PhaseInv'
  <2>1. \A l : Kept(l)' = Kept(l)
      BY <1>1 DEF Kept
  <2> QED BY <1>1, <1>3, <2>1 DEF ConvertInv, BaseInv, PhaseInv, poolVars, mainVars
<1>9. ItemInv'
  <2>1. \A v \in Workers \ {w} : wpc[v] = "work" => hand[v] \in 1..MaxJobs \ {hand[w]}
      BY <1>3, WorkOnJob DEF ConvertInv
  <2>2. ASSUME NEW v \in Workers \ {w}, wpc[v] = "work"
        PROVE  item'[hand[v]] = item[hand[v]] /\ cpc'[v] = cpc[v]
      BY <1>2, <2>1, <2>2
  <2>3. \A j \in Pending \cup Finished : item'[j] = item[j]
      BY <1>2, <1>3, <1>4
  <2> QED BY <1>5, <2>2, <2>3, OwnStep DEF ConvertInv, ItemInv
<1>10. ASSUME NEW v \in Workers \ {w}, wpc[v] = "work"  PROVE OneWriter(v)'
  <2>1. OneWriter(v) /\ Record(v) \in Records
      BY <1>10, WorkOnJob DEF ConvertInv, WavInv
  <2>2. CASE Record(v) = Record(w)
      BY <1>1, <1>5, <1>6, <1>10, <2>2, TwoOnOneRecord DEF ConvertInv, OneWriter
  <2>3. CASE Record(v) # Record(w)
      BY <1>2, <1>5, <1>6, <2>1, <2>3 DEF OneWriter
  <2> QED BY <2>2, <2>3
<1>11. OneWriter(w)'
    BY <1>5, <1>6, OwnStep DEF OneWriter
<1>12. ASSUME NEW j \in DOMAIN jobs  PROVE JobFile(j)'
  <2>1. Rec(j) \in Records
      BY JobOf DEF ConvertInv, BaseInv, OwnTypes, Rec
  <2>2. CASE j = hand[w]
    <3>1. Rec(j) = Record(w)
        BY <2>2 DEF Record
    <3> QED BY <1>5, <2>2, <3>1, OwnStep DEF JobFile
  <2>3. CASE j # hand[w]
    <3>1. item'[j] = item[j]
        BY <1>2, <1>4, <2>3
    <3>2. CASE Rec(j) = Record(w)
        BY <1>3, <1>5, <2>3, <3>2 DEF JobFile, Contended, Record
    <3>3. CASE Rec(j) # Record(w)
        BY <1>2, <1>5, <2>1, <3>1, <3>3 DEF ConvertInv, WavInv, JobFile
    <3> QED BY <3>2, <3>3
  <2> QED BY <2>2, <2>3
<1>13. ASSUME NEW j \in DOMAIN jobs  PROVE JobCounted(j)'
  <2>1. Rec(j) \in Records /\ Rec(j)' = Rec(j)
      BY <1>5, JobOf DEF ConvertInv, BaseInv, OwnTypes, Rec
  <2>2. CASE j = hand[w]
      BY <2>1, <2>2, OwnStep DEF JobCounted, Exists, Record
  <2>3. CASE j # hand[w]
    <3>1. item'[j] = item[j]
        BY <1>2, <1>4, <2>3
    <3>2. wav[Rec(j)] # "absent" => wav'[Rec(j)] # "absent"
        BY <2>1, WavWriters DEF Next, Worker
    <3> QED BY <2>1, <3>1, <3>2 DEF ConvertInv, WavInv, JobCounted, Exists
  <2> QED BY <2>2, <2>3
<1>14. WavInv'
    BY <1>2, <1>5, <1>10, <1>11, <1>12, <1>13 DEF ConvertInv, WavInv
<1>15. ManifestMatchesFetch' /\ ProbeVouches'
    BY <1>3, <1>5 DEF ManifestMatchesFetch, ProbeVouches
<1> QED BY <1>7, <1>8, <1>9, <1>14, <1>15 DEF StageInv

\* A worker on its way to or from a job touches no wav and no item.
LEMMA PoolWorkerStage ==
    ASSUME ConvertInv, NEW w \in Workers, PoolWorker(w)
    PROVE  StageInv'
<1>1. /\ UNCHANGED <<fileVars, mainVars, item>> /\ cpc'[w] = "check"
      /\ \A v \in Workers \ {w} : cpc'[v] = cpc[v]
      /\ cpc' \in [Workers -> Steps]
    BY DEF PoolWorker, ConvertInv, BaseInv, OwnTypes, Steps
<1>2. /\ mpc' = mpc /\ exit' = exit /\ jobs' = jobs /\ wav' = wav /\ shared' = shared
      /\ pmain' = pmain /\ njobs' = njobs
      /\ \A r : Contended(r)' <=> Contended(r)
      /\ \A j : Rec(j)' = Rec(j)
      /\ \A l : Kept(l)' = Kept(l)
    BY <1>1, WorkersKeepMain DEF ConvertInv, Worker, mainVars, fileVars, Contended, Rec, Kept
<1>3. OwnTypes'
    BY <1>1 DEF ConvertInv, BaseInv, OwnTypes, fileVars, mainVars
<1>4. PhaseInv'
    BY <1>1, <1>2 DEF ConvertInv, BaseInv, PhaseInv, fileVars
<1>5. /\ \A v \in Workers \ {w} : wpc'[v] = wpc[v] /\ hand'[v] = hand[v]
      /\ Pending' \subseteq Pending
      /\ wpc'[w] = "work" => hand'[w] \in Pending
      /\ \A j \in Finished' : j \in Finished \/ item[j].status # "none"
  <2>1. CASE Lock(w) \/ Recv(w) \/ RecvClosed(w)
      BY <2>1, TakeMoves DEF ConvertInv, BaseInv
  <2>2. CASE SendResult(w) /\ cpc[w] = "done"
      BY <2>2, GiveMoves DEF ConvertInv, BaseInv, ItemInv
  <2> QED BY <2>1, <2>2 DEF PoolWorker
<1>6. ItemInv'
    BY <1>1, <1>5 DEF ConvertInv, ItemInv
<1>7. ASSUME NEW v \in Workers, wpc'[v] = "work"  PROVE OneWriter(v)'
  <2>1. CASE v = w
      BY <1>1, <2>1 DEF OneWriter
  <2>2. CASE v # w
      BY <1>1, <1>2, <1>5, <1>7, <2>2 DEF ConvertInv, WavInv, OneWriter, Record
  <2> QED BY <2>1, <2>2
<1>8. WavInv'
    BY <1>1, <1>2, <1>7 DEF ConvertInv, WavInv, JobFile, JobCounted, Exists
<1>9. ManifestMatchesFetch' /\ ProbeVouches'
  <2>1. mpc # "off"
    <3>1. pmain # "idle"
        BY DEF PoolWorker, Lock, Recv, RecvClosed, SendResult, ConvertInv, BaseInv, PoolInv,
               MainInv, PoolInit
    <3> QED BY <3>1 DEF ConvertInv, BaseInv, PhaseInv
  <2> QED BY <1>2, <2>1 DEF ConvertInv, BaseInv, PhaseInv, ManifestMatchesFetch, ProbeVouches
<1> QED BY <1>3, <1>4, <1>6, <1>8, <1>9 DEF StageInv

\* A whole wav is never written again, but by a second job of its record.
LEMMA WholeStep ==
    ASSUME ConvertInv, [Next]_vars, NEW r \in Records, wav[r] = "whole"
    PROVE  wav'[r] = "whole" \/ Contended(r)
<1>1. ASSUME NEW w \in Workers, Record(w) = r, FfmpegOpens(w) \/ FfmpegSucceeds(w)
      PROVE  Contended(r)
    BY <1>1 DEF ConvertInv, WavInv, OneWriter, FfmpegOpens, FfmpegSucceeds, At
<1> QED BY <1>1, WavWriters

-----------------------------------------------------------------------------
(* What the later stages are promised: every step is one of ConvertRuns.   *)

\* Whose ffmpeg is running has opened its file in this run, in this step or
\* before, for the job and the jobs it has now.
LEMMA EncodingStep ==
    ASSUME ConvertInv, [Next]_vars, NEW v \in Workers, At(v, "encode")'
    PROVE  /\ At(v, "encode") \/ FfmpegOpens(v)
           /\ jobs' = jobs /\ hand'[v] = hand[v]
<1>1. CASE StartRun \/ StartFails \/ PoolEmpty \/ TruncateManifest \/ UNCHANGED vars
    BY <1>1 DEF StartRun, StartFails, PoolEmpty, TruncateManifest, At, vars, poolVars, mainVars
<1>2. CASE PoolMain
    BY <1>2, MainMoves DEF PoolMain, At, ConvertInv, BaseInv
<1>3. CASE StartJobs
  <2>1. PICK n \in 0..MaxJobs : StartPool(n)
      BY <1>3, StartsPool DEF ConvertInv, BaseInv
  <2> QED BY <2>1, StartMoves DEF At, ConvertInv, BaseInv
<1>4. CASE FillManifest \/ ManifestFails \/ Kill
    BY <1>4, EndMoves DEF FillManifest, ManifestFails, Kill, At, ConvertInv, BaseInv
<1>5. ASSUME NEW w \in Workers, PoolWorker(w)
      PROVE  At(v, "encode") /\ jobs' = jobs /\ hand'[v] = hand[v]
  <2>1. cpc'[w] = "check" /\ (v # w => cpc'[v] = cpc[v]) /\ jobs' = jobs
      BY <1>5 DEF PoolWorker, mainVars, ConvertInv, BaseInv, OwnTypes
  <2>2. v # w
      BY <2>1 DEF At
  <2>3. wpc'[v] = wpc[v] /\ hand'[v] = hand[v]
      BY <1>5, <2>2, TakeMoves, GiveMoves DEF PoolWorker, ConvertInv, BaseInv
  <2> QED BY <2>1, <2>2, <2>3 DEF At
<1>6. ASSUME NEW w \in Workers, ConvertOne(w)
      PROVE  (At(v, "encode") \/ FfmpegOpens(v)) /\ jobs' = jobs /\ hand'[v] = hand[v]
  <2>1. jobs' = jobs /\ wpc' = wpc /\ hand' = hand
      BY <1>6 DEF ConvertOne, CheckOutput, FfmpegRefuses, FfmpegOpens, FfmpegSucceeds,
                  FfmpegFails, Probe, InConvertOne, mainVars, poolVars
  <2>2. CASE v # w
    <3>1. cpc'[v] = cpc[v]
        BY <1>6, <2>2, OtherSteps
    <3> QED BY <2>1, <3>1 DEF At
  <2>3. CASE v = w /\ ~FfmpegOpens(w)
    <3>1. cpc'[w] # "encode"
        BY <1>6, <2>3 DEF ConvertOne, CheckOutput, FfmpegRefuses, FfmpegSucceeds, FfmpegFails,
                          Probe, Goto, ConvertInv, BaseInv, OwnTypes
    <3> QED BY <2>3, <3>1 DEF At
  <2> QED BY <2>1, <2>2, <2>3
<1> QED BY <1>1, <1>2, <1>3, <1>4, <1>5, <1>6 DEF Next, Main, Worker

\* What is shown of a wav changes once, from absent, unless two jobs write it.
LEMMA ShownWavStep ==
    ASSUME ConvertInv, [Next]_vars, NEW r \in Records
    PROVE  \/ ShownWav'[r] = ShownWav[r]
           \/ ShownWav[r] = "absent"
           \/ Contended(r) /\ ShownWav'[r] \in {"broken", "whole"}
<1> DEFINE Hidden == Encoding(r) # {} /\ ~Contended(r)
<1>1. /\ ShownWav[r] = IF Hidden THEN "absent" ELSE wav[r]
      /\ ShownWav'[r] = IF Hidden' THEN "absent" ELSE wav'[r]
    BY DEF ShownWav
<1>2. jobs' = jobs => (Contended(r)' <=> Contended(r))
    BY DEF Contended, Rec
<1>3. ASSUME Hidden'
      PROVE  /\ jobs' = jobs
             /\ Encoding(r) # {} \/ \E v \in Workers : FfmpegOpens(v) /\ Record(v) = r
  <2>1. PICK v \in Workers : At(v, "encode")' /\ Record(v)' = r
      BY <1>3 DEF Encoding
  <2>2. (At(v, "encode") \/ FfmpegOpens(v)) /\ jobs' = jobs /\ hand'[v] = hand[v]
      BY <2>1, EncodingStep
  <2>3. Record(v) = r
      BY <2>1, <2>2 DEF Record, Rec
  <2> QED BY <2>2, <2>3 DEF Encoding
<1>4. ASSUME NEW w \in Workers, FfmpegOpens(w) \/ FfmpegSucceeds(w), Record(w) = r, ~Contended(r)
      PROVE  ShownWav[r] = "absent"
  <2>1. OneWriter(w)
      BY <1>4 DEF ConvertInv, WavInv, FfmpegOpens, FfmpegSucceeds, At
  <2>2. CASE FfmpegOpens(w)
    <3>1. wav[r] = "absent"
        BY <1>4, <2>1, <2>2 DEF OneWriter, FfmpegOpens, At
    <3> QED BY <1>1, <3>1
  <2>3. CASE FfmpegSucceeds(w)
    <3>1. w \in Encoding(r)
        BY <1>4, <2>3 DEF FfmpegSucceeds, Encoding
    <3> QED BY <1>1, <1>4, <3>1
  <2> QED BY <1>4, <2>2, <2>3
<1> SUFFICES ASSUME ShownWav[r] # "absent"
             PROVE  \/ ShownWav'[r] = ShownWav[r]
                    \/ Contended(r) /\ ShownWav'[r] \in {"broken", "whole"}
    OBVIOUS
<1>5. ~Hidden /\ ShownWav[r] = wav[r]
    BY <1>1
<1>6. ~Hidden'
    BY <1>2, <1>3, <1>4, <1>5
<1>7. wav'[r] = wav[r] \/ (Contended(r) /\ wav'[r] \in {"broken", "whole"})
    BY <1>4, WavWriters
<1> HIDE DEF Hidden
<1> QED BY <1>1, <1>5, <1>6, <1>7

\* The jobs of a run are those of one of the lists that ConvertRuns is given.
LEMMA ListOfJobs ==
    ASSUME OwnTypes, NEW l \in fetch
    PROVE  RecordsOf(Kept(l)) \in RecordLists
BY DEF OwnTypes, RecordLists, Kept

LEMMA ContendedInLists ==
    ASSUME BaseInv, NEW r, Contended(r)
    PROVE  Runs!Contended(r)
<1>1. PICK i \in DOMAIN jobs, j \in DOMAIN jobs : i # j /\ Rec(i) = r /\ Rec(j) = r
    BY DEF Contended
<1>2. jobs # <<>>
    BY <1>1
<1>3. PICK l \in fetch : jobs = Kept(l)
    BY <1>2 DEF BaseInv, PhaseInv, OwnTypes
<1>4. RecordsOf(jobs) \in RecordLists
    BY <1>3, ListOfJobs DEF BaseInv
<1>5. DOMAIN RecordsOf(jobs) = DOMAIN jobs /\ \A k \in DOMAIN jobs : RecordsOf(jobs)[k] = Rec(k)
    BY DEF RecordsOf, Rec
<1> QED BY <1>1, <1>4, <1>5 DEF Runs!Contended

LEMMA ShownWavChanges ==
    ASSUME ConvertInv, ConvertInv', [Next]_vars
    PROVE  /\ ShownWav' \in [Records -> {"absent", "broken", "whole"}]
           /\ \A r \in Records : Runs!NextWav(r, ShownWav'[r])
<1>1. ShownWav' \in [Records -> {"absent", "broken", "whole"}]
  <2>1. \A r \in Records : wav'[r] \in {"absent", "broken", "whole"}
      BY DEF ConvertInv, BaseInv, OwnTypes, WavState
  <2> QED BY <2>1 DEF ShownWav
<1>2. ASSUME NEW r \in Records  PROVE Runs!NextWav(r, ShownWav'[r])
  <2>1. ShownWav'[r] \in {"absent", "broken", "whole"}
      BY <1>1
  <2>2. Contended(r) => Runs!Contended(r)
      BY ContendedInLists DEF ConvertInv
  <2> QED BY <2>1, <2>2, ShownWavStep DEF Runs!NextWav
<1> QED BY <1>1, <1>2

\* A convert.json that is written whole keeps the promise about its flags.
LEMMA ShownManifest ==
    ASSUME ConvertInv, ConvertInv', FillManifest, run >= 1
    PROVE  \E list \in RecordLists : \E flag \in [DOMAIN list -> BOOLEAN] :
              /\ Runs!Vouched(list, flag, ShownWav')
              /\ ShownConvert' = [state |-> "whole", items |->
                    [i \in DOMAIN list |-> [rec |-> list[i], probe |-> flag[i]]]]
<1>1. /\ exit' = "ok" /\ run' = run /\ fetch' = fetch /\ raw' = raw
      /\ convert' = [by |-> run, torn |-> FALSE, items |-> Results] /\ fetch' \subseteq FetchLists
    BY DEF FillManifest, ConvertInv, BaseInv, OwnTypes
<1>2. PICK l \in fetch' :
          /\ Len(convert'.items) = Len(KeptOf(l, raw))
          /\ \A i \in DOMAIN KeptOf(l, raw) : convert'.items[i].rec = RecordOf[KeptOf(l, raw)[i]]
    BY <1>1 DEF ConvertInv, ManifestMatchesFetch, Kept
<1> DEFINE list == RecordsOf(KeptOf(l, raw))
           flag == [i \in DOMAIN list |-> convert'.items[i].probe]
<1>3. list \in RecordLists
  <2>1. raw \subseteq Names /\ l \in FetchLists
      BY <1>1 DEF ConvertInv, BaseInv, OwnTypes
  <2> QED BY <2>1 DEF RecordLists
<1>4. DOMAIN list = DOMAIN convert'.items
  <2>1. KeptOf(l, raw) \in Seq(Names)
      BY <1>1, ConverterAssumption, KeptTyped
  <2>2. DOMAIN convert'.items = 1..Len(collected)
      BY <1>1 DEF Results
  <2>3. Len(collected) \in Nat
      BY PoolAssumption DEF ConvertInv, BaseInv, PoolInv, PoolTypeOK
  <2>4. Len(convert'.items) = Len(collected)
      BY <1>1, <2>3 DEF Results
  <2>5. DOMAIN KeptOf(l, raw) = 1..Len(KeptOf(l, raw))
      BY <2>1, LenProperties
  <2>6. DOMAIN list = DOMAIN KeptOf(l, raw)
      BY DEF RecordsOf
  <2> QED BY <1>2, <2>2, <2>4, <2>5, <2>6
<1>5. \A i \in DOMAIN list : convert'.items[i].rec = list[i]
    BY <1>2 DEF RecordsOf
<1>6. flag \in [DOMAIN list -> BOOLEAN]
  <2>1. \A i \in DOMAIN convert'.items : convert'.items[i].probe \in BOOLEAN
    <3>1. \A i \in 1..Len(collected) : collected[i] \in 1..MaxJobs
      <4>1. mpc = "writing" /\ pmain = "returned"
          BY DEF FillManifest, ConvertInv, BaseInv, PhaseInv
      <4>2. collected \in Seq(Jobs)
          BY DEF ConvertInv, BaseInv, PoolInv, PoolTypeOK
      <4> QED BY <4>1, <4>2, JobsOfRun, ElementOfSeq DEF ConvertInv
    <3>2. \A j \in 1..MaxJobs : item[j].probe \in BOOLEAN
        BY DEF ConvertInv, BaseInv, OwnTypes, Items
    <3> QED BY <1>1, <3>1, <3>2 DEF Results
  <2> QED BY <1>4, <2>1
<1>7. Runs!Vouched(list, flag, ShownWav')
  <2> SUFFICES ASSUME ProbeExact, NEW i \in DOMAIN list, flag[i], ~Runs!Contended(list[i])
               PROVE  ShownWav'[list[i]] = "whole"
      BY DEF Runs!Vouched
  <2>1. \A k \in DOMAIN list : list[k] = list[i] => k = i
      BY <1>3 DEF Runs!Contended
  <2>2. \A k \in DOMAIN convert'.items : convert'.items[k].rec = convert'.items[i].rec => k = i
      BY <1>4, <1>5, <2>1
  <2>3. wav'[list[i]] = "whole"
      BY <1>1, <1>4, <1>5, <2>2 DEF ConvertInv, ProbeVouches
  <2>4. PICK r \in Records : r = list[i]
      BY <1>1, <1>4, <1>5 DEF ConvertInv, BaseInv, OwnTypes
  <2>5. Encoding(r)' = {}
    <3>1. \A w \in Workers : wpc'[w] = "none"
        BY EndMoves DEF FillManifest, ConvertInv, BaseInv
    <3> QED BY <3>1 DEF Encoding, At
  <2>6. ShownWav'[r] = wav'[r]
      BY <2>5 DEF ShownWav
  <2> QED BY <2>3, <2>4, <2>6
<1>8. ShownConvert' = [state |-> "whole", items |->
            [i \in DOMAIN list |-> [rec |-> list[i], probe |-> flag[i]]]]
  <2>1. convert'.by # 0 /\ convert'.torn = FALSE
      BY <1>1 DEF ConvertInv, BaseInv, OwnTypes
  <2>2. ShownConvert' = [state |-> "whole", items |->
            [i \in DOMAIN convert'.items |->
                [rec |-> convert'.items[i].rec, probe |-> convert'.items[i].probe]]]
      BY <2>1 DEF ShownConvert
  <2> HIDE DEF list
  <2> QED BY <1>4, <1>5, <2>2
<1> HIDE DEF list, flag
<1> QED BY <1>3, <1>6, <1>7, <1>8

\* Every step of the stage is one of ConvertRuns or changes nothing.
LEMMA RunsStep ==
    ASSUME ConvertInv, ConvertInv', [Next]_vars, mpc # "off" => run >= 1
    PROVE  Runs!Converts
<1>1. CASE FillManifest
  <2>1. run >= 1
      BY <1>1 DEF FillManifest
  <2> QED BY <1>1, <2>1, ShownWavChanges, ShownManifest DEF Runs!Converts
<1>2. CASE TruncateManifest
  <2>1. convert'.torn = TRUE
      BY <1>2 DEF TruncateManifest, ConvertInv, BaseInv, OwnTypes
  <2>2. ShownConvert' = [state |-> "torn", items |-> <<>>]
      BY <2>1 DEF ShownConvert
  <2> QED BY <2>2, ShownWavChanges DEF Runs!Converts
<1>3. CASE ~FillManifest /\ ~TruncateManifest
  <2>1. convert' = convert
      BY <1>3 DEF Next, Main, Worker, ConvertOne, PoolWorker, StartRun, StartFails, StartJobs,
                  PoolMain, PoolEmpty, ManifestFails, Kill, CheckOutput, FfmpegRefuses,
                  FfmpegOpens, FfmpegSucceeds, FfmpegFails, Probe, InConvertOne, vars, fileVars
  <2>2. ShownConvert' = ShownConvert
      BY <2>1 DEF ShownConvert
  <2> QED BY <2>2, ShownWavChanges DEF Runs!Converts
<1> QED BY <1>1, <1>2, <1>3

\* The lists satisfy what Matcher assumes of them.
LEMMA ListsOfRecords == \A q \in RecordLists : q \in Seq(Records)
<1> SUFFICES ASSUME NEW l \in FetchLists, NEW files \in SUBSET Names
             PROVE  RecordsOf(KeptOf(l, files)) \in Seq(Records)
    BY DEF RecordLists
<1>1. KeptOf(l, files) \in Seq(Names)
    BY KeptTyped, ConverterAssumption
<1>2. PICK n \in Nat : DOMAIN KeptOf(l, files) = 1..n
    BY <1>1, LenProperties
<1>3. \A i \in 1..n : RecordOf[KeptOf(l, files)[i]] \in Records
    BY <1>1, <1>2, ElementOfSeq, ConverterAssumption
<1> QED BY <1>2, <1>3 DEF RecordsOf

LEMMA InitRuns == Init => Runs!Init
BY DEF Init, Runs!Init, ShownWav, ShownConvert

-----------------------------------------------------------------------------
(* The results.                                                            *)

THEOREM ConvertInvariant == Spec => []ConvertInv
<1>1. ConvertInv /\ [Next]_vars => ConvertInv'
  <2> SUFFICES ASSUME ConvertInv, [Next]_vars  PROVE ConvertInv'
      OBVIOUS
  <2>1. PoolInv' /\ InOrder'
      BY PoolKept DEF ConvertInv
  <2>2. StageInv'
      BY QuietStage, StartStage, FillStage, BreaksStage, ConvertOneStage, PoolWorkerStage
         DEF Next, Main, Worker
  <2> QED BY <2>1, <2>2 DEF ConvertInv, BaseInv, StageInv
<1> QED BY <1>1, InitConvert, PTL DEF Spec

\* Every variable of the stage and of its pool keeps its type.
THEOREM ConvertTypes == Spec => []TypeOK
<1>1. ConvertInv => TypeOK
    BY DEF ConvertInv, BaseInv, PoolInv, OwnTypes, TypeOK, Steps, WavState, Items
<1> QED BY <1>1, ConvertInvariant, PTL

\* A job that convert_one reports "ok" has its wav whole on disk, whatever
\* killed runs left and whatever the other threads do.
THEOREM OkItemsAreWhole == Spec => []OkIsWhole
<1>1. ConvertInv => OkIsWhole
    BY DEF ConvertInv, WavInv, JobFile, OkIsWhole
<1> QED BY <1>1, ConvertInvariant, PTL

\* A run of the converter that exits 0 leaves in convert.json one item with a
\* status for each item of fetch.json whose raw file exists, in that order.
THEOREM ManifestIsComplete == Spec => []ManifestMatchesFetch
<1>1. ConvertInv => ManifestMatchesFetch
    BY DEF ConvertInv
<1> QED BY <1>1, ConvertInvariant, PTL

\* With an ffprobe that rejects every broken file, what convert.json says was
\* probed is whole on disk, leftovers of killed runs included.
THEOREM ProbedIsWhole == Spec => []ProbeVouches
<1>1. ConvertInv => ProbeVouches
    BY DEF ConvertInv
<1> QED BY <1>1, ConvertInvariant, PTL

\* ffmpeg -y never truncates a wav that is whole, in this run or a later one,
\* unless two jobs of the run have one record.
THEOREM WholeWavsAreKept == Spec => WholeIsKept
<1>1. ConvertInv /\ [Next]_vars =>
          [\A r \in Records : wav[r] = "whole" => wav'[r] = "whole" \/ Contended(r)]_vars
    BY WholeStep
<1> QED BY <1>1, ConvertInvariant, PTL DEF Spec, WholeIsKept

\* The stage uses the pool as WorkerPool says, whatever convert_one does and
\* whenever the process is killed ...
THEOREM ConverterIsPool == Spec => PoolSpec
<1>1. Init => PoolInit
    BY DEF Init
<1>2. ConvertInv /\ [Next]_vars => [PoolNext]_poolVars
    BY ConvertUsesPool DEF ConvertInv, BaseInv
<1> QED BY <1>1, <1>2, ConvertInvariant, PTL DEF Spec, PoolSpec

\* ... so each of its runs converts a batch: every job once, results in order.
THEOREM ConverterImplementsBatch == Spec => ImplementsBatch
BY ConverterIsPool, PoolImplementsBatch, PTL

\* ... and none of them is stuck or spins: some worker can go on while main
\* waits, and a run over n jobs takes at most the steps that StepsInv counts.
THEOREM ConverterNeverStuck == Spec => []NeverStuck /\ CallAdvances /\ []StepsInv
BY ConverterIsPool, CallIsNeverStuck, EveryStepCounts, CallIsBounded, PTL

\* What Matcher assumes of the convert stage is what the stage does, in every
\* run, whatever its threads and its ffmpegs do and whenever it is killed.
THEOREM ConverterImplementsRuns == Spec => ImplementsRuns
<1> DEFINE Started == mpc # "off" => run >= 1
<1>1. Init => Started
    BY DEF Init
<1>2. ConvertInv /\ Started /\ [Next]_vars => Started'
  <2> SUFFICES ASSUME ConvertInv, Started, [Next]_vars  PROVE Started'
      OBVIOUS
  <2>1. run \in Nat
      BY ConverterAssumption DEF ConvertInv, BaseInv, OwnTypes
  <2>2. ASSUME NEW w \in Workers, Worker(w)  PROVE mpc' = mpc /\ run' = run
      BY <2>2, WorkersKeepMain DEF ConvertInv, mainVars
  <2> QED BY <2>1, <2>2 DEF Next, Main, StartRun, StartFails, StartJobs, PoolMain, PoolEmpty,
                 TruncateManifest, FillManifest, ManifestFails, Kill, vars, mainVars
<1>3. ConvertInv /\ ConvertInv' /\ Started /\ [Next]_vars =>
          [Runs!Converts]_<<ShownWav, ShownConvert>>
    BY RunsStep
<1> HIDE DEF Started
<1> QED BY <1>1, <1>2, <1>3, InitRuns, ConvertInvariant, PTL DEF Spec, ImplementsRuns, Runs!Spec
=============================================================================
