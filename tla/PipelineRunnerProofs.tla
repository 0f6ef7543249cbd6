------------------------- MODULE PipelineRunnerProofs ------------------------
(***************************************************************************)
(* Proofs about PipelineRunner, for every number of invocations: the stages*)
(* run in order, each on what the ones before it left in this invocation,  *)
(* and stop at the first failure; what pipeline.json, its counts and the   *)
(* exit status say of them is true, and send errors are never passed over. *)
(***************************************************************************)
EXTENDS PipelineRunner, TLAPS

Done == {"ok", "failed", "skipped"}

\* How far the stage vector is while the runner is at each of its steps.
VectorInv ==
    /\ pc = "stage" => /\ \A i \in 1..(at - 1) : stage[i] \in Done
                       /\ \A i \in at..4 : stage[i] = "none"
    /\ pc = "child" => /\ stage[at] = "pending"
                       /\ \A i \in (at + 1)..4 : stage[i] = "none"
    /\ pc \in {"read", "report", "writing"} => \A i \in Stages : stage[i] \in Done

RunnerInv ==
    /\ TypeOK
    /\ VectorInv
    /\ StagesInOrder
    /\ exit = "ok" => pc = "off"
    /\ ExitIsReported
    /\ ReportConsistent

\* The vector of a run holds at most one failed stage, and when it is complete
\* and holds none every stage is ok.
LEMMA AtMostOneFailed ==
    ASSUME StagesInOrder
    PROVE  /\ \A i, j \in Stages : stage[i] = "failed" /\ stage[j] = "failed" => i = j
           /\ (\A i \in Stages : stage[i] \in Done) /\ ~Failed =>
                \A i \in Stages : stage[i] = "ok"
<1>1. ASSUME NEW i \in 1..4, NEW j \in 1..4, stage[i] = "failed", stage[j] = "failed", i < j
      PROVE  FALSE
  <2>1. i \in 1..(j - 1)
      BY <1>1
  <2> QED BY <1>1, <2>1 DEF StagesInOrder, Stages
<1>2. ASSUME \A i \in 1..4 : stage[i] \in Done /\ stage[i] # "failed", NEW j \in 1..4
      PROVE  stage[j] = "ok"
  <2>1. CASE stage[j] = "skipped"
    <3>1. PICK i \in 1..(j - 1) : stage[i] = "failed"
        BY <2>1 DEF StagesInOrder, Stages
    <3>2. i \in 1..4
        OBVIOUS
    <3> QED BY <1>2, <3>1, <3>2
  <2> QED BY <1>2, <2>1 DEF Done
<1>3. \A i, j \in 1..4 : stage[i] = "failed" /\ stage[j] = "failed" => i = j
  <2>1. ASSUME NEW i \in 1..4, NEW j \in 1..4, stage[i] = "failed", stage[j] = "failed"
        PROVE  i = j
    <3>1. i < j \/ j < i \/ i = j
        OBVIOUS
    <3> QED BY <1>1, <2>1, <3>1
  <2> QED BY <2>1
<1> QED BY <1>2, <1>3 DEF Stages, Failed

\* The invariant holds before the first invocation.
LEMMA InitRunner == Init => RunnerInv
<1> SUFFICES ASSUME Init PROVE RunnerInv
    OBVIOUS
<1> USE DEF Init, NoStages, NoCounts, Stages, StageStatus, ManifestState, Fetch
<1>1. TypeOK
  <2>1. 0 \in 0..MaxInvocations
      BY RunnerAssumption
  <2>2. pipeline \in [by : 0..MaxInvocations, state : ManifestState,
                      status : {"ok", "partial", "failed"}, failed : 0..4,
                      stage : [Stages -> StageStatus]]
      BY <2>1
  <2>3. manifest \in [Stages -> [by : 0..MaxInvocations, state : ManifestState,
                                 some : BOOLEAN, errors : BOOLEAN]]
      BY <2>1
  <2>4. stage \in [Stages -> StageStatus] /\ counts \in [Stages -> 0..MaxInvocations]
      BY <2>1
  <2>5. inv \in 0..MaxInvocations /\ at \in Stages
      BY <2>1
  <2>6. /\ dry \in BOOLEAN /\ sendErrors \in BOOLEAN
        /\ wavs \in BOOLEAN /\ matched \in BOOLEAN /\ prepared \in BOOLEAN
      BY Zenon
  <2>7. pc = "off" /\ child = "work" /\ warned \subseteq Stages /\ exit = "none"
      OBVIOUS
  <2> HIDE DEF Init, NoStages, NoCounts, Stages, StageStatus, ManifestState, Fetch
  <2> QED BY <2>2, <2>3, <2>4, <2>5, <2>6, <2>7 DEF TypeOK
<1>2. VectorInv
    BY DEF VectorInv
<1>3. StagesInOrder
    BY DEF StagesInOrder
<1>4. ExitIsReported /\ ReportConsistent
    BY DEF ExitIsReported, ReportConsistent
<1> QED BY <1>1, <1>2, <1>3, <1>4 DEF RunnerInv

\* Pushing a finished stage, in its order, on a vector that is ready for it.
LEMMA PushVector ==
    ASSUME RunnerInv, NEW s \in Done, Push(s),
           pc \in {"stage", "child"},
           s # "skipped" => ~Failed, s = "skipped" => Failed
    PROVE  /\ VectorInv' /\ StagesInOrder'
           /\ stage' \in [Stages -> StageStatus] /\ at' \in Stages
           /\ pc' \in {"stage", "read"}
<1>1. /\ at \in 1..4 /\ stage \in [1..4 -> StageStatus]
      /\ stage' = [stage EXCEPT ![at] = s]
      /\ pc' = (IF at = 4 THEN "read" ELSE "stage")
      /\ at' = (IF at = 4 THEN 1 ELSE at + 1)
    BY DEF RunnerInv, TypeOK, Push, Stages, Upload, Fetch
<1>2. /\ \A i \in 1..(at - 1) : stage[i] \in Done
      /\ \A i \in (at + 1)..4 : stage[i] = "none"
  <2>1. CASE pc = "stage"
      BY <1>1, <2>1 DEF RunnerInv, VectorInv
  <2>2. CASE pc = "child"
      BY <1>1, <2>2 DEF RunnerInv, VectorInv, StagesInOrder, Stages, Done
  <2> QED BY <2>1, <2>2
<1>3. /\ stage'[at] = s
      /\ \A i \in 1..4 : i # at => stage'[i] = stage[i]
    BY <1>1
<1>4. s # "skipped" => \A i \in 1..(at - 1) : stage[i] = "ok"
  <2>1. ASSUME s # "skipped", NEW i \in 1..(at - 1)  PROVE stage[i] = "ok"
    <3>1. \A k \in 1..4 : stage[k] # "failed"
        BY <2>1 DEF Failed, Stages
    <3>2. stage[i] # "skipped"
      <4>1. i \in 1..4 /\ \A k \in 1..(i - 1) : k \in 1..4
          BY <1>1
      <4> QED BY <3>1, <4>1 DEF RunnerInv, StagesInOrder, Stages
    <3> QED BY <1>1, <1>2, <3>1, <3>2 DEF Done
  <2> QED BY <2>1
<1>5. s = "skipped" => \E i \in 1..(at - 1) : stage[i] = "failed"
  <2>1. ASSUME s = "skipped"  PROVE \E i \in 1..(at - 1) : stage[i] = "failed"
    <3>1. PICK k \in 1..4 : stage[k] = "failed"
        BY <2>1 DEF Failed, Stages
    <3>2. stage[at] \in {"none", "pending"}
        BY <1>1 DEF RunnerInv, VectorInv
    <3>3. k \in 1..(at - 1)
        BY <1>1, <1>2, <3>1, <3>2
    <3> QED BY <3>1, <3>3
  <2> QED BY <2>1
<1>6. StagesInOrder'
  <2>1. ASSUME NEW j \in 1..4, stage'[j] \in {"pending", "ok", "failed"}, NEW i \in 1..(j - 1)
        PROVE  stage'[i] = "ok"
    <3>1. CASE j = at
        BY <1>1, <1>3, <1>4, <2>1, <3>1
    <3>2. CASE j # at
      <4>1. j < at
          BY <1>1, <1>2, <1>3, <2>1, <3>2
      <4> QED BY <1>1, <1>3, <2>1, <3>2, <4>1 DEF RunnerInv, StagesInOrder, Stages
    <3> QED BY <3>1, <3>2
  <2>2. ASSUME NEW j \in 1..4, stage'[j] = "skipped"
        PROVE  \E i \in 1..(j - 1) : stage'[i] = "failed"
    <3>1. CASE j = at
        BY <1>1, <1>3, <1>5, <2>2, <3>1
    <3>2. CASE j # at
      <4>1. j < at
          BY <1>1, <1>2, <1>3, <2>2, <3>2
      <4>2. PICK i \in 1..(j - 1) : stage[i] = "failed"
          BY <1>3, <2>2, <3>2 DEF RunnerInv, StagesInOrder, Stages
      <4> QED BY <1>1, <1>3, <4>1, <4>2
    <3> QED BY <3>1, <3>2
  <2> QED BY <2>1, <2>2 DEF StagesInOrder, Stages
<1>7. VectorInv'
  <2>1. CASE at = 4
      BY <1>1, <1>2, <1>3, <2>1 DEF VectorInv, Stages
  <2>2. CASE at # 4
      BY <1>1, <1>2, <1>3, <2>2 DEF VectorInv
  <2> QED BY <2>1, <2>2
<1>8. stage' \in [Stages -> StageStatus] /\ at' \in Stages /\ pc' \in {"stage", "read"}
    BY <1>1 DEF Stages, StageStatus, Done
<1> QED BY <1>6, <1>7, <1>8

\* The steps of the runner and of a stage that end the stage.
EndsStage ==
    \/ SkipStage \/ SpawnFails
    \/ NothingToDo \/ FillManifest \/ UploadManifestLost \/ ChildFails

\* In those steps the stage is pushed with a status that fits the vector, and
\* neither the report nor the exit status changes.
LEMMA PushInvariant ==
    ASSUME RunnerInv, EndsStage
    PROVE  RunnerInv'
<1>1. \E s \in Done : /\ Push(s) /\ (s = "skipped" <=> Failed)
                      /\ pc \in {"stage", "child"}
  <2>1. CASE pc = "child"
    <3>1. ~Failed
      <4>1. ASSUME NEW k \in 1..4, stage[k] = "failed"  PROVE FALSE
        <5>1. at \in 1..4 /\ stage[at] = "pending"
            BY <2>1 DEF RunnerInv, TypeOK, VectorInv, Stages
        <5>2. k \in 1..(at - 1)
            BY <2>1, <4>1, <5>1 DEF RunnerInv, VectorInv
        <5> QED BY <4>1, <5>1, <5>2 DEF RunnerInv, StagesInOrder, Stages
      <4> QED BY <4>1 DEF Failed, Stages
    <3>2. Push("ok") \/ Push("failed")
        BY <2>1 DEF EndsStage, SkipStage, SpawnFails, NothingToDo, FillManifest,
                    UploadManifestLost, ChildFails
    <3> QED BY <2>1, <3>1, <3>2 DEF Done
  <2>2. CASE SkipStage \/ SpawnFails
      BY <2>2 DEF SkipStage, SpawnFails, Done
  <2> QED BY <2>1, <2>2 DEF EndsStage, NothingToDo, FillManifest, UploadManifestLost, ChildFails
<1>2. PICK s \in Done : Push(s) /\ (s = "skipped" <=> Failed) /\ pc \in {"stage", "child"}
    BY <1>1
<1>3. /\ VectorInv' /\ StagesInOrder'
      /\ stage' \in [Stages -> StageStatus] /\ at' \in Stages
      /\ pc' \in {"stage", "read"}
    BY <1>2, PushVector
<1>4. UNCHANGED <<inv, dry, child, counts, warned, sendErrors, wavs, prepared, pipeline, exit>>
    BY DEF EndsStage, SkipStage, SpawnFails, NothingToDo, FillManifest, UploadManifestLost,
           ChildFails, dirVars
<1>5. matched' \in BOOLEAN
    BY DEF EndsStage, SkipStage, SpawnFails, NothingToDo, FillManifest, UploadManifestLost,
           ChildFails, dirVars, RunnerInv, TypeOK
<1>6. manifest' \in [Stages -> [by : 0..MaxInvocations, state : ManifestState,
                                some : BOOLEAN, errors : BOOLEAN]]
  <2>1. CASE FillManifest
    <3>1. PICK some \in {FALSE, at = Fetch} : manifest' = [manifest EXCEPT ![at] = Filled(some)]
        BY <2>1 DEF FillManifest
    <3>2. inv \in 0..MaxInvocations /\ some \in BOOLEAN
          /\ (at = Upload /\ sendErrors) \in BOOLEAN
        BY DEF RunnerInv, TypeOK
    <3>3. Filled(some) \in [by : 0..MaxInvocations, state : ManifestState,
                            some : BOOLEAN, errors : BOOLEAN]
        BY <3>2 DEF Filled, ManifestState
    <3> QED BY <3>1, <3>3 DEF RunnerInv, TypeOK
  <2>2. CASE ~FillManifest
      BY <2>2 DEF EndsStage, SkipStage, SpawnFails, NothingToDo, UploadManifestLost,
           ChildFails, dirVars, RunnerInv, TypeOK
  <2> QED BY <2>1, <2>2
<1>7. TypeOK'
    BY <1>3, <1>4, <1>5, <1>6 DEF RunnerInv, TypeOK
<1>8. exit # "ok"
    BY <1>2 DEF RunnerInv
<1>9. ExitIsReported' /\ ReportConsistent'
    BY <1>4, <1>8 DEF RunnerInv, ExitIsReported, ReportConsistent
<1> QED BY <1>3, <1>4, <1>7, <1>8, <1>9 DEF RunnerInv

\* A new invocation starts with an empty vector; the old report stays.
LEMMA InvokeInvariant == ASSUME RunnerInv, Invoke PROVE RunnerInv'
<1>1. /\ inv' = inv + 1 /\ inv < MaxInvocations /\ dry' \in BOOLEAN /\ pc' = "stage"
      /\ at' = 1 /\ stage' = [i \in 1..4 |-> "none"] /\ counts' = [i \in 1..4 |-> 0]
      /\ warned' = {} /\ sendErrors' = FALSE /\ exit' = "none"
      /\ UNCHANGED <<child, wavs, matched, prepared, manifest, pipeline>>
    BY DEF Invoke, dirVars, NoStages, NoCounts, Stages, Fetch
<1>2. TypeOK'
  <2>1. inv' \in 0..MaxInvocations /\ 0 \in 0..MaxInvocations
      BY <1>1, RunnerAssumption DEF RunnerInv, TypeOK
  <2>2. stage' \in [Stages -> StageStatus] /\ counts' \in [Stages -> 0..MaxInvocations]
      BY <1>1, <2>1 DEF Stages, StageStatus
  <2>3. dry' \in BOOLEAN /\ sendErrors' \in BOOLEAN /\ pc' = "stage" /\ exit' = "none"
      BY <1>1, Zenon
  <2>4. at' \in Stages /\ warned' \subseteq Stages
      BY <1>1 DEF Stages
  <2>5. UNCHANGED <<child, wavs, matched, prepared, manifest, pipeline>>
      BY <1>1
  <2> QED BY <2>1, <2>2, <2>3, <2>4, <2>5 DEF RunnerInv, TypeOK
<1>3. VectorInv' /\ StagesInOrder'
    BY <1>1 DEF VectorInv, StagesInOrder, Stages
<1>4. ExitIsReported' /\ ReportConsistent'
    BY <1>1 DEF RunnerInv, ExitIsReported, ReportConsistent
<1> QED BY <1>1, <1>2, <1>3, <1>4 DEF RunnerInv

\* A stage is spawned only when all before it are ok.
LEMMA SpawnInvariant == ASSUME RunnerInv, Spawn PROVE RunnerInv'
<1>1. /\ pc = "stage" /\ ~Failed /\ at \in 1..4 /\ stage \in [1..4 -> StageStatus]
      /\ stage' = [stage EXCEPT ![at] = "pending"] /\ pc' = "child" /\ child' = "work"
      /\ UNCHANGED <<inv, dry, at, counts, warned, sendErrors, wavs, matched, prepared,
                     manifest, pipeline, exit>>
    BY DEF Spawn, dirVars, RunnerInv, TypeOK, Stages
<1>2. /\ stage'[at] = "pending" /\ \A i \in 1..4 : i # at => stage'[i] = stage[i]
      /\ \A i \in 1..(at - 1) : stage[i] \in Done
      /\ \A i \in (at + 1)..4 : stage[i] = "none"
    BY <1>1 DEF RunnerInv, VectorInv
<1>3. TypeOK'
    BY <1>1 DEF RunnerInv, TypeOK, Stages, StageStatus
<1>4. VectorInv'
    BY <1>1, <1>2 DEF VectorInv
<1>5. \A i \in 1..(at - 1) : stage[i] = "ok"
  <2>1. \A k \in 1..4 : stage[k] # "failed"
      BY <1>1 DEF Failed, Stages
  <2>2. ASSUME NEW i \in 1..(at - 1)  PROVE stage[i] = "ok"
    <3>1. i \in 1..4 /\ \A k \in 1..(i - 1) : k \in 1..4
        BY <1>1
    <3>2. stage[i] # "skipped"
        BY <2>1, <3>1 DEF RunnerInv, StagesInOrder, Stages
    <3> QED BY <1>2, <2>1, <3>1, <3>2 DEF Done
  <2> QED BY <2>2
<1>6. StagesInOrder'
  <2>1. ASSUME NEW j \in 1..4, stage'[j] \in {"pending", "ok", "failed"}, NEW i \in 1..(j - 1)
        PROVE  stage'[i] = "ok"
    <3>1. j <= at
        BY <1>1, <1>2, <2>1
    <3>2. i \in 1..(at - 1)
        BY <1>1, <3>1
    <3> QED BY <1>1, <1>2, <1>5, <3>2
  <2>2. ASSUME NEW j \in 1..4  PROVE stage'[j] # "skipped"
    <3>1. CASE j \in 1..(at - 1)
        BY <1>1, <1>2, <1>5, <3>1
    <3>2. CASE j \in at..4
        BY <1>1, <1>2, <3>2
    <3> QED BY <1>1, <3>1, <3>2
  <2> QED BY <2>1, <2>2 DEF StagesInOrder, Stages
<1>7. exit # "ok" /\ ExitIsReported' /\ ReportConsistent'
    BY <1>1 DEF RunnerInv, ExitIsReported, ReportConsistent
<1> QED BY <1>1, <1>3, <1>4, <1>6, <1>7 DEF RunnerInv

\* Work and TruncateManifest change only the stage's process and the directory.
LEMMA ChildInvariant == ASSUME RunnerInv, Work \/ TruncateManifest PROVE RunnerInv'
<1>1. /\ pc' = pc /\ pc = "child"
      /\ UNCHANGED <<inv, dry, at, stage, counts, warned, pipeline, exit>>
      /\ child' \in {"manifest", "filling"}
    BY DEF Work, TruncateManifest
<1>2. /\ wavs' \in BOOLEAN /\ matched' \in BOOLEAN /\ prepared' \in BOOLEAN
      /\ sendErrors' \in BOOLEAN
  <2>1. CASE Work
      BY <2>1 DEF Work, RunnerInv, TypeOK
  <2>2. CASE TruncateManifest
      BY <2>2 DEF TruncateManifest, RunnerInv, TypeOK
  <2> QED BY <2>1, <2>2
<1>3. manifest' \in [Stages -> [by : 0..MaxInvocations, state : ManifestState,
                                some : BOOLEAN, errors : BOOLEAN]]
    BY DEF Work, TruncateManifest, RunnerInv, TypeOK, ManifestState
<1>4. TypeOK'
    BY <1>1, <1>2, <1>3 DEF RunnerInv, TypeOK
<1>5. VectorInv' /\ StagesInOrder' /\ ExitIsReported' /\ ReportConsistent'
    BY <1>1 DEF RunnerInv, VectorInv, StagesInOrder, ExitIsReported, ReportConsistent
<1> QED BY <1>1, <1>4, <1>5 DEF RunnerInv

\* Reading the manifests changes no status.
LEMMA ReadInvariant == ASSUME RunnerInv, ReadManifest PROVE RunnerInv'
<1>1. /\ pc = "read" /\ pc' \in {"read", "report"} /\ at' \in Stages
      /\ UNCHANGED <<inv, dry, child, stage, sendErrors, wavs, matched, prepared, manifest,
                     pipeline, exit>>
    BY DEF ReadManifest, dirVars, RunnerInv, TypeOK, Stages, Upload, Fetch
<1>2. counts' \in [Stages -> 0..MaxInvocations] /\ warned' \subseteq Stages
    BY DEF ReadManifest, RunnerInv, TypeOK
<1>3. TypeOK'
    BY <1>1, <1>2 DEF RunnerInv, TypeOK
<1>4. VectorInv' /\ StagesInOrder' /\ ExitIsReported' /\ ReportConsistent'
    BY <1>1 DEF RunnerInv, VectorInv, StagesInOrder, ExitIsReported, ReportConsistent
<1> QED BY <1>1, <1>3, <1>4 DEF RunnerInv

\* A truncated report claims nothing.
LEMMA TruncateReportInvariant == ASSUME RunnerInv, TruncateReport PROVE RunnerInv'
<1>1. /\ pc = "report" /\ pc' = "writing" /\ pipeline' = [pipeline EXCEPT !.state = "torn"]
      /\ UNCHANGED <<inv, dry, at, child, stage, counts, warned, sendErrors, wavs, matched,
                     prepared, manifest, exit>>
    BY DEF TruncateReport
<1>2. pipeline'.state = "torn" /\ TypeOK'
    BY <1>1 DEF RunnerInv, TypeOK, ManifestState
<1>3. VectorInv' /\ StagesInOrder'
    BY <1>1 DEF RunnerInv, VectorInv, StagesInOrder
<1>4. exit # "ok" /\ ExitIsReported' /\ ReportConsistent'
    BY <1>1, <1>2 DEF RunnerInv, ExitIsReported, ReportConsistent
<1> QED BY <1>1, <1>2, <1>3, <1>4 DEF RunnerInv

\* The report that is written describes the complete vector.
LEMMA FillReportInvariant == ASSUME RunnerInv, FillReport PROVE RunnerInv'
<1>1. /\ pc = "writing" /\ pc' = "off"
      /\ pipeline' = [by |-> inv, state |-> "whole", status |-> ReportStatus,
                      failed |-> FailedStage, stage |-> stage]
      /\ exit' = IF Failed THEN "failed" ELSE "ok"
      /\ UNCHANGED <<inv, dry, at, child, stage, counts, warned, sendErrors, wavs, matched,
                     prepared, manifest>>
    BY DEF FillReport
<1>2. /\ \A i \in Stages : stage[i] \in Done
      /\ \A i, j \in Stages : stage[i] = "failed" /\ stage[j] = "failed" => i = j
      /\ ~Failed => \A i \in Stages : stage[i] = "ok"
    BY <1>1, AtMostOneFailed DEF RunnerInv, VectorInv
<1>3. /\ Failed => FailedStage \in Stages /\ stage[FailedStage] = "failed"
      /\ ~Failed => FailedStage = 0
    BY DEF Failed, FailedStage
<1>4. /\ ReportStatus \in {"ok", "partial", "failed"}
      /\ ReportStatus = "failed" <=> Failed
    BY DEF ReportStatus
<1>5. TypeOK'
  <2>1. FailedStage \in 0..4
      BY <1>3 DEF Stages
  <2>2. pipeline' \in [by : 0..MaxInvocations, state : ManifestState,
                       status : {"ok", "partial", "failed"}, failed : 0..4,
                       stage : [Stages -> StageStatus]]
      BY <1>1, <1>4, <2>1 DEF RunnerInv, TypeOK, ManifestState
  <2>3. pc' = "off" /\ exit' \in {"failed", "ok"}
      BY <1>1
  <2> HIDE DEF Failed
  <2> QED BY <1>1, <2>2, <2>3 DEF RunnerInv, TypeOK
<1>6. VectorInv' /\ StagesInOrder'
    BY <1>1 DEF RunnerInv, VectorInv, StagesInOrder
<1>7. /\ pipeline'.by = inv /\ pipeline'.state = "whole" /\ pipeline'.status = ReportStatus
      /\ pipeline'.failed = FailedStage /\ pipeline'.stage = stage /\ inv' = inv
    BY <1>1
<1>8. exit' = "ok" => ~Failed
    BY <1>1
<1>9. ExitIsReported'
    BY <1>2, <1>4, <1>7, <1>8 DEF ExitIsReported
<1>10. ReportConsistent'
  <2>1. 0 \notin Stages
      BY DEF Stages
  <2>2. (ReportStatus = "failed") <=> (FailedStage # 0)
      BY <1>3, <1>4, <2>1
  <2>3. \A i \in Stages : stage[i] = "failed" <=> FailedStage = i
    <3>1. ASSUME NEW i \in Stages, stage[i] = "failed"  PROVE FailedStage = i
      <4>1. Failed
          BY <3>1 DEF Failed
      <4> QED BY <1>2, <1>3, <3>1, <4>1
    <3>2. ASSUME NEW i \in Stages, FailedStage = i  PROVE stage[i] = "failed"
        BY <1>3, <2>1, <3>2
    <3> QED BY <3>1, <3>2
  <2>4. ReportStatus # "failed" => \A i \in Stages : stage[i] = "ok"
      BY <1>2, <1>4
  <2> QED BY <1>2, <1>7, <2>2, <2>3, <2>4 DEF ReportConsistent, Done
<1> QED BY <1>1, <1>5, <1>6, <1>9, <1>10 DEF RunnerInv

\* A start that fails, a report that cannot be written, and a kill end the run as it is.
LEMMA EndInvariant == ASSUME RunnerInv, StartFails \/ ReportFails \/ Kill PROVE RunnerInv'
<1>1. /\ pc' = "off" /\ exit' \in {"failed", "killed"}
      /\ UNCHANGED <<inv, dry, at, child, stage, counts, warned, sendErrors, wavs, matched,
                     prepared, manifest, pipeline>>
    BY DEF StartFails, ReportFails, Kill, dirVars
<1>2. TypeOK'
    BY <1>1 DEF RunnerInv, TypeOK
<1>3. VectorInv' /\ StagesInOrder' /\ ExitIsReported' /\ ReportConsistent'
    BY <1>1 DEF RunnerInv, VectorInv, StagesInOrder, ExitIsReported, ReportConsistent
<1> QED BY <1>1, <1>2, <1>3 DEF RunnerInv

-----------------------------------------------------------------------------
(* The manifests and the counts.                                           *)

\* What the manifests on disk are worth.  Nothing is of a later invocation; a
\* stage that is still to write one has none of this invocation; fetch and
\* convert exit 0 only with theirs; and an upload stage that exited 0 told of
\* its send errors in the one it wrote.
DiskInv ==
    /\ pc # "off" => inv # 0
    /\ \A i \in Stages : manifest[i].by <= inv
    /\ \A i \in Stages : manifest[i].state = "whole" => manifest[i].by # 0
    /\ \A i \in Stages : stage[i] \in {"none", "pending"} =>
          ~(manifest[i].state = "whole" /\ manifest[i].by = inv)
    /\ \A i \in {Fetch, Convert} : stage[i] = "ok" =>
          manifest[i].by = inv /\ manifest[i].state = "whole"
    /\ stage[Upload] = "ok" /\ sendErrors
          /\ manifest[Upload].state = "whole" /\ manifest[Upload].by = inv =>
             manifest[Upload].errors

\* Counts and warnings come only from the manifests, once the stages are over,
\* and the report is written only when upload.json has been dealt with.
CountInv ==
    /\ pc \in {"stage", "child"} => counts = NoCounts
    /\ \A i \in Stages : counts[i] # 0 =>
          Aggregated(i) /\ manifest[i].state = "whole" /\ counts[i] = manifest[i].by
    /\ pc \in {"report", "writing"} /\ Aggregated(Upload) =>
          \/ Upload \in warned
          \/ manifest[Upload].state = "whole" /\ counts[Upload] = manifest[Upload].by

\* The invariant of the whole invocation, on top of RunnerInv.
ReportInv == RunnerInv /\ DiskInv /\ CountInv /\ SendErrorsLeaveTrace

\* Before the first invocation there is nothing on disk and nothing counted.
LEMMA InitReport == Init => ReportInv
<1> SUFFICES ASSUME Init PROVE ReportInv
    OBVIOUS
<1>1. RunnerInv
    BY InitRunner
<1>2. /\ inv = 0 /\ pc = "off" /\ exit = "none" /\ sendErrors = FALSE
      /\ \A i \in 1..4 : stage[i] = "none" /\ counts[i] = 0
      /\ \A i \in 1..4 : manifest[i].by = 0 /\ manifest[i].state = "missing"
    BY DEF Init, NoStages, NoCounts, Stages
<1>3. DiskInv
    BY <1>2 DEF DiskInv, Stages, Fetch, Convert, Upload
<1>4. CountInv /\ SendErrorsLeaveTrace
    BY <1>2 DEF CountInv, SendErrorsLeaveTrace, Stages
<1> QED BY <1>1, <1>3, <1>4 DEF ReportInv

\* A new invocation counts nothing, and every manifest is of an earlier one.
LEMMA InvokeReport == ASSUME ReportInv, Invoke PROVE ReportInv'
<1>1. RunnerInv'
    BY InvokeInvariant DEF ReportInv
<1>2. /\ inv \in Nat /\ inv' = inv + 1 /\ pc' = "stage" /\ exit' = "none" /\ sendErrors' = FALSE
      /\ \A i \in 1..4 : stage'[i] = "none"
      /\ counts' = NoCounts
      /\ manifest' = manifest
      /\ \A i \in 1..4 : manifest[i].by \in Nat /\ manifest[i].by <= inv
    BY RunnerAssumption
       DEF Invoke, dirVars, NoStages, Stages, ReportInv, DiskInv, RunnerInv, TypeOK
<1>3. \A i \in 1..4 : manifest[i].by <= inv' /\ manifest[i].by # inv'
    BY <1>2
<1>4. \A i \in 1..4 : manifest[i].state = "whole" => manifest[i].by # 0
    BY DEF ReportInv, DiskInv, Stages
<1>5. DiskInv'
    BY <1>2, <1>3, <1>4 DEF DiskInv, Stages, Fetch, Convert, Upload
<1>6. CountInv' /\ SendErrorsLeaveTrace'
    BY <1>2 DEF CountInv, SendErrorsLeaveTrace, NoCounts
<1> QED BY <1>1, <1>5, <1>6 DEF ReportInv

\* A stage that ends leaves either its manifest of this invocation or, when it
\* is match or upload, perhaps an earlier one or none; nothing is counted yet.
LEMMA PushReport == ASSUME ReportInv, EndsStage PROVE ReportInv'
<1>1. RunnerInv'
    BY PushInvariant DEF ReportInv
<1>2. PICK s \in Done : Push(s)
    BY DEF EndsStage, SkipStage, SpawnFails, NothingToDo, FillManifest, UploadManifestLost,
           ChildFails, Done
<1>3. /\ pc \in {"stage", "child"} /\ pc' \in {"stage", "read"}
      /\ UNCHANGED <<inv, counts, warned, sendErrors, exit, pipeline>>
    BY <1>2 DEF EndsStage, SkipStage, SpawnFails, NothingToDo, FillManifest,
                UploadManifestLost, ChildFails, dirVars, Push
<1>4. /\ at \in 1..4 /\ stage \in [1..4 -> StageStatus]
      /\ stage' = [stage EXCEPT ![at] = s]
    BY <1>2 DEF ReportInv, RunnerInv, TypeOK, Push, Stages
<1>5. /\ stage'[at] = s /\ \A i \in 1..4 : i # at => stage'[i] = stage[i]
      /\ stage[at] \in {"none", "pending"}
    BY <1>3, <1>4 DEF ReportInv, RunnerInv, VectorInv
<1>6. \A i \in 1..4 : i # at => manifest'[i] = manifest[i]
  <2>1. CASE FillManifest
      BY <1>4, <2>1 DEF FillManifest, ReportInv, RunnerInv, TypeOK, Stages
  <2>2. CASE ~FillManifest
      BY <2>2 DEF EndsStage, SkipStage, SpawnFails, NothingToDo, UploadManifestLost,
                  ChildFails, dirVars
  <2> QED BY <2>1, <2>2
<1>7. \/ manifest'[at] = manifest[at]
      \/ \E some : manifest'[at] = Filled(some)
  <2>1. CASE FillManifest
      BY <1>4, <2>1 DEF FillManifest, ReportInv, RunnerInv, TypeOK, Stages
  <2>2. CASE ~FillManifest
      BY <2>2 DEF EndsStage, SkipStage, SpawnFails, NothingToDo, UploadManifestLost,
                  ChildFails, dirVars
  <2> QED BY <2>1, <2>2
<1>8. s = "ok" /\ at \in {1, 2} => \E some : manifest'[at] = Filled(some)
  <2> SUFFICES ASSUME s = "ok", at \in {1, 2}
               PROVE  \E some : manifest'[at] = Filled(some)
      OBVIOUS
  <2>1. FillManifest
    <3>1. stage'[at] = "ok"
        BY <1>5
    <3>2. ~SkipStage /\ ~SpawnFails /\ ~ChildFails
        BY <1>4, <3>1 DEF SkipStage, SpawnFails, ChildFails, Push
    <3>3. ~NothingToDo /\ ~UploadManifestLost
        BY DEF NothingToDo, UploadManifestLost, Match, Upload
    <3> QED BY <3>2, <3>3 DEF EndsStage
  <2> QED BY <1>4, <2>1 DEF FillManifest, ReportInv, RunnerInv, TypeOK, Stages
<1>9. /\ \A i \in 1..4 : manifest[i].by <= inv
      /\ \A i \in 1..4 : manifest[i].state = "whole" => manifest[i].by # 0
      /\ \A i \in 1..4 : stage[i] \in {"none", "pending"} =>
            ~(manifest[i].state = "whole" /\ manifest[i].by = inv)
      /\ \A i \in {1, 2} : stage[i] = "ok" =>
            manifest[i].by = inv /\ manifest[i].state = "whole"
      /\ stage[4] = "ok" /\ sendErrors
            /\ manifest[4].state = "whole" /\ manifest[4].by = inv => manifest[4].errors
    BY DEF ReportInv, DiskInv, Stages, Fetch, Convert, Upload
<1>10. inv \in Nat /\ inv # 0
  <2>1. inv \in Nat
      BY RunnerAssumption DEF ReportInv, RunnerInv, TypeOK
  <2> QED BY <1>3, <2>1 DEF ReportInv, DiskInv
<1>11. \A some : /\ Filled(some).by = inv /\ Filled(some).state = "whole"
                 /\ at = 4 /\ sendErrors => Filled(some).errors
    BY DEF Filled, Upload
<1>12. \A i \in 1..4 : \/ manifest'[i] = manifest[i]
                       \/ /\ i = at /\ manifest'[i].by = inv
                          /\ manifest'[i].state = "whole"
                          /\ i = 4 /\ sendErrors => manifest'[i].errors
  <2>1. CASE manifest'[at] = manifest[at]
      BY <1>6, <2>1
  <2>2. ASSUME NEW some, manifest'[at] = Filled(some)
        PROVE  /\ manifest'[at].by = inv /\ manifest'[at].state = "whole"
               /\ at = 4 /\ sendErrors => manifest'[at].errors
      BY <1>11, <2>2
  <2> QED BY <1>6, <1>7, <2>1, <2>2
<1>13. /\ \A i \in 1..4 : manifest'[i].by <= inv
       /\ \A i \in 1..4 : manifest'[i].state = "whole" => manifest'[i].by # 0
  <2> SUFFICES ASSUME NEW i \in 1..4
               PROVE  /\ manifest'[i].by <= inv
                      /\ manifest'[i].state = "whole" => manifest'[i].by # 0
      OBVIOUS
  <2> QED BY <1>9, <1>10, <1>12
<1>14. ASSUME NEW i \in 1..4, stage'[i] \in {"none", "pending"}
       PROVE  ~(manifest'[i].state = "whole" /\ manifest'[i].by = inv)
  <2>1. i # at
      BY <1>5, <1>14 DEF Done
  <2> QED BY <1>5, <1>6, <1>9, <1>14, <2>1
<1>15. ASSUME NEW i \in {1, 2}, stage'[i] = "ok"
       PROVE  manifest'[i].by = inv /\ manifest'[i].state = "whole"
  <2>1. CASE i = at
      BY <1>5, <1>8, <1>11, <1>15, <2>1
  <2>2. CASE i # at
      BY <1>5, <1>6, <1>9, <1>15, <2>2
  <2> QED BY <2>1, <2>2
<1>16. ASSUME stage'[4] = "ok", sendErrors, manifest'[4].state = "whole", manifest'[4].by = inv
       PROVE  manifest'[4].errors
  <2>1. CASE at = 4
      BY <1>5, <1>9, <1>12, <1>16, <2>1
  <2>2. CASE at # 4
      BY <1>5, <1>6, <1>9, <1>16, <2>2
  <2> QED BY <2>1, <2>2
<1>17. DiskInv'
    BY <1>3, <1>10, <1>13, <1>14, <1>15, <1>16 DEF DiskInv, Stages, Fetch, Convert, Upload
<1>18. CountInv'
  <2>1. counts = NoCounts
      BY <1>3 DEF ReportInv, CountInv
  <2> QED BY <1>3, <2>1 DEF CountInv, NoCounts
<1>19. SendErrorsLeaveTrace'
  <2>1. exit # "ok"
      BY <1>3 DEF ReportInv, RunnerInv
  <2> QED BY <1>3, <2>1 DEF SendErrorsLeaveTrace
<1> QED BY <1>1, <1>17, <1>18, <1>19 DEF ReportInv

\* A stage that starts, works or truncates its manifest has none of this
\* invocation yet.
LEMMA ChildReport ==
    ASSUME ReportInv, Spawn \/ Work \/ TruncateManifest
    PROVE  ReportInv'
<1>1. RunnerInv'
    BY SpawnInvariant, ChildInvariant DEF ReportInv
<1>2. /\ pc \in {"stage", "child"} /\ pc' = "child"
      /\ UNCHANGED <<inv, at, counts, warned, exit, pipeline>>
    BY DEF Spawn, Work, TruncateManifest, dirVars
<1>3. at \in 1..4 /\ stage \in [1..4 -> StageStatus]
      /\ stage[at] \in {"none", "pending"}
    BY <1>2 DEF ReportInv, RunnerInv, TypeOK, VectorInv, Stages
<1>4. /\ stage'[at] \in {"none", "pending"}
      /\ \A i \in 1..4 : i # at => stage'[i] = stage[i]
    BY <1>3 DEF Spawn, Work, TruncateManifest
<1>5. \A i \in 1..4 : /\ manifest'[i].by = manifest[i].by
                      /\ manifest'[i].errors = manifest[i].errors
                      /\ \/ manifest'[i].state = manifest[i].state
                         \/ i = at /\ manifest'[i].state = "torn"
  <2>1. manifest \in [1..4 -> [by : 0..MaxInvocations, state : ManifestState,
                               some : BOOLEAN, errors : BOOLEAN]]
      BY DEF ReportInv, RunnerInv, TypeOK, Stages
  <2>2. CASE TruncateManifest
      BY <1>3, <2>1, <2>2 DEF TruncateManifest
  <2>3. CASE Spawn \/ Work
      BY <2>3 DEF Spawn, Work, dirVars
  <2> QED BY <2>2, <2>3
<1>6. at # 4 => sendErrors' = sendErrors
    BY DEF Spawn, Work, TruncateManifest, Upload, ReportInv, RunnerInv, TypeOK
<1>7. /\ pc # "off" => inv # 0
      /\ \A i \in 1..4 : manifest[i].by <= inv
      /\ \A i \in 1..4 : manifest[i].state = "whole" => manifest[i].by # 0
      /\ \A i \in 1..4 : stage[i] \in {"none", "pending"} =>
            ~(manifest[i].state = "whole" /\ manifest[i].by = inv)
      /\ \A i \in {1, 2} : stage[i] = "ok" =>
            manifest[i].by = inv /\ manifest[i].state = "whole"
      /\ stage[4] = "ok" /\ sendErrors
            /\ manifest[4].state = "whole" /\ manifest[4].by = inv => manifest[4].errors
    BY DEF ReportInv, DiskInv, Stages, Fetch, Convert, Upload
<1>8. /\ \A i \in 1..4 : manifest'[i].by <= inv
      /\ \A i \in 1..4 : manifest'[i].state = "whole" => manifest'[i].by # 0
      /\ \A i \in 1..4 : stage'[i] \in {"none", "pending"} =>
            ~(manifest'[i].state = "whole" /\ manifest'[i].by = inv)
    BY <1>3, <1>4, <1>5, <1>7
<1>9. \A i \in {1, 2} : stage'[i] = "ok" =>
            manifest'[i].by = inv /\ manifest'[i].state = "whole"
    BY <1>4, <1>5, <1>7
<1>10. stage'[4] = "ok" /\ sendErrors'
            /\ manifest'[4].state = "whole" /\ manifest'[4].by = inv => manifest'[4].errors
  <2>1. CASE at = 4
      BY <1>4, <2>1
  <2>2. CASE at # 4
    <3>1. /\ stage'[4] = stage[4] /\ sendErrors' = sendErrors
          /\ manifest'[4].by = manifest[4].by /\ manifest'[4].state = manifest[4].state
        BY <1>4, <1>5, <1>6, <2>2
    <3>2. manifest'[4].errors = manifest[4].errors
        BY <1>5
    <3> QED BY <1>7, <3>1, <3>2, Zenon
  <2> QED BY <2>1, <2>2
<1>11. DiskInv'
    BY <1>2, <1>7, <1>8, <1>9, <1>10 DEF DiskInv, Stages, Fetch, Convert, Upload
<1>12. CountInv'
  <2>1. counts = NoCounts
      BY <1>2 DEF ReportInv, CountInv
  <2> QED BY <1>2, <2>1 DEF CountInv, NoCounts
<1>13. SendErrorsLeaveTrace'
  <2>1. exit # "ok"
      BY <1>2 DEF ReportInv, RunnerInv
  <2> QED BY <1>2, <2>1 DEF SendErrorsLeaveTrace
<1> QED BY <1>1, <1>11, <1>12, <1>13 DEF ReportInv

\* A manifest is counted as it is on disk, or warned about.
LEMMA ReadReport == ASSUME ReportInv, ReadManifest PROVE ReportInv'
<1>1. RunnerInv'
    BY ReadInvariant DEF ReportInv
<1>2. /\ pc = "read" /\ pc' = (IF at = 4 THEN "report" ELSE "read")
      /\ UNCHANGED <<inv, stage, sendErrors, manifest, exit, pipeline>>
      /\ at \in 1..4 /\ counts \in [1..4 -> 0..MaxInvocations]
    BY DEF ReadManifest, dirVars, ReportInv, RunnerInv, TypeOK, Stages, Upload
<1>3. DiskInv'
    BY <1>2 DEF ReportInv, DiskInv
<1>4. \A i \in 1..4 : \/ counts'[i] = counts[i]
                      \/ /\ i = at /\ Aggregated(i) /\ manifest[i].state = "whole"
                         /\ counts'[i] = manifest[i].by
    BY <1>2 DEF ReadManifest
<1>5. Aggregated(at) => \/ at \in warned'
                        \/ manifest[at].state = "whole" /\ counts'[at] = manifest[at].by
    BY <1>2 DEF ReadManifest
<1>6. \A i \in 1..4 : Aggregated(i)' <=> Aggregated(i)
    BY <1>2 DEF Aggregated
<1>7. ASSUME NEW i \in 1..4, counts'[i] # 0
      PROVE  Aggregated(i)' /\ manifest'[i].state = "whole" /\ counts'[i] = manifest'[i].by
    BY <1>2, <1>4, <1>6, <1>7 DEF ReportInv, CountInv, Stages
<1>8. ASSUME pc' \in {"report", "writing"}, Aggregated(4)'
      PROVE  \/ 4 \in warned'
             \/ manifest'[4].state = "whole" /\ counts'[4] = manifest'[4].by
  <2>1. at = 4
      BY <1>2, <1>8
  <2>2. Aggregated(at)
      BY <1>2, <1>8, <2>1 DEF Aggregated
  <2> QED BY <1>2, <1>5, <2>1, <2>2
<1>9. CountInv'
    BY <1>2, <1>7, <1>8 DEF CountInv, Stages, Upload
<1>10. SendErrorsLeaveTrace'
  <2>1. exit # "ok"
      BY <1>2 DEF ReportInv, RunnerInv
  <2> QED BY <1>2, <2>1 DEF SendErrorsLeaveTrace
<1> QED BY <1>1, <1>3, <1>9, <1>10 DEF ReportInv

\* When the report of a run without a failed stage is written, a send error is
\* in upload.json, or upload.json is of an earlier invocation and counted as
\* such, or it is missing or torn and warned about.
LEMMA FillReportReport == ASSUME ReportInv, FillReport PROVE ReportInv'
<1>1. RunnerInv'
    BY FillReportInvariant DEF ReportInv
<1>2. /\ pc = "writing" /\ pc' = "off"
      /\ pipeline'.status = ReportStatus
      /\ exit' = "ok" => ~Failed
      /\ UNCHANGED <<inv, stage, counts, warned, sendErrors, manifest>>
    BY DEF FillReport
<1>3. DiskInv'
    BY <1>2 DEF ReportInv, DiskInv
<1>4. CountInv'
    BY <1>2 DEF ReportInv, CountInv, Aggregated
<1>5. ASSUME ~Failed, sendErrors
      PROVE  ReportStatus = "partial" \/ 4 \in warned \/ counts[4] \in 1..(inv - 1)
  <2>1. stage[4] = "ok"
      BY <1>2, <1>5, AtMostOneFailed DEF ReportInv, RunnerInv, VectorInv, Stages
  <2>2. \/ 4 \in warned
        \/ manifest[4].state = "whole" /\ counts[4] = manifest[4].by
      BY <1>2, <2>1 DEF ReportInv, CountInv, Aggregated, Upload
  <2>3. CASE manifest[4].state = "whole" /\ counts[4] = manifest[4].by
    <3>1. counts[4] # 0 /\ counts[4] <= inv
        BY <2>3 DEF ReportInv, DiskInv, Stages
    <3>2. inv \in Nat /\ counts[4] \in Nat
        BY RunnerAssumption DEF ReportInv, RunnerInv, TypeOK, Stages
    <3>3. CASE counts[4] = inv
      <4>1. manifest[4].errors
          BY <1>5, <2>1, <2>3, <3>3 DEF ReportInv, DiskInv, Upload
      <4> QED BY <1>5, <3>1, <4>1 DEF ReportStatus, PartialUpload, Upload
    <3>4. CASE counts[4] # inv
        BY <3>1, <3>2, <3>4
    <3> QED BY <3>3, <3>4
  <2> QED BY <2>2, <2>3
<1>6. SendErrorsLeaveTrace'
    BY <1>2, <1>5 DEF SendErrorsLeaveTrace, Upload
<1> QED BY <1>1, <1>3, <1>4, <1>6 DEF ReportInv

\* The steps that end an invocation without a report, and the truncation of
\* the old one, touch no manifest and no count, and exit 0 in none of them.
LEMMA EndReport ==
    ASSUME ReportInv, StartFails \/ ReportFails \/ Kill \/ TruncateReport
    PROVE  ReportInv'
<1>1. RunnerInv'
    BY EndInvariant, TruncateReportInvariant DEF ReportInv
<1>2. /\ UNCHANGED <<inv, stage, counts, warned, sendErrors, manifest>>
      /\ pc # "off"
      /\ pc' = "off" \/ (pc = "report" /\ pc' = "writing")
      /\ exit' # "ok"
    BY DEF StartFails, ReportFails, Kill, TruncateReport, dirVars, ReportInv, RunnerInv
<1>3. DiskInv'
    BY <1>2 DEF ReportInv, DiskInv
<1>4. CountInv'
    BY <1>2 DEF ReportInv, CountInv, Aggregated
<1>5. SendErrorsLeaveTrace'
    BY <1>2 DEF SendErrorsLeaveTrace
<1> QED BY <1>1, <1>3, <1>4, <1>5 DEF ReportInv

-----------------------------------------------------------------------------
(* Theorems.                                                               *)

\* The inductive invariant holds in every reachable state.
THEOREM RunnerInvariant == Spec => []RunnerInv
<1>1. ASSUME RunnerInv, [Next]_vars  PROVE RunnerInv'
  <2>1. CASE Invoke
      BY <1>1, <2>1, InvokeInvariant
  <2>2. CASE Runner
      BY <1>1, <2>2, PushInvariant, SpawnInvariant, ReadInvariant, TruncateReportInvariant,
         FillReportInvariant, EndInvariant DEF Runner, EndsStage
  <2>3. CASE Child
      BY <1>1, <2>3, PushInvariant, ChildInvariant DEF Child, ChildWorks, EndsStage
  <2>4. CASE Kill
      BY <1>1, <2>4, EndInvariant
  <2>5. CASE UNCHANGED vars
    <3>1. UNCHANGED <<inv, dry, pc, at, child, stage, counts, warned, sendErrors, wavs,
                      matched, prepared, manifest, pipeline, exit>>
        BY <2>5 DEF vars, dirVars
    <3>2. TypeOK' /\ VectorInv' /\ StagesInOrder'
        BY <1>1, <3>1 DEF RunnerInv, TypeOK, VectorInv, StagesInOrder
    <3>3. ExitIsReported' /\ ReportConsistent'
        BY <1>1, <3>1 DEF RunnerInv, ExitIsReported, ReportConsistent
    <3> QED BY <1>1, <3>1, <3>2, <3>3 DEF RunnerInv
  <2> QED BY <1>1, <2>1, <2>2, <2>3, <2>4, <2>5 DEF Next
<1> QED BY <1>1, InitRunner, PTL DEF Spec

\* The stages of an invocation run in order and stop at the first that fails.
THEOREM StagesStopAtFailure == Spec => []StagesInOrder
<1>1. RunnerInv => StagesInOrder
    BY DEF RunnerInv
<1> QED BY <1>1, RunnerInvariant, PTL

\* Exit status 0 means that this invocation's complete report says so.
THEOREM ExitZeroIsTrue == Spec => []ExitIsReported
<1>1. RunnerInv => ExitIsReported
    BY DEF RunnerInv
<1> QED BY <1>1, RunnerInvariant, PTL

\* A report that can be read is consistent, after any kills and retries.
THEOREM ReportIsConsistent == Spec => []ReportConsistent
<1>1. RunnerInv => ReportConsistent
    BY DEF RunnerInv
<1> QED BY <1>1, RunnerInvariant, PTL


\* The invariant of the manifests and the counts holds in every reachable state.
THEOREM ReportInvariant == Spec => []ReportInv
<1>1. ASSUME ReportInv, [Next]_vars  PROVE ReportInv'
  <2>1. CASE Invoke
      BY <1>1, <2>1, InvokeReport
  <2>2. CASE Runner
      BY <1>1, <2>2, PushReport, ChildReport, ReadReport, FillReportReport, EndReport
         DEF Runner, EndsStage
  <2>3. CASE Child
      BY <1>1, <2>3, PushReport, ChildReport DEF Child, ChildWorks, EndsStage
  <2>4. CASE Kill
      BY <1>1, <2>4, EndReport
  <2>5. CASE UNCHANGED vars
    <3>1. UNCHANGED <<inv, dry, pc, at, child, stage, counts, warned, sendErrors, wavs,
                      matched, prepared, manifest, pipeline, exit>>
        BY <2>5 DEF vars, dirVars
    <3>2. TypeOK' /\ VectorInv' /\ StagesInOrder' /\ ExitIsReported' /\ ReportConsistent'
        BY <1>1, <3>1 DEF ReportInv, RunnerInv, TypeOK, VectorInv, StagesInOrder,
                          ExitIsReported, ReportConsistent
    <3>3. RunnerInv'
        BY <1>1, <3>1, <3>2 DEF ReportInv, RunnerInv
    <3>4. DiskInv'
        BY <1>1, <3>1 DEF ReportInv, DiskInv
    <3>5. CountInv' /\ SendErrorsLeaveTrace'
        BY <1>1, <3>1 DEF ReportInv, CountInv, Aggregated, SendErrorsLeaveTrace
    <3> QED BY <3>3, <3>4, <3>5 DEF ReportInv
  <2> QED BY <1>1, <2>1, <2>2, <2>3, <2>4, <2>5 DEF Next
<1> QED BY <1>1, InitReport, PTL DEF Spec

\* The counts of fetch and convert are of this invocation, and a skipped stage
\* other than fetch shows none, whatever earlier invocations left behind.
THEOREM CountsAreOfThisRun == Spec => []CountsAreCurrent
<1>1. ASSUME ReportInv  PROVE CountsAreCurrent
  <2>1. ASSUME NEW i \in Stages, counts[i] # 0
        PROVE  Aggregated(i) /\ counts[i] = manifest[i].by
      BY <1>1, <2>1 DEF ReportInv, CountInv
  <2>2. ASSUME NEW i \in Stages, stage[i] = "skipped"  PROVE counts[i] = 0 \/ i = Fetch
      BY <2>1, <2>2 DEF Aggregated
  <2>3. ASSUME NEW i \in {Fetch, Convert}, stage[i] = "ok"  PROVE manifest[i].by = inv
      BY <1>1, <2>3 DEF ReportInv, DiskInv
  <2> QED BY <2>1, <2>2, <2>3 DEF CountsAreCurrent
<1> QED BY <1>1, ReportInvariant, PTL

\* An upload stage that exited 0 after a send error never leaves a report that
\* says nothing of it.
THEOREM SendErrorsAreTraced == Spec => []SendErrorsLeaveTrace
<1>1. ReportInv => SendErrorsLeaveTrace
    BY DEF ReportInv
<1> QED BY <1>1, ReportInvariant, PTL

\* A stage is started only on what the stages before it finished in this
\* invocation, never on a manifest that an earlier one left.
THEOREM StagesStartOnCurrent == Spec => StagesBuildOnCurrent
<1> DEFINE Builds ==
        \A i \in Stages :
          stage[i] = "none" /\ stage'[i] = "pending" =>
              \A k \in {Fetch, Convert} : k < i =>
                  manifest[k].by = inv /\ manifest[k].state = "whole"
<1>1. ASSUME ReportInv, RunnerInv', [Next]_vars  PROVE [Builds]_vars
  <2> SUFFICES ASSUME NEW i \in 1..4, stage[i] = "none", stage'[i] = "pending",
                      NEW k \in {1, 2}, k < i
               PROVE  manifest[k].by = inv /\ manifest[k].state = "whole"
      BY DEF Stages, Fetch, Convert
  <2>1. Spawn
    <3>1. stage' # stage
        BY <1>1
    <3>2. ~EndsStage
      <4> SUFFICES ASSUME EndsStage PROVE FALSE
          OBVIOUS
      <4>1. PICK s \in Done : stage' = [stage EXCEPT ![at] = s]
          BY DEF EndsStage, SkipStage, SpawnFails, NothingToDo, FillManifest,
                 UploadManifestLost, ChildFails, Done, Push
      <4>2. stage \in [1..4 -> StageStatus]
          BY <1>1 DEF ReportInv, RunnerInv, TypeOK, Stages
      <4> QED BY <4>1, <4>2 DEF Done
    <3>3. ~Invoke
        BY DEF Invoke, NoStages, Stages
    <3>4. ~StartFails /\ ~ReadManifest /\ ~TruncateReport /\ ~FillReport /\ ~ReportFails
          /\ ~Work /\ ~TruncateManifest /\ ~Kill /\ ~UNCHANGED vars
        BY <3>1 DEF StartFails, ReadManifest, TruncateReport, FillReport, ReportFails, Work,
                    TruncateManifest, Kill, vars
    <3> QED BY <1>1, <3>2, <3>3, <3>4 DEF Next, Runner, Child, ChildWorks, EndsStage
  <2>2. stage \in [1..4 -> StageStatus] /\ stage' = [stage EXCEPT ![at] = "pending"]
      BY <1>1, <2>1 DEF Spawn, ReportInv, RunnerInv, TypeOK, Stages
  <2>3. i = at
      BY <2>2
  <2>4. stage'[k] = "ok"
    <3>1. k \in 1..(i - 1)
        OBVIOUS
    <3> QED BY <1>1, <3>1 DEF RunnerInv, StagesInOrder, Stages
  <2>5. stage[k] = "ok"
      BY <2>2, <2>3, <2>4
  <2> QED BY <1>1, <2>5 DEF ReportInv, DiskInv, Fetch, Convert
<1>2. Spec => [][Builds]_vars
    BY <1>1, ReportInvariant, RunnerInvariant, PTL DEF Spec
<1> QED BY <1>2 DEF StagesBuildOnCurrent
=============================================================================
