---------------------------- MODULE PipelineRunner ---------------------------
(***************************************************************************)
(* pipeline-runner: one process that runs the four stages of a run         *)
(* directory one after the other as child processes, reads the manifests   *)
(* they leave, and writes pipeline.json.  Several invocations over one run *)
(* directory (one run_id) are modelled: an operator's retry finds the files*)
(* of the invocations before it.  The stages are modelled by what they do  *)
(* to the directory; Fetcher, Converter and Uploader model them inside.    *)
(*                                                                         *)
(* Of the artifacts the model keeps whether there are any: wavs, matched   *)
(* jsons and prepared jsons; of a manifest, which invocation wrote it and  *)
(* whether it is whole, lists anything (fetch.json) and counts send errors *)
(* (upload.json).                                                          *)
(***************************************************************************)
EXTENDS Naturals

CONSTANT MaxInvocations   \* bound on the invocations over the directory

ASSUME RunnerAssumption == MaxInvocations \in Nat

\* The stages in order: fetch, convert, match, upload.
Stages == 1..4
Fetch == 1
Convert == 2
Match == 3
Upload == 4

VARIABLES
    inv,          \* how many invocations there have been
    dry,          \* --dry-run of the current one
    pc,           \* the runner: "off", "stage", "child", "read", "report", "writing"
    at,           \* the stage that is run or whose manifest is read
    child,        \* the stage's process: "work", "manifest" or "filling"
    stage,        \* the status of each stage, "none" when it is not in the vector yet
    counts,       \* the invocation whose manifest the stage's counts come from, or 0
    warned,       \* the stages whose manifest gave a warning
    sendErrors,   \* this invocation's uploader has met a send error
    wavs, matched, prepared,   \* the directory holds such files
    manifest,     \* each stage's manifest: [by, state, some, errors]
    pipeline,     \* pipeline.json: [by, state, status, failed, stage]
    exit          \* of the last invocation: "none", "ok", "failed", "killed"

dirVars == <<wavs, matched, prepared, manifest, pipeline>>
vars == <<inv, dry, pc, at, child, stage, counts, warned, sendErrors, dirVars, exit>>

StageStatus == {"none", "pending", "ok", "failed", "skipped"}
ManifestState == {"missing", "torn", "whole"}
NoStages == [i \in Stages |-> "none"]
NoCounts == [i \in Stages |-> 0]

TypeOK ==
    /\ inv \in 0..MaxInvocations
    /\ dry \in BOOLEAN
    /\ pc \in {"off", "stage", "child", "read", "report", "writing"}
    /\ at \in Stages
    /\ child \in {"work", "manifest", "filling"}
    /\ stage \in [Stages -> StageStatus]
    /\ counts \in [Stages -> 0..MaxInvocations]
    /\ warned \subseteq Stages
    /\ sendErrors \in BOOLEAN
    /\ wavs \in BOOLEAN /\ matched \in BOOLEAN /\ prepared \in BOOLEAN
    /\ manifest \in [Stages -> [by : 0..MaxInvocations, state : ManifestState,
                                some : BOOLEAN, errors : BOOLEAN]]
    /\ pipeline \in [by : 0..MaxInvocations, state : ManifestState,
                     status : {"ok", "partial", "failed"}, failed : 0..4,
                     stage : [Stages -> StageStatus]]
    /\ exit \in {"none", "ok", "failed", "killed"}

Init ==
    /\ inv = 0
    /\ dry = FALSE
    /\ pc = "off"
    /\ at = Fetch
    /\ child = "work"
    /\ stage = NoStages
    /\ counts = NoCounts
    /\ warned = {}
    /\ sendErrors = FALSE
    /\ wavs = FALSE /\ matched = FALSE /\ prepared = FALSE
    /\ manifest = [i \in Stages |->
            [by |-> 0, state |-> "missing", some |-> FALSE, errors |-> FALSE]]
    /\ pipeline = [by |-> 0, state |-> "missing", status |-> "ok", failed |-> 0,
                   stage |-> NoStages]
    /\ exit = "none"

-----------------------------------------------------------------------------
(* Running the stages.                                                     *)

Invoke ==
    /\ pc = "off"
    /\ inv < MaxInvocations
    /\ inv' = inv + 1
    /\ dry' \in BOOLEAN
    /\ pc' = "stage"
    /\ at' = Fetch
    /\ stage' = NoStages
    /\ counts' = NoCounts
    /\ warned' = {}
    /\ sendErrors' = FALSE
    /\ exit' = "none"
    /\ UNCHANGED <<child, dirVars>>

\* The `?` of main before the first stage: a date or a label that is not
\* valid, a run directory that cannot be created.
StartFails ==
    /\ pc = "stage"
    /\ stage = NoStages
    /\ exit' = "failed"
    /\ pc' = "off"
    /\ UNCHANGED <<inv, dry, at, child, stage, counts, warned, sendErrors, dirVars>>

\* Fault: a stage asks only about the one before it.
LastFailed == \E i \in Stages : i + 1 = at /\ stage[i] = "failed"

Failed == \E i \in Stages : stage[i] = "failed"

\* The stage is pushed with its status, and the next one or the aggregation
\* comes; a stage that failed leaves its manifest as it is.
Push(status) ==
    /\ stage' = [stage EXCEPT ![at] = status]
    /\ IF at = Upload THEN pc' = "read" /\ at' = Fetch
       ELSE pc' = "stage" /\ at' = at + 1

SkipStage ==
    /\ pc = "stage"
    /\ Failed
    /\ Push("skipped")
    /\ UNCHANGED <<inv, dry, child, counts, warned, sendErrors, dirVars, exit>>

Spawn ==
    /\ pc = "stage"
    /\ ~Failed
    /\ stage' = [stage EXCEPT ![at] = "pending"]
    /\ pc' = "child"
    /\ child' = "work"
    /\ UNCHANGED <<inv, dry, at, counts, warned, sendErrors, dirVars, exit>>

SpawnFails ==
    /\ pc = "stage"
    /\ ~Failed
    /\ Push("failed")
    /\ UNCHANGED <<inv, dry, child, counts, warned, sendErrors, dirVars, exit>>

-----------------------------------------------------------------------------
(* What the stages do to the directory.                                    *)

\* Before its manifest a stage leaves its artifacts.  The converter makes wavs
\* of the files that fetch.json lists, the matcher a json of each wav, the
\* uploader a prepared json of each matched one; a dry run of the first two
\* makes none, and only a real upload can meet send errors.
Work ==
    /\ pc = "child"
    /\ child = "work"
    /\ at = Match => wavs
    /\ at = Upload => matched
    /\ wavs' \in {wavs, wavs \/ (at = Convert /\ ~dry /\ manifest[Fetch].some)}
    /\ matched' = (matched \/ (at = Match /\ ~dry))
    /\ prepared' \in {prepared, prepared \/ at = Upload}
    /\ sendErrors' \in {sendErrors, sendErrors \/ (at = Upload /\ ~dry)}
    /\ child' = "manifest"
    /\ UNCHANGED <<inv, dry, pc, at, stage, counts, warned, manifest, pipeline, exit>>

\* Fault: the uploader waits for matched jsons.
NothingToDoMatch ==
    /\ pc = "child"
    /\ child = "work"
    /\ at = Match /\ ~wavs
    /\ Push("ok")
    /\ UNCHANGED <<inv, dry, child, counts, warned, sendErrors, dirVars, exit>>

\* The matcher without wavs and the uploader without matched jsons exit 0 at
\* once and write no manifest.
NothingToDo ==
    /\ pc = "child"
    /\ child = "work"
    /\ (at = Match /\ ~wavs) \/ (at = Upload /\ ~matched)
    /\ Push("ok")
    /\ UNCHANGED <<inv, dry, child, counts, warned, sendErrors, dirVars, exit>>

\* fs::write truncates the manifest and then fills it.
TruncateManifest ==
    /\ pc = "child"
    /\ child = "manifest"
    /\ manifest' = [manifest EXCEPT ![at].state = "torn"]
    /\ child' = "filling"
    /\ UNCHANGED <<inv, dry, pc, at, stage, counts, warned, sendErrors, wavs, matched,
                   prepared, pipeline, exit>>

Filled(some) ==
    [by |-> inv, state |-> "whole", some |-> some, errors |-> at = Upload /\ sendErrors]

FillManifest ==
    /\ pc = "child"
    /\ child = "filling"
    /\ \E some \in {FALSE, at = Fetch} : manifest' = [manifest EXCEPT ![at] = Filled(some)]
    /\ Push("ok")
    /\ UNCHANGED <<inv, dry, child, counts, warned, sendErrors, wavs, matched, prepared,
                   pipeline, exit>>

\* Fault: every stage drops the error of writing its manifest.
AnyManifestLost ==
    /\ pc = "child"
    /\ child \in {"manifest", "filling"}
    /\ Push("ok")
    /\ UNCHANGED <<inv, dry, child, counts, warned, sendErrors, dirVars, exit>>

\* The uploader drops the error of writing upload.json and exits 0.
UploadManifestLost ==
    /\ pc = "child"
    /\ at = Upload
    /\ child \in {"manifest", "filling"}
    /\ Push("ok")
    /\ UNCHANGED <<inv, dry, child, counts, warned, sendErrors, dirVars, exit>>

\* The stage exits with an error or dies by a signal, wherever it is; the
\* matcher may have written some jsons by then.
ChildFails ==
    /\ pc = "child"
    /\ Push("failed")
    /\ matched' \in {matched, matched \/ (at = Match /\ wavs /\ ~dry)}
    /\ UNCHANGED <<inv, dry, child, counts, warned, sendErrors, wavs, prepared, manifest,
                   pipeline, exit>>

-----------------------------------------------------------------------------
(* The report.                                                             *)

\* Fault: every manifest that is there is read.
AlwaysAggregated(i) == i \in Stages

\* fetch.json is always read, the others when their stage was not skipped.
Aggregated(i) == i = Fetch \/ stage[i] # "skipped"

\* Fault: a manifest that cannot be read gives zeros and no warning.
ReadQuietly ==
    /\ pc = "read"
    /\ counts' = IF Aggregated(at) /\ manifest[at].state = "whole"
                 THEN [counts EXCEPT ![at] = manifest[at].by] ELSE counts
    /\ IF at = Upload THEN pc' = "report" /\ at' = Fetch
       ELSE pc' = "read" /\ at' = at + 1
    /\ UNCHANGED <<inv, dry, child, stage, warned, sendErrors, dirVars, exit>>

ReadManifest ==
    /\ pc = "read"
    /\ IF ~Aggregated(at) THEN UNCHANGED <<counts, warned>>
       ELSE IF manifest[at].state = "whole"
            THEN counts' = [counts EXCEPT ![at] = manifest[at].by] /\ UNCHANGED warned
            ELSE warned' = warned \cup {at} /\ UNCHANGED counts
    /\ IF at = Upload THEN pc' = "report" /\ at' = Fetch
       ELSE pc' = "read" /\ at' = at + 1
    /\ UNCHANGED <<inv, dry, child, stage, sendErrors, dirVars, exit>>

\* detect_partial_upload_success: the summary holds send errors only when
\* upload.json was read, and a stage's failure takes precedence.
PartialUpload == counts[Upload] # 0 /\ manifest[Upload].errors

\* Fault: send errors take precedence over a failed stage.
PartialFirst == IF PartialUpload THEN "partial" ELSE IF Failed THEN "failed" ELSE "ok"

ReportStatus == IF Failed THEN "failed" ELSE IF PartialUpload THEN "partial" ELSE "ok"

FailedStage == IF Failed THEN CHOOSE i \in Stages : stage[i] = "failed" ELSE 0

TruncateReport ==
    /\ pc = "report"
    /\ pipeline' = [pipeline EXCEPT !.state = "torn"]
    /\ pc' = "writing"
    /\ UNCHANGED <<inv, dry, at, child, stage, counts, warned, sendErrors, wavs, matched,
                   prepared, manifest, exit>>

\* The report is complete, and the exit status says whether a stage failed.
FillReport ==
    /\ pc = "writing"
    /\ pipeline' = [by |-> inv, state |-> "whole", status |-> ReportStatus,
                    failed |-> FailedStage, stage |-> stage]
    /\ exit' = IF Failed THEN "failed" ELSE "ok"
    /\ pc' = "off"
    /\ UNCHANGED <<inv, dry, at, child, stage, counts, warned, sendErrors, wavs, matched,
                   prepared, manifest>>

\* Fault: the error of writing the report is only logged.
ReportFailsUnseen ==
    /\ pc \in {"report", "writing"}
    /\ exit' = IF Failed THEN "failed" ELSE "ok"
    /\ pc' = "off"
    /\ UNCHANGED <<inv, dry, at, child, stage, counts, warned, sendErrors, dirVars>>

\* write_pipeline_json's error is main's error, before or after the truncation.
ReportFails ==
    /\ pc \in {"report", "writing"}
    /\ exit' = "failed"
    /\ pc' = "off"
    /\ UNCHANGED <<inv, dry, at, child, stage, counts, warned, sendErrors, dirVars>>

\* The container is stopped: the runner and its child go together.
Kill ==
    /\ pc # "off"
    /\ exit' = "killed"
    /\ pc' = "off"
    /\ UNCHANGED <<inv, dry, at, child, stage, counts, warned, sendErrors, dirVars>>

Runner ==
    \/ StartFails \/ SkipStage \/ Spawn \/ SpawnFails
    \/ ReadManifest \/ TruncateReport \/ FillReport \/ ReportFails

ChildWorks == Work \/ NothingToDo \/ TruncateManifest \/ FillManifest

Child == ChildWorks \/ UploadManifestLost \/ ChildFails

Next == Invoke \/ Runner \/ Child \/ Kill

Spec == Init /\ [][Next]_vars

\* The runner runs, and so does the stage it waits for, which need not fail to
\* end: wait_with_output has no timeout, so that this is an assumption on the
\* stages (WorkerPool, CallReturns).
FairSpec == Spec /\ WF_vars(Runner) /\ WF_vars(ChildWorks)

-----------------------------------------------------------------------------
(* Properties.                                                             *)

\* The statuses of the stages are ok up to the first that failed, which is the
\* only one, and skipped after it: no stage runs on what a failed one left.
StagesInOrder ==
    \A j \in Stages :
        /\ stage[j] \in {"pending", "ok", "failed"} => \A i \in 1..(j - 1) : stage[i] = "ok"
        /\ stage[j] = "skipped" => \E i \in 1..(j - 1) : stage[i] = "failed"

\* An invocation that exits 0 has left its own complete report, which says
\* that no stage failed; an invocation with a failed stage never exits 0.
ExitIsReported ==
    exit = "ok" =>
        /\ pipeline.by = inv /\ pipeline.state = "whole"
        /\ pipeline.status \in {"ok", "partial"}
        /\ \A i \in Stages : pipeline.stage[i] = "ok"

\* Whatever report is whole on disk is consistent: failed names the one failed
\* stage, and a report without a failed stage has four that are ok.
ReportConsistent ==
    pipeline.state = "whole" =>
        /\ (pipeline.status = "failed") <=> (pipeline.failed # 0)
        /\ \A i \in Stages : pipeline.stage[i] = "failed" <=> pipeline.failed = i
        /\ pipeline.status # "failed" => \A i \in Stages : pipeline.stage[i] = "ok"
        /\ \A i \in Stages : pipeline.stage[i] \in {"ok", "failed", "skipped"}

\* The counts of a finished stage come from the manifest that this invocation
\* wrote; only a stage that failed, or one that had nothing to do or lost its
\* manifest (match, upload), can show the counts of an earlier invocation.
CountsAreCurrent ==
    \A i \in Stages :
        /\ stage[i] = "skipped" => counts[i] = 0 \/ i = Fetch
        /\ counts[i] # 0 /\ stage[i] = "ok" /\ i \in {Fetch, Convert} => counts[i] = inv

\* A send error of an upload stage that exited 0 leaves a trace in the report:
\* status partial, a warning about upload.json, or counts that are visibly of
\* another invocation.
SendErrorsLeaveTrace ==
    exit = "ok" /\ sendErrors =>
        \/ pipeline.status = "partial"
        \/ Upload \in warned
        \/ counts[Upload] \in 1..(inv - 1)

\* A stage starts only after every earlier stage of this invocation exited 0
\* and, for fetch and convert, left its whole manifest in this invocation.
StagesBuildOnCurrent ==
    [][\A i \in Stages :
          stage[i] = "none" /\ stage'[i] = "pending" =>
              \A k \in {Fetch, Convert} : k < i =>
                  manifest[k].by = inv /\ manifest[k].state = "whole"]_vars

\* An invocation ends.
InvocationEnds == (pc = "stage") ~> (pc = "off")

-----------------------------------------------------------------------------
(* What the documents say and the code does not do.                        *)

\* README.md: "pending" is what a stage shows when an earlier one failed
\* before it could start.
PendingAfterFailure ==
    pipeline.state = "whole" =>
        \A i \in Stages : pipeline.failed # 0 /\ i > pipeline.failed =>
            pipeline.stage[i] = "pending"

\* README.md and the uploader's --dry-run: a dry run makes no transfer but
\* generates the manifests and the prepared json (when fetch lists anything).
DryRunPrepares ==
    exit = "ok" /\ dry /\ manifest[Fetch].some =>
        /\ \A i \in Stages : manifest[i].state = "whole"
        /\ prepared
=============================================================================
