# Verification of the call-audio pipeline

TLA+ modules, TLC configurations and TLAPS proofs for the pipeline of this repository: a batch system that, once a
day and for each client, downloads call recordings (`audio-fetcher-rs`), converts them to wav (`audio-converter-rs`),
matches them with the client's database (`metadata-matcher-rs`) and uploads json and wav by SFTP
(`audio-uploader-go`). `pipeline-runner` runs the four stages over one *run directory*, and
`scripts/run_pipeline.sh`, started by a systemd timer or an operator, runs `pipeline-runner` over clients and days.

Paths below are relative to the repository. `PROJECT.json` is the machine-readable index: the components, the runs, the
source lines each definition stands for, the hazards and the properties aimed at them, the seeded faults, the
findings and the theorems.

Contents: [1 Inventory](#1-inventory) · [2 Modules](#2-modules-and-how-they-correspond-to-the-code) ·
[3 Runs](#3-what-the-runs-check) · [4 Fairness](#4-fairness) · [5 Proofs](#5-what-is-proved) ·
[6 Findings](#6-where-documents-and-code-disagree) · [7 Not modelled](#7-what-is-not-modelled) ·
[8 Plan](#8-plan)

## 1 Inventory

All state that outlives a process is in files. One run is the directory `shared/runs/<client>/<date>/<run_id>/`:

    raw/         <name>            written by fetch, read by convert
    wav/         <record>.wav      written by convert (ffmpeg -y), globbed by match, read by upload
    matched/     <record>.json     written by match, globbed by upload
    prepared/    ...json           written by upload
    manifests/   fetch.json convert.json match.json upload.json pipeline.json

There are no locks, no database of what was done, and no transactions: a manifest is written with one `fs::write` or
`os.WriteFile` at the end of a stage (truncate, then fill), and the mere existence of a file is what the next stage, or
the next run, takes for "already done". What makes the system correct is therefore about *leftovers*: what a killed,
failed, dry or concurrent run leaves, and what the next reader believes of it.

| component | state | operations | interacts with |
|---|---|---|---|
| worker pool (in fetcher and converter) | job channel, its mutex, result channel, threads | send, drop, lock, recv, work, send result, collect, sort | the stage's job function |
| fetch stage | `raw/`, `fetch.json`, counters | list a source, check / get / write a file, count, write the manifest | HTTP servers, pool |
| convert stage | `wav/`, `convert.json` | read `fetch.json`, check / encode / probe, write the manifest | ffmpeg, ffprobe, pool |
| match stage | `matched/`, `match.json` | read two manifests, glob, batch query, row stream, one json per wav, write the manifest | MSSQL |
| upload stage | remote json and wav, `prepared/`, `upload.json` | validate, prepare, send json, send wav, count, write the report | SFTP server, shared by all runs of a client and day |
| pipeline-runner | vector of stages, counts, `pipeline.json`, exit status | spawn / wait / skip a stage, read manifests, derive the status, write the report | the four stages as child processes |
| run_pipeline.sh | position in the client and day loops, exit status | skip an existing run directory, start containers, abort | pipeline-runner or single stages |
| systemd units, retention cleanup | run directories | start the daily run, stop it, purge old directories | run_pipeline.sh |
| crates/common | none (pure functions: paths, file name parsing, manifest types) | | all Rust stages |
| install / release scripts, test SFTP server, static checks | none at run time of the pipeline | | |

What is hard here, and where:

- **Threads** (fetcher, converter): several workers behind one mutex that is held *during* the blocking `recv`; results in
  completion order while manifests promise discovery order; two jobs for one output file when two sources list one name or
  two names share a stem.
- **Kills and failed writes** at any point: broken raw files, broken wavs, torn jsons and torn manifests, which the
  next run takes for finished ones because they exist.
- **Retries in the same directory**: manifests of an earlier invocation are still there when a stage fails or writes
  nothing; the runner must not report their counts as its own.
- **Overlap**: remote paths hold client and date but not the `run_id`, so two runs of a day share remote files; the
  script checks for the run directory long before a container creates it.
- **Two-part results**: json and wav are sent one after the other; a record can be half on the server.
- **Bookkeeping with reverts**: `Valid` is counted up before the upload and taken back in two separate error branches.
- **Exit status through layers**: stage, runner, container, pipe into `tee`, script, unit.
- **Data through five programs**: what a recording is matched with depends on the parts of its file name, on a file of
  agents, on chunks of a batch, and on columns named in three configurations and two languages.

What makes each component correct (stated as properties in section 3): the pool returns each job's result once, in
order, and always returns; fetch counts each link once and never truncates a whole file; convert says "ok" only of whole
wavs and gives match a probe flag that vouches for the wav; match fills a json from the rows of its own record, and
from the complete answer; upload's numbers, items and the server agree, and audio never precedes its metadata; the
runner stops at the first failure, its report is consistent and of this invocation, and exit 0 is true; the script's
exit status tells of every container and one daily run never works in the directory of another, and it ends. Across
components: what is sent is audio that ffprobe accepts (the whole recording, unless a download or conversion broke off where no
reader can see it) with the notes of its own call, nothing complete is held back, and when the counts of `pipeline.json` look
complete the day is.

## 2 Modules and how they correspond to the code

| module | models | extended or instantiated by |
|---|---|---|
| `JobMap` | abstract specification of a batch: each job is applied once, the call returns all results in the order of the jobs | `WorkerPool` (refinement), `WorkerPoolProofs` |
| `WorkerPool` | `run_download_jobs` / `run_conversion_jobs` | `Fetcher`, `Converter`, `WorkerPoolProofs` |
| `Fetcher`, `MCFetcher` | `audio-fetcher-rs`: `main`, `download_file` | `FetcherProofs` |
| `Converter`, `MCConverter` | `audio-converter-rs`: `main`, `convert_one`, `probe_wav` | `ConverterProofs` |
| `ConvertRuns` | abstract specification of the convert stage: how its runs may change the wavs and `convert.json` | `Converter` (refinement), `Matcher` (assumption) |
| `Matcher`, `MCMatcher` | `metadata-matcher-rs`: `main`, `load_probe_map`, the batch query | `MatcherProofs` |
| `Uploader`, `MCUploader` | `audio-uploader-go`: `main`, `uploadFile` | `UploaderProofs` |
| `PipelineRunner` | `pipeline-runner`: `main`, `run_stage`, manifest readers, `write_pipeline_json` | `PipelineRunnerProofs` |
| `RunScheduler`, `MCRunScheduler` | `run_pipeline.sh`, `run_production.sh`, the units and the cleanup | `RunDirectoryProofs` |
| `FileName` | `crates/common/src/util.rs`: what the name of a recording says, and how the exchange writes it | `RecordFlow` |
| `RecordFlow`, `MCRecordFlow` | the data of a run: names, agents, chunks and join of the batch, columns, codes (`metadata-matcher-rs`), `buildOutgoing` and `validateOutgoing` (`audio-uploader-go`) | `RecordFlowProofs` |
| `RunDirectory`, `MCRunDirectory` | the five programs composed over one run directory, and the counts of `pipeline.json` | `RunDirectoryProofs` |

**Composition.** `Fetcher` and `Converter` *extend* `WorkerPool` and conjoin its actions with their own: a worker that
has a job (`wpc = "work"`) walks through `download_file` or `convert_one`, and `SendResult` of the pool is allowed when
that walk is done. The stages meet through files, in two modules that cut the system at right angles to the stages.
`RunDirectory` follows *files and counts* through all five programs and several invocations; a stage that exits 0 is one
step with every outcome that the stage's own module allows. `RecordFlow` follows the *data* of each recording from its file
name to the verdict of the uploader, in one run without failures. In the modules of single stages each reader models its writer by
what the writer's module shows. Between converter and matcher this is a contract, `ConvertRuns`: `Matcher!Converts` is its step, and `Converter`
implements it (`ImplementsRuns`). The mapping hides a wav from its truncation to the end of its ffmpeg, unless two jobs write it; when no run is
in progress nothing is hidden. A run of the converter is many steps of the contract, which is why `MatcherProofs` lets there be any
number of them between two runs of the matcher. `PipelineRunner` models a stage by the artifacts and manifests it
leaves; `RunScheduler` models a container by how far it gets.

**WorkerPool.** `pmain` is the position of the main thread (`send` loop, `collect`, `returned`), `queue`/`txOpen` the job
channel, `rxLock` the mutex around the receiver, `wpc`/`hand` the workers, `resq` the result channel, `collected` the
vector, which `ReturnResults` sorts as `sort_by_key` does. `Lock` and `Recv` are two steps because the guard is a temporary of the `let` statement: it is
held while `recv` blocks and released when `recv` returns. `RecvClosed` is the `Err` of a channel that is empty and whose
sender is gone. `drop(job_tx)` is `CloseJobs`; `drop(res_tx)` shows in `AllExited`, the end of `res_rx.iter()`.

**Fetcher.** A raw file is `absent`, `broken` or `whole`. `ListSource` makes the jobs of one source and takes `main`'s own
look at the file (`existed`); `CheckFile`, `Get`, `Open`, `Fill` are the steps of `download_file`, with its second look at
the file, and `fs::write` split into truncating and filling. `CountResults` compares both looks as the code does.

**Converter.** `CheckOutput` is the chain dry run / output exists / encode of `convert_one`, `FfmpegOpens` … `FfmpegFails`
what `ffmpeg -y` does to the file, `Probe` the flag and duration. A file that two ffmpegs have written at once (`shared`)
can end in any state. A `whole` wav is what a complete run of ffmpeg makes of its raw file; whether that file was the whole
recording is a question for `RunDirectory`. `Kill` ends process, threads and children and leaves the files. `Kept` is the loop that makes the jobs of the items whose
raw file exists, written as a recursive function (the provers cannot unfold `SelectSeq`).

**Matcher.** `Load` reads `convert.json` into `probe` and globs the wavs in alphabetical order; `Query` picks any subset of
the join as the database's answer; `TakeRow` consumes the stream `ORDER BY k` (several rows of one `k` in any order, the last
one wins); `TruncateJson`/`FillJson` write one json; the manifest follows. `Contended` excludes records that two jobs of
one conversion write at once, as in `Converter`. `ProbeExact` says whether ffprobe rejects every wav that was cut short. `probe_wav` asks
for exit 0 and a duration, which such a wav may have; so `ProbeExact` is a constant of either value, and what
depends on it names it. The runs set it to TRUE, where `SendableIsWhole` and `ProbeVouches` say something; the theorems cover both.

**Uploader.** Several uploaders, each in a run directory of its own, on one server. `Skip` and `Prepare` are the branches
before the upload, with the effect of each on `Valid`, `Skipped`, the counts and the items; `Create`/`OpenFails`/`Copied`/
`CopyFails` are `uploadFile`; `Leave` is its end, for the json and then for the wav. `mixed` holds the remote files that two
uploaders had open at once, whose content is then anybody's.

**PipelineRunner.** `stage` is the vector of stages, `counts[i]` the *invocation* whose manifest the numbers of stage i come
from (the code keeps the numbers; whose they are is what properties are about). `Spawn`, `SpawnFails`, `ChildFails` and the
child's steps are `run_stage`; `ReadManifest` is `read_fetch_counts` and its siblings; `ReportStatus` the cascade at the
end of `main`; `TruncateReport`/`FillReport`/`ReportFails` are `write_pipeline_json`.

**RunScheduler.** An invocation walks through `Target(c, i)`, clients outside and days inside. `Skip`/`Pass` is the `-d` test,
`Start` the moment the container has created the directory, `Works`/`Fails` the end of a container, `Abort` what
`set -euo pipefail` makes of a failing one, `Stop` a signal. `Purge` is the retention cleanup. `Remove` is the operator who
deletes the directory of a failed run; the code leaves that to people, so it is external. `Commands[s]` are the command
lines that invocation `s` may have. `progress` is how far the stages got in a directory (stages are counted, not what they found: a
run without a single wav that exits 0 has got to the end); `listed` says that there is a `fetch.json`,
which only the converter insists on.

**FileName.** A name is a sequence of parts, a separator and extensions; a part is kept by what the parser can tell of it (the word
`OUT`, a valid date, a number that fits an i32, ...). `Readings` and `Parse` are `detect_tipo_and_parse` with its three layouts, `RecordId` is
`record_id_from_filename`, `Local` the dropped 8 of `normalize_tipo1_phone`. `Written(c)` is the other direction, external to the
code: the name that the exchange gives the recording of call `c`, taken from the layouts in the comments and tests of `util.rs`.

**RecordFlow.** `ReadName` takes one wav (`Input`: parse, or the fallback of phone "0", agent and instant 0; then the anexo), `Insert` one chunk of
the `#temporal` table, `Lookup` the join `T1`/`T2` of `batch_lookup.yml` (of several rows for one `k` any stays; `JoinedTables`
are the tables it joins besides the operations, four for natura and three for maf, and an operation that lacks a row in one of them gives no
row, `HasRows`), `WriteJson` one json
with the configured columns and the group of the result code, `Validate` the verdict of the uploader, with the checks in the
order of `validateOutgoing`. A value of a column is kept as a cell: text, blank, int, float, null, a type the matcher cannot read.
`byId` is the index of the result codes; a code in two groups goes to whichever group a `HashMap` yields last, so it is chosen in `Init`.
`InputAssumption` says what the sets of inputs are taken to be: a name that can be read is one that the exchange has written, `code` is the integer
of a filled `NID_OPECODOUT`, and (as in `shared/config`) `agents.yml` has no name for agent 0, which stands for "unknown", and `OTRO`, the default of
`rpta_opecodout.yml`, is no group. Without the last two the code would accept recordings of nobody and of unlisted codes.

**RunDirectory.** `raw`, `wav`, `json`, `remote` are the files. Where a download or a conversion broke off a file is `short` (audio, only not all
of it) or `broken` (no duration to be found). A raw file is short after a kill or a failed `fs::write` (fetcher `main.rs:82`); since it exists, the next invocation takes
it as finished (`:72`), and the converter makes a wav of it with status `ok`. A wav is short after a kill or failure of ffmpeg that leaves a file ffprobe can read, and is passed
on as `skip_exists`. Both can be sent.
`fetch`, `convert`, `match` and `upload` are the manifests, `outcome` is what the last upload made of each json, `sent` a history variable: the records that some invocation has uploaded. `FetchFiles` … `UploadFiles` are whole stages,
`ConvertOne` and `UploadOne` what a stage makes of one record, `MatchBreaks` a matcher that fails half way, `BreakOff` any other end before
the report. The jobs and the items of `convert.json` are named by their place in `fetch.json`. `Report` is `read_*_counts`, the warnings and `write_pipeline_json`. `Contended` excludes the wav that two jobs of one stem
write at once, as in `Converter`. The names of the module (`DirInit`, `DirNext`, `stage`, `result`, ...) differ from those of `RunScheduler`: one proof module
extends both, and speaks of run directories from outside (who works in which) and from within (what the files and counts mean).

**Abstractions used throughout.** A file's content is one of absent / broken (torn) / whole, in `RunDirectory` also short, plus who wrote it; a record, a name or
a row is a model value or small number; logs, timings, layout and wording are left out. `fs::write` is two steps so that a kill
can fall between them. Errors of calls that the code cannot foresee (HTTP, ffmpeg, SFTP, MSSQL, disk) are free choices.

**Definitions marked `Fault:`** are not part of any specification. Each is a plausible slip in the definition that
follows it (a dropped guard, a missing revert, a swapped order); substituting it for that definition makes the
property it is paired with in `PROJECT.json` fail. They show that the properties can fail at all.

## 3 What the runs check

Twelve runs, two workers, each well under five minutes. Every property of a passing run is paired with a seeded fault that breaks it.
Section 5 proves the types, which are not run as well.

| run | question | bounds | distinct states |
|---|---|---|---|
| `worker_pool` | does the pool lose, repeat or reorder jobs, hang or spin; does it implement the abstract batch? | 0..4 jobs, 3 workers, process end anywhere; deadlock checked | 6,783 |
| `converter` | what may be believed of `convert.json` and the wavs after any history of two runs; is it what the matcher assumes? | 4 lists of 0..3 items (a stem twice, a name twice), any subset of the raw files, 2 workers, 2 runs | 1,127,897 |
| `fetcher` | are counters and `fetch.json` right, is a whole file ever truncated? | 2 sources of 1..2 links that share a name, 2 workers, 2 runs | 1,652,162 |
| `matcher` | what are the jsons and `match.json` made of? | 2 records, 2 rows one of which fits both records, 3 lists of `convert.json`, 2 runs of each stage | 892,701 |
| `uploader` | do report and server agree, alone and overlapping? | 2 uploaders, 2 records | 481,679 |
| `runner` | what do report and exit status say after any first invocation; does an invocation end? | 2 invocations | 54,158 |
| `records` | is a recording matched with its own call; is exactly the complete one accepted? | 3 clients, 11 lists of 1..3 names in all layouts and broken ones, up to 2 notes of agents, among them one for each column that is missing, blank or unreadable, and a call and a note without a phone, and notes without a row in a joined table | 167,450 |
| `directory` | when the counts look complete, is the day complete; is what was sent audio, and when is it not all of the recording? | 2 invocations, 3 names, 2 records, 3 listings (two records, a name twice, a stem twice), raw files and wavs cut short | 2,604,067 |
| `scheduler` | exit status; who works in which directory; does a script end? | the service started twice and an operator with 5 command lines, 2 clients, 2 days | 349,986 |
| `runner_pending`, `runner_dry_run`, `scheduler_upload` | three statements of documents, see section 6 | 1 invocation; 2 scripts | violated |

**worker_pool.** `ExactlyOnce`: not sent, in the channel, in a worker's hand, in the result channel and collected partition the jobs.
`NeverStuck`: while main waits for a result or for the last worker to leave, a worker can go on, although another may block in `recv`
with the mutex held. The deadlock check alone would not see this, because the process may be killed in every state. `CallAdvances`: every step of
main or of a worker takes exactly one off `StepsLeft`, so that no schedule makes the threads spin.
`CallReturns`: a call returns. `ImplementsBatch`: the pool refines `JobMap`
under the mapping *finished = results in the channel or collected*; since `JobMap` returns the results in the order of the jobs,
this is also where discovery order comes from.

**converter.** `OkIsWhole`: an item reported `ok` has a whole wav. `WholeIsKept`: no later run truncates a whole wav; only a second job for the
same record in one run can. `ManifestMatchesFetch`: a run that exits 0 has left one item per present file, in the order of
`fetch.json`, and what its items count as converted or there already is there. `ProbeVouches`: when ffprobe rejects broken files, `ffprobe_ok` means whole, leftovers of killed runs included; ffprobe
may also refuse any file, or not start. `ImplementsRuns`: each step of each run, killed or not, is a step of the contract `ConvertRuns`, which is all
that the matcher relies on.
That a run ends is left to `CallReturns` of the pool: the rest of `main` is one step after the other. The model also shows what is *not* true, in the excepted case `Contended`: two
jobs with one stem write one wav at once (`main.rs:107`). That race does go wrong, and no property covers it.

**fetcher.** `CountersAddUp`: each link is counted once although `main` and the worker look at the file at different times.
`CleanRunIsComplete`: a first run with `files_failed = 0` has every file whole and lists them in order; after a killed run a short
file counts as skipped, which is why the property is about the first run only. `WholeIsKept` as above.

**matcher.** `SendableIsWhole`: if ffprobe rejects every wav that was cut short (`ProbeExact`), a json that the uploader's validation
accepts (`lookup.ok`, `ffprobe_ok`) speaks of a whole wav, also when it is a leftover. Without the condition that is false; `SentIsProbed` of the
run `directory` says what is left. `RowsStayWithRecord`: no json has a row of another record's call. `JsonsUseWholeAnswer`: the jsons of a run come from the
complete answer, never from a stream that broke off. `ManifestMatchesJsons`: a real run that exits 0 lists every wav once, in
order, with the flag of the json. `ManifestNotAhead`: `match.json` never lists what was not written, whatever failed since.

**uploader.** `Accounting`: valid, skipped and the counts agree with the items at every turn of the loop, reverts included. `ReportComplete`: one item per json.
`SentIsStored`: what is reported sent is complete on the server unless another run opened the path. `MetadataFirst`: audio only
after its json. `HalfSentIsReported`: a json without audio shows as `send_error` unless the run was killed. `OnlyPreparedIsSent`:
skipped records and dry runs send nothing. The exception `Alone(u, path)` is the hazard of remote paths without `run_id`: two
runs of one day do overwrite each other. What becomes of a file they share no property covers; `OnlyPreparedIsSent` says who may have written it.

**runner.** `StagesInOrder`: ok up to the one that failed, skipped after it. `ExitIsReported`: exit 0 means a whole report of this invocation without
failed stages. `ReportConsistent`: status, failed stage and vector agree in whatever report is on disk. `CountsAreCurrent`: counts of a
finished fetch or convert are of this invocation. Match and upload can show old ones when they had nothing to do or lost
their manifest. `SendErrorsLeaveTrace`: a send error under exit 0 shows as partial, as a warning, or as counts of another
invocation. `StagesBuildOnCurrent`: a stage starts only on whole fetch and convert manifests of this invocation. `InvocationEnds`.

**records.** `NamesParseBack`: what the exchange has written into a name comes out of it again, in every layout and with any number of
parts. `KnownCallIsFound`: a call with an agent's note is found, through anexo, chunks and join, if the note
has its rows in the joined tables. A note whose debt, parameters, result code or (but for maf) debtor is missing is dropped by the inner joins. `SentDataIsOfCall`: an accepted recording
is sent with the note of its own call; names that do not parse and anexos without an agent do not get through.
`AcceptedIfComplete`: accepted if and only if the note has a phone, the agent a name, the result code a group, the audio a probe and every
column the client needs a value. (The phone was missing here until the proof asked for it: the join matches an empty phone with an
empty phone, and the uploader then holds the recording back.) Five places of two programs and of the configuration have to agree for that.

**directory.** `AllGreenIsComplete`: no warnings, `fetch.total = convert.ok + convert.skip_exists`, `match.total = upload.total = upload.sent_ok`
and exit 0 together mean that every listed recording has been uploaded. No single count means that: downloads fail with exit 0, names
are counted twice, and `upload.json` may be an old one. `SentIsProbed`: what is called sent was found in the database, and the server
has audio of it that ffprobe accepts, whatever earlier invocations have left in the directory. It is all of the recording unless the raw file was cut
short, which nothing in the code can tell, or the wav was there already, of which only a duration is asked.

**scheduler.** `ExitTellsFailure`: exit 0 means every target was skipped or ended well, and nothing is touched after a failed container.
`OneServiceRunPerDirectory`: a daily run never works in the directory of another daily run while it exists. An operator's command beside
the daily run is *not* excluded: the check for the directory and its creation are apart (`run_pipeline.sh:446`), and no property covers that overlap. `ScriptEnds`: an invocation comes to its end
whatever it skips; the skip counts the day up itself before its `continue`.

**Why the bounds are enough.** Each bound is chosen to contain the case it is there for. Two runs or invocations: the second meets every leftover
of the first, and leftovers have no memory of how many runs made them beyond who wrote last. Two workers give every race for one
file; three in `worker_pool` add a worker that waits while another blocks. Two records give a neighbour whose row, json or
count could be mixed up. In `records` a day has 4 instants and the window is 1, so that notes lie inside, at the edge of and outside it; chunks of 2
against 1..3 inputs give a full, a partial and a second chunk. A record listed twice and a name of two sources are included because they are what the code does not exclude.
Named bounds: `MaxJobs`, `MaxRuns`, `MaxConversions`, `MaxInvocations`; the sets `Uploaders` and `Scripts` bound the rest. The theorems of
section 5 hold for every value of them. `SYMMETRY` is used for the uploaders, in a run without liveness.
`CHECK_DEADLOCK FALSE` is in every run but `worker_pool`, since a system whose last run has ended stops.

## 4 Fairness

- `WorkerPool`: weak fairness of the main thread and of each worker. Threads are scheduled by the operating system, a
  `std::sync::Mutex` is released when its guard is dropped, and a free mutex is eventually taken by *some* waiter, which is all that weak
  fairness of each `Lock` gives. The work of a job ends: every ffmpeg and ffprobe is assumed to,
  since the code waits for it without a timeout.
- `PipelineRunner`: weak fairness of the runner and of the child's work. The code waits for a child without a timeout
  (`wait_with_output`), so that the end of every stage is an assumption there.
- `RunScheduler`: weak fairness of each script: bash goes on, and every container ends (`InvocationEnds`, under the assumptions above).
- No fairness on starting a run, on failures, kills, purges, or anything an operator does.

`Fetcher`, `Converter`, `Matcher`, `Uploader`, `RecordFlow` and `RunDirectory` state safety only: their own loops are over finite lists, and whether a server answers is not
up to the code (HTTP has a timeout of 60 s, SFTP one of 20 s for the connection only, MSSQL none).

## 5 What is proved

TLAPS proves the following for every value of the constants; no step is left unproved. Each `...Proofs` module extends the
module it is about. Assumptions are the named `ASSUME`s of the modules (for instance that `Concurrency` is positive, which
`validate_concurrency` enforces, or that the lists of an uploader have no repetitions, since they come from a directory).

| theorem | states | for every |
|---|---|---|
| `WorkerPoolProofs!NoJobLostOrRepeated` | `[]ExactlyOnce` | number of jobs and workers |
| `WorkerPoolProofs!NoWorkerLeavesEarly` | `[]ExitOnlyWhenDrained`: no worker leaves while a job is to come | number of jobs and workers |
| `WorkerPoolProofs!PoolImplementsBatch` | `PoolSpec => ImplementsBatch`, the order of the results included | number of jobs and workers |
| `WorkerPoolProofs!CallIsNeverStuck` | `[]NeverStuck` | number of jobs and workers |
| `WorkerPoolProofs!EveryStepCounts` | `CallAdvances` (action property) | number of jobs and workers |
| `WorkerPoolProofs!CallIsBounded` | `[]StepsInv`: a call over n jobs has at most 5n + 2 Concurrency + 2 steps | number of jobs and workers |
| `UploaderProofs!CountsAreRight` | `[]Accounting` | set of runs, records, lists |
| `UploaderProofs!ManifestIsComplete` | `[]ReportComplete` | set of runs, records, lists |
| `UploaderProofs!SentMeansStored` | `[]SentIsStored` | set of runs, records, lists |
| `UploaderProofs!MetadataGoFirst` | `[]MetadataFirst` | set of runs, records, lists |
| `UploaderProofs!OnlyPreparedLeaves` | `[]OnlyPreparedIsSent` | set of runs, records, lists |
| `UploaderProofs!HalfSentIsSeen` | `[]HalfSentIsReported` | set of runs, records, lists |
| `PipelineRunnerProofs!StagesStopAtFailure` | `[]StagesInOrder` | number of invocations |
| `PipelineRunnerProofs!ExitZeroIsTrue` | `[]ExitIsReported` | number of invocations |
| `PipelineRunnerProofs!ReportIsConsistent` | `[]ReportConsistent` | number of invocations |
| `PipelineRunnerProofs!CountsAreOfThisRun` | `[]CountsAreCurrent` | number of invocations |
| `PipelineRunnerProofs!SendErrorsAreTraced` | `[]SendErrorsLeaveTrace` | number of invocations |
| `PipelineRunnerProofs!StagesStartOnCurrent` | `StagesBuildOnCurrent` (action property) | number of invocations |
| `MatcherProofs!OnlyWholeAudioIsSendable` | `[]SendableIsWhole`, which is conditional on `ProbeExact` | database, records, histories |
| `MatcherProofs!RowsAreNotMixed` | `[]RowsStayWithRecord` | database, records, histories |
| `MatcherProofs!ManifestIsBacked` | `[]ManifestNotAhead` | database, records, histories |
| `MatcherProofs!AnswersAreWhole` | `[]JsonsUseWholeAnswer` | database, records, histories |
| `MatcherProofs!ManifestIsExact` | `[]ManifestMatchesJsons` | database, records, histories |
| `RecordFlowProofs!ParseUndoesWriting` | `Parse(RecordOf(c)) = {Meant(c)}` | call in any layout, any number of parts |
| `RecordFlowProofs!NamesAreUnderstood` | `[]NamesParseBack` | calls, wavs, agents |
| `RecordFlowProofs!NotedCallsAreFound` | `[]KnownCallIsFound`, for notes with rows in the joined tables | calls, wavs, database, agents, chunk size, window |
| `RecordFlowProofs!SentIsOfItsCall` | `[]SentDataIsOfCall` | the same, names and groups of codes, clients |
| `RecordFlowProofs!SentIffComplete` | `[]AcceptedIfComplete` | the same, names and groups of codes, clients |
| `FetcherProofs!CountersAreRight` | `[]CountersAddUp` | names, sources, links, threads |
| `FetcherProofs!CleanRunsAreComplete` | `[]CleanRunIsComplete` | names, sources, links, threads |
| `FetcherProofs!WholeFilesAreKept` | `WholeIsKept` (action property) | names, sources, links, threads, histories |
| `FetcherProofs!FetcherIsPool` | `Spec => PoolSpec` | names, sources, links, threads |
| `FetcherProofs!FetcherImplementsBatch` | `Spec => ImplementsBatch` | names, sources, links, threads |
| `FetcherProofs!FetcherNeverStuck` | `[]NeverStuck`, `CallAdvances` and `[]StepsInv` for the pool inside the stage | names, lists, threads, histories |
| `ConverterProofs!ConvertTypes` | `[]TypeOK` | names, records, lists, threads |
| `ConverterProofs!OkItemsAreWhole` | `[]OkIsWhole` | names, records, lists, threads, histories |
| `ConverterProofs!ManifestIsComplete` | `[]ManifestMatchesFetch` | names, records, lists, threads, histories |
| `ConverterProofs!ProbedIsWhole` | `[]ProbeVouches` | names, records, lists, threads, histories |
| `ConverterProofs!WholeWavsAreKept` | `WholeIsKept` (action property) | names, records, lists, threads, histories |
| `ConverterProofs!ConverterIsPool` | `Spec => PoolSpec` | names, records, lists, threads |
| `ConverterProofs!ConverterImplementsBatch` | `Spec => ImplementsBatch` | names, records, lists, threads |
| `ConverterProofs!ConverterImplementsRuns` | `Spec => ImplementsRuns`: the contract that `Matcher` assumes | names, records, lists, threads, histories |
| `ConverterProofs!ConverterNeverStuck` | `[]NeverStuck`, `CallAdvances` and `[]StepsInv` for the pool inside the stage | names, lists, threads, histories |
| `RunDirectoryProofs!ExitStatusIsTrue` | `[]ExitTellsFailure` | scripts, command lines, run ids |
| `RunDirectoryProofs!ServiceRunsAreApart` | `[]OneServiceRunPerDirectory` | scripts, command lines, run ids |
| `RunDirectoryProofs!SentAudioIsProbed` | `[]SentIsProbed` | names, records, listings, number of invocations |
| `RunDirectoryProofs!GreenDaysAreComplete` | `[]AllGreenIsComplete` | names, records, listings, number of invocations |

With these, every safety and action property of the passing runs has a theorem. "Histories" are the runs that came before and the
points at which they were killed. Each theorem rests on an inductive invariant of its module, often built in layers: `PoolInvariant`;
`UploaderInvariant` and `SendInvariant`; `RunnerInvariant` and `ReportInvariant`; `MatcherInvariant` and `RunInvariant`; `FlowInvariant` and
`RecordInvariant`; `FetchInvariant` and `DirInvariant`; `ConvertInvariant`; `SchedulerInvariant`; `DirectoryInvariant`. Types are proved as parts of them or as
`FetchTypes`, `ConvertTypes`, `TypesAreRight` and `DirectoryTypes`.

*PoolInv.* `ExactlyOnce` alone is not inductive: to show that a worker's `RecvClosed` strands nothing one has to know that the sender is
dropped only after the last send (`MainInv`), and that the worker in `recv` is the one that holds the mutex, hence the only one that takes a
job (`LockInv`). The partition is kept because each step moves one job from one place to the next; lemmas `AppendToSet` and
`HeadTailToSet` say what that does to the sets behind the sequences. For the refinement, `Collect`, `Send`, `Recv` are
stutters, `SendResult` is `Complete`, and `ReturnResults` is `Return` because no worker and no result are left, so that the partition
leaves only `collected`. That sorting then gives 1, 2, ..., n is `SortKeepsResults`: a strictly increasing sequence of length n over 1..n is the
identity (`IncreasingIsIdentity`), because at each position there has to be room for what follows (`IncreasingNeedsRoom`).

*StepsInv.* A job costs five steps (send, receive, work, collect, and the lock that its worker takes again), a worker two more (its last lock and
its leaving), main two (`drop(job_tx)` and the return); `StepsLeft` adds up what is left of these for where each job and each worker is. `StepCounts`
shows for each action that the sum falls by one; a worker that moves is counted out of one place and into another (`OneWorkerMoves`). While a
call runs something is left (`StepsPositive`), so a call over n jobs ends, is killed or stops after at most 5n + 2 Concurrency + 2 steps, and
`InvNeverStuck` excludes stopping while main waits: if no worker can go on, the channel is empty and still open, but main drops `job_tx` before it collects.

*CountInv* (Uploader). `Balanced` has the term `InFlight`: while a record is being sent it is already counted valid, and the two error branches take it
back. The invariant adds that something is sent only while the list has an item and never in a dry run. `FinalAppend` turns one more
item into one more in exactly one of the counts; `SkipBalanced`, `ErrorBalanced`, `SentBalanced` and `PrepareBalanced` do the arithmetic
of one branch of the loop each.

*SendInv* (Uploader). Two facts have to be carried along that no property says. `Listed`: the items are those of the list so far, and
what is valid or skipped is one item each plus the one in flight. `SendOf`: how far the current item has come, namely that its file is open
while it is copied, that its json is stored when its wav is in hand, and that every file the run has ever created is the one it is working at or
is accounted for (`Traced`). The steps of another uploader matter only through `remote`: `Touches` says that a step changes no remote file but one
that its uploader has created, which makes `Alone` false for the others, and `OtherKeeps` that this keeps `SendOf` of the others. `Crowded`
says that `mixed` files have two writers, so that a file with one writer gets what that writer copied.

*RunnerInv.* The report is written from the vector, so `ReportConsistent` needs `VectorInv` (how much of the vector is filled at each
position of `main`) and `StagesInOrder`; with both, "a failed stage exists" and "the failed stage" denote the same thing.

*ReportInv.* `DiskInv` is what the manifests are worth, whichever invocation wrote them: nothing is of a later one, a stage that is still to come
has left none of this one, and fetch and convert do not exit 0 without theirs. `CountInv` carries that into the counts: they come from a
whole manifest of an aggregated stage only. The trace of send errors has to be kept in three forms (partial manifest, warning, foreign counts), since the
stage, its manifest and the report are written one after the other, with a kill possible in between.

*MatcherInv.* Three chains, along which something true is handed on. `ProbeChain`: flag in `convert.json`, in `probe_map`, in the json; at each
place it implies, under `ProbeExact`, a whole wav, and a whole wav stays whole. `RowChain`: row in the answer, in `rows_map`, in the json; at each place
the join gives it for that record. `ItemChain`: an item is appended only after its json was filled, and `by` grows with the runs.
`ProbeChain` assumes of the convert stage the contract `ConvertRuns`, which `ConverterProofs` proves for either value of `ProbeExact`.

*RunInv* (Matcher). *MatcherInv* speaks of any moment; *RunInv* follows one run. `AnswerChain`: a row of the answer is in `rows_map` or is
still to come, and when the jsons are written none is to come. `WriteChain`: the k-th item is that of the k-th wav and its json is the one this run has
filled. Both need that a wav is listed once (`SortedDistinct`): otherwise a later json could undo an earlier item.

*FlowInv.* `InputsInv`: the inputs are those of the wavs read so far. `TableInv`: the table is a prefix of the inputs, and all of them when it
is queried, unless the client has no operation that day; `PrefixGrows` is what one chunk does to the prefix. `RowsInv`: what was
found stays, and nothing is found only if there is nothing. `KnownCallIsFound` then follows by composing the name
(`ParseUndoesWriting`), the anexo (`AgentOfCall`), the table and the join, of which `HasRows` is the part that only the note decides. `ParseUndoesWriting` is where counting parts from the end
or from the front matters: each layout has optional parts on the other side.

*RecordInv.* Adds `JsonsInv`: each json is made of its own input and row, each code of its own json. The rest is what one json can be. `AcceptedPasses`
turns the cascade of `validateOutgoing` into the conjunction of its checks, and `OutgoingFields`, `CommonFields` and `CellOfKey` say what each
field of the sent json is made of. `SentIsOfItsCall`: a recording without a readable name has agent 0 and one of an unknown anexo has none; neither has a name, so
that what is accepted was looked up by a call's own data. `SentIffComplete` compares, client by client (`NaturaFields`, `MafFields`, `OtherFields`), the keys that
the uploader requires with the columns that the matcher fills. Both rest on `InputAssumption` (section 2).

*FetchInv.* Every step of the stage is a step of the pool or leaves it alone (`FetchUsesPool`), so `PoolInv` is inherited through `StepInv`; so is
`InOrder`, from which the results are as many as the links. `CountersAddUp` then says that the three kinds of `Counted` partition
the results (`ThreeParts`). `FetcherIsPool` composed with `PoolImplementsBatch` gives the refinement of `JobMap` by the stage.

*DirInv* (Fetcher). `OutcomeInv` ties the outcome of a job to where the pool has it: not taken, in a hand (`HandIsAlone`), or finished (`Pending`, `Finished` and
the lemmas `StartMoves`, `MainMoves`, `TakeMoves`, `GiveMoves` of `WorkerPoolProofs`, which `Converter` uses too). `FileInv` ties outcomes to files: between its look at
the file and the end of its write a worker finds the file as it left it (`OneWriter`), because a link that no two sources list is in one hand
only. `FirstRun` is why `CleanRunIsComplete` is about the first run: only there is "present" never somebody else's leftover.

*ConvertInv.* The same shape: `PhaseInv` says that the jobs are those that `Kept` gives for `fetch.json`, `ItemInv` what an item holds at each position
of `convert_one`, `WavInv` what a job's item says of its wav. `ManifestMatchesFetch` and `ProbeVouches` are parts of the invariant. That `Kept`
returns a sequence of names no longer than the list (`KeptTyped`) is an induction over the list; it is done through the least length at which the
claim fails (`Least`, from the well-founded order of the naturals), since the library's induction theorems cannot be instantiated.
For the contract (`ConverterImplementsRuns`) three facts suffice: whose ffmpeg is running has opened the file in this run (`EncodingStep`),
nobody else writes a wav (`WavWriters`), and a list of jobs with a record twice is one of the lists that the contract knows (`ContendedInLists`). So what
is shown of a wav leaves "absent" once (`ShownWavStep`), and the flags of a manifest that is written whole are vouched for (`ShownManifest`).

*SchedInv.* `ServiceInv` strengthens `OneServiceRunPerDirectory`: between a script's look at the directory and the end of its work no other run of
the service is among its users. That is kept because a directory that is not there has no users (`UsersInv`) and systemd runs one
instance at a time; without the second part the check and the creation being apart would break it, as they do for operators. The
lemmas are about effects, not actions: `LogStays`, `AdvanceExit`, `AbortExit` for the log, `ApartStays` for every step that brings nobody nearer
to a container. Types are a second invariant, `TypeInv`, with the container that a script is at.

*DirectoryInv* (RunDirectory). A chain along the stages, in which each part says what may be believed when the next stage begins, and `EarlyInv` that a manifest
is empty before its stage. `ConvertInv`: an item of `convert.json` stands for a listed name whose wav is there, and its flag vouches for that wav (`Probed`): it is
not broken, and short only if the item is `skip_exists` or its raw file short. `MatchInv`: a real
run that has found a wav rewrites the json of *every* wav, with the flag of this `convert.json`, so that no json of an earlier invocation is left for a record
that has one; in a dry run old jsons stay. `UploadInv`: whichever invocation wrote `upload.json`, its counts are those of some outcome over jsons that had
a wav each, and `sent_ok` of them are among the records in `sent`. `AllGreenIsComplete` then compares sizes: the places of `fetch.json` are the disjoint union of
those reported `ok` and `skip_exists` (`TwoParts`), so every listed record has a wav (`AllConverted`); the records that an old or new `upload.json`
calls sent are a subset of those with a wav and as many as these, hence equal to them, because the sets are finite (`AllUploaded`). A dry run cannot look
complete: its match counts are 0, those of an upload that has written a report are not.

**Only model-checked.** Liveness (`CallReturns`, `InvocationEnds`, `ScriptEnds`): fairness and ENABLED are out of the prover's reach.
Of `CallReturns` the rest is proved: a call is never stuck and has a bounded number of steps, so that only the assumption that the system runs a
thread that can go on is left to TLC.

## 6 Where documents and code disagree

1. **`pending`** (`runner_pending`). `README.md:67` says that a stage shows `pending` when an earlier one failed before it could start. The
   code pushes `skipped` for these stages, and `pending` is overwritten when a stage ends, so no finished report holds it.
2. **dry run** (`runner_dry_run`). `README.md:103` says that a dry run generates manifests and prepared json. In a fresh directory it
   makes no wav; the matcher returns before `match.json` and the uploader before `upload.json` and any prepared json, and the
   invocation exits 0.
3. **`--mode upload`** (`scheduler_upload`). The usage text says it runs the uploader. The skip of `run_pipeline.sh:446` does not look at
   the mode: a target that `--mode match` has prepared has a run directory and is skipped, with exit 0.

## 7 What is not modelled

- `extract_stderr_tail` and `list_links`: pure functions on text; their results are a free choice of the models.
- The check of `validateOutgoing` for an empty `descrip_rpta`: no group and no default is empty, so nothing reaches it.
- A missing duration of a probed wav: `probe_wav` sets `ffprobe_ok` only with a duration, so both are one flag in `RecordFlow`.
- Names with both separators, and which columns a client without a configuration of its own gets: `RecordFlow` takes natura's columns.
- A source whose listing fails: it is an empty listing in `Fetcher` and `RunDirectory`.
- HTML parsing (`list_links`), YAML and JSON, SQL text: conversions without state; the models take their results.
- Passwords, secrets, network modes, image builds, installation, the static checks, and the test SFTP server.
- Clock and ages: the purge may remove any directory that no live script uses; the timers are "somebody starts a script".
- `run_range.sh` and `run_rangev2.sh`, older variants of the loop with run ids of their own.
- A container that outlives its script: `Stop` ends both.
- A poisoned mutex: no worker panics while it holds the guard.

## 8 Plan

Done: `JobMap`/`WorkerPool` first, since two stages stand on it; then the stages that use it; then the uploader, whose effects cannot be
undone; then the runner, the matcher and the scheduler; then the data (`FileName`, `RecordFlow`), the composition over one run directory
(`RunDirectory`), and the order of the results in the abstract batch; then the proofs, stage by stage, of the stages' safety properties. Left, in this order:

1. *Contracts*: what `RunDirectory` assumes of a stage in one step, stated as one abstract specification that the stage's module implements, as `ConvertRuns` is for `Matcher`.

## Reproducing

    tlc -workers 2 -config Converter.cfg MCConverter.tla     # a run: module and cfg are in PROJECT.json
    tlapm MatcherProofs.tla                                  # the proofs of a module
