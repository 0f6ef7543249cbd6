------------------------------ MODULE Converter -----------------------------
(***************************************************************************)
(* The convert stage, audio-converter-rs: `main` reads fetch.json, makes   *)
(* one job for each item whose raw file exists, runs the jobs in the worker*)
(* pool (`convert_one` in each worker) and writes convert.json.  Several   *)
(* runs of the stage over one run directory are modelled, any of which can *)
(* be killed at any step: the wav directory and the manifest survive, the  *)
(* process, its threads and its ffmpeg children do not.                    *)
(*                                                                         *)
(* A wav is "absent", "whole" (what a complete ffmpeg run leaves) or       *)
(* "broken" (being written, cut short, or written by two ffmpegs at once). *)
(***************************************************************************)
EXTENDS WorkerPool

CONSTANTS
    Names,        \* names of fetched files
    Records,      \* record ids
    RecordOf,     \* record_id_from_filename, a function Names -> Records
    FetchLists,   \* the item lists that fetch.json may hold
    ProbeExact,   \* ffprobe rejects every broken wav (a truncated one may pass)
    MaxRuns       \* bound on the runs of the stage over the directory

ASSUME ConverterAssumption ==
    /\ RecordOf \in [Names -> Records]
    /\ \A l \in FetchLists : l \in Seq(Names) /\ Len(l) <= MaxJobs
    /\ ProbeExact \in BOOLEAN
    /\ MaxRuns \in Nat

VARIABLES
    fetch,     \* the items of fetch.json, a set with one list, or {} when it cannot be read
    raw,       \* the raw files that exist
    wav,       \* the state of wav/<record>.wav
    shared,    \* the records two ffmpegs have been writing at the same time
    run,       \* how many times the stage has been started
    dry,       \* --dry-run of the current run
    mpc,       \* main: "off", "read", "pool", "write", "writing"
    jobs,      \* the names of the jobs of the current run
    cpc,       \* each worker inside convert_one: "check", "spawn", "encode", "probe", "done"
    item,      \* the ConvertItem of each job, filled in as convert_one goes
    convert,   \* convert.json: [by, torn, items]
    exit       \* exit of the last run: "none", "ok", "error", "killed"

fileVars == <<fetch, raw, wav, shared, convert>>
mainVars == <<run, dry, mpc, jobs, exit>>
vars == <<poolVars, fileVars, mainVars, cpc, item>>

Statuses == {"none", "ok", "skip_exists", "dry_run", "ffmpeg_error"}
NoItem == [status |-> "none", probe |-> FALSE]

Rec(j) == RecordOf[jobs[j]]
Record(w) == Rec(hand[w])

TypeOK ==
    /\ PoolTypeOK
    /\ fetch \subseteq FetchLists /\ Cardinality(fetch) <= 1
    /\ raw \subseteq Names
    /\ wav \in [Records -> {"absent", "broken", "whole"}]
    /\ shared \subseteq Records
    /\ run \in 0..MaxRuns
    /\ dry \in BOOLEAN
    /\ mpc \in {"off", "read", "pool", "write", "writing"}
    /\ jobs \in Seq(Names) /\ Len(jobs) <= MaxJobs
    /\ cpc \in [Workers -> {"check", "spawn", "encode", "probe", "done"}]
    /\ item \in [1..MaxJobs -> [status : Statuses, probe : BOOLEAN]]
    /\ convert.by \in 0..MaxRuns
    /\ convert.torn \in BOOLEAN
    /\ \A i \in DOMAIN convert.items : convert.items[i].rec \in Records
    /\ exit \in {"none", "ok", "error", "killed"}

Init ==
    /\ PoolInit
    /\ fetch \in {{}} \cup {{l} : l \in FetchLists}
    /\ raw \in SUBSET UNION {ToSet(l) : l \in fetch}
    /\ wav = [r \in Records |-> "absent"]
    /\ shared = {}
    /\ run = 0
    /\ dry = FALSE
    /\ mpc = "off"
    /\ jobs = <<>>
    /\ cpc = [w \in Workers |-> "check"]
    /\ item = [j \in 1..MaxJobs |-> NoItem]
    /\ convert = [by |-> 0, torn |-> FALSE, items |-> <<>>]
    /\ exit = "none"

-----------------------------------------------------------------------------
(* The main thread.                                                        *)

StartRun ==
    /\ mpc = "off"
    /\ run < MaxRuns
    /\ run' = run + 1
    /\ dry' \in BOOLEAN
    /\ mpc' = "read"
    /\ exit' = "none"
    /\ UNCHANGED <<poolVars, fileVars, jobs, cpc, item>>

\* The early returns of main: a bad argument, a directory that cannot be
\* created, fetch.json missing or not parsed.
StartFails ==
    /\ mpc = "read"
    /\ mpc' = "off"
    /\ exit' = "error"
    /\ UNCHANGED <<poolVars, fileVars, run, dry, jobs, cpc, item>>

\* The items of l whose raw file is among files, in their order.
KeptOf(l, files) ==
    LET kept[i \in 0..Len(l)] ==
            IF i = 0 THEN <<>>
            ELSE IF l[i] \in files THEN Append(kept[i - 1], l[i]) ELSE kept[i - 1]
    IN  kept[Len(l)]

Kept(l) == KeptOf(l, raw)

\* One job for each item whose raw file exists, indexed densely in the order
\* of fetch.json; the pool is started on them.
StartJobs ==
    /\ mpc = "read"
    /\ \E l \in fetch :
          /\ jobs' = Kept(l)
          /\ StartPool(Len(jobs'))
    /\ item' = [j \in 1..MaxJobs |-> NoItem]
    /\ cpc' = [w \in Workers |-> "check"]
    /\ mpc' = "pool"
    /\ UNCHANGED <<fileVars, run, dry, exit>>

PoolMain ==
    /\ mpc = "pool"
    /\ MainStep
    /\ mpc' = IF pmain' = "returned" THEN "write" ELSE "pool"
    /\ UNCHANGED <<fileVars, run, dry, jobs, exit, cpc, item>>

\* The pool of an empty job vector has returned at the call.
PoolEmpty ==
    /\ mpc = "pool"
    /\ pmain = "returned"
    /\ mpc' = "write"
    /\ UNCHANGED <<poolVars, fileVars, run, dry, jobs, exit, cpc, item>>

\* fs::write truncates convert.json and then fills it.
TruncateManifest ==
    /\ mpc = "write"
    /\ mpc' = "writing"
    /\ convert' = [convert EXCEPT !.torn = TRUE]
    /\ UNCHANGED <<poolVars, fetch, raw, wav, shared, run, dry, jobs, exit, cpc, item>>

Results == [i \in 1..Len(collected) |->
               [rec |-> Rec(collected[i]), status |-> item[collected[i]].status,
                probe |-> item[collected[i]].probe]]

ClearLocals ==
    /\ jobs' = <<>>
    /\ item' = [j \in 1..MaxJobs |-> NoItem]
    /\ cpc' = [w \in Workers |-> "check"]
    /\ shared' = {}

FillManifest ==
    /\ mpc = "writing"
    /\ convert' = [by |-> run, torn |-> FALSE, items |-> Results]
    /\ mpc' = "off"
    /\ exit' = "ok"
    /\ PoolGone
    /\ ClearLocals
    /\ UNCHANGED <<fetch, raw, wav, run, dry>>

\* The `?` of main after the pool: convert.json cannot be created or filled.
ManifestFails ==
    /\ mpc \in {"write", "writing"}
    /\ mpc' = "off"
    /\ exit' = "error"
    /\ PoolGone
    /\ ClearLocals
    /\ UNCHANGED <<fetch, raw, wav, convert, run, dry>>

\* The process and its children are killed: the files stay as they are.
Kill ==
    /\ mpc # "off"
    /\ mpc' = "off"
    /\ exit' = "killed"
    /\ IF pmain = "idle" THEN UNCHANGED poolVars ELSE PoolGone
    /\ ClearLocals
    /\ UNCHANGED <<fetch, raw, wav, convert, run, dry>>

-----------------------------------------------------------------------------
(* convert_one in worker w.                                                *)

At(w, step) == wpc[w] = "work" /\ cpc[w] = step
Goto(w, step) == cpc' = [cpc EXCEPT ![w] = step]
SetStatus(w, s) == item' = [item EXCEPT ![hand[w]].status = s]
InConvertOne == UNCHANGED <<poolVars, mainVars, fetch, raw, convert>>

Exists(r) == wav[r] # "absent"

\* Fault: no look at the output before ffmpeg.
CheckOnlyDry(w) ==
    /\ At(w, "check")
    /\ \/ dry /\ SetStatus(w, "dry_run") /\ Goto(w, "done")
       \/ ~dry /\ UNCHANGED item /\ Goto(w, "spawn")
    /\ InConvertOne
    /\ UNCHANGED <<wav, shared>>

\* Fault: what exists is taken for good and not probed.
CheckTrustsOutput(w) ==
    /\ At(w, "check")
    /\ \/ /\ Exists(Record(w))
          /\ item' = [item EXCEPT ![hand[w]] = [status |-> "skip_exists", probe |-> TRUE]]
          /\ Goto(w, "done")
       \/ ~Exists(Record(w)) /\ dry /\ SetStatus(w, "dry_run") /\ Goto(w, "done")
       \/ ~Exists(Record(w)) /\ ~dry /\ UNCHANGED item /\ Goto(w, "spawn")
    /\ InConvertOne
    /\ UNCHANGED <<wav, shared>>

\* out_path.exists() is asked first, then --dry-run.
CheckOutput(w) ==
    /\ At(w, "check")
    /\ \/ Exists(Record(w)) /\ SetStatus(w, "skip_exists") /\ Goto(w, "probe")
       \/ ~Exists(Record(w)) /\ dry /\ SetStatus(w, "dry_run") /\ Goto(w, "done")
       \/ ~Exists(Record(w)) /\ ~dry /\ UNCHANGED item /\ Goto(w, "spawn")
    /\ InConvertOne
    /\ UNCHANGED <<wav, shared>>

\* ffmpeg cannot be started, or rejects its input before it opens the output.
FfmpegRefuses(w) ==
    /\ At(w, "spawn")
    /\ SetStatus(w, "ffmpeg_error")
    /\ Goto(w, "done")
    /\ InConvertOne
    /\ UNCHANGED <<wav, shared>>

Encoding(r) == {w \in Workers : At(w, "encode") /\ Record(w) = r}

\* ffmpeg -y truncates the output, even one that appeared since the check.
FfmpegOpens(w) ==
    /\ At(w, "spawn")
    /\ wav' = [wav EXCEPT ![Record(w)] = "broken"]
    /\ shared' = IF Encoding(Record(w)) = {} THEN shared ELSE shared \cup {Record(w)}
    /\ Goto(w, "encode")
    /\ InConvertOne
    /\ UNCHANGED item

\* What a record's file can hold when worker w's ffmpeg ends well: another
\* ffmpeg is still writing it, two have written it at once, or w alone did.
Written(w) ==
    IF Encoding(Record(w)) # {w} THEN {"broken"}
    ELSE IF Record(w) \in shared THEN {"broken", "whole"}
    ELSE {"whole"}

FfmpegSucceeds(w) ==
    /\ At(w, "encode")
    /\ \E c \in Written(w) : wav' = [wav EXCEPT ![Record(w)] = c]
    /\ shared' = IF Encoding(Record(w)) = {w} THEN shared \ {Record(w)} ELSE shared
    /\ SetStatus(w, "ok")
    /\ Goto(w, "probe")
    /\ InConvertOne

\* Fault: ffmpeg's exit status is not looked at.
FfmpegFailsUnseen(w) ==
    /\ At(w, "encode")
    /\ shared' = IF Encoding(Record(w)) = {w} THEN shared \ {Record(w)} ELSE shared
    /\ SetStatus(w, "ok")
    /\ Goto(w, "probe")
    /\ InConvertOne
    /\ UNCHANGED wav

\* ffmpeg fails half way: what it wrote stays on disk.
FfmpegFails(w) ==
    /\ At(w, "encode")
    /\ shared' = IF Encoding(Record(w)) = {w} THEN shared \ {Record(w)} ELSE shared
    /\ SetStatus(w, "ffmpeg_error")
    /\ Goto(w, "done")
    /\ InConvertOne
    /\ UNCHANGED wav

\* Fault: the exit status of ffprobe is not looked at.
ProbeUnread(w) ==
    /\ At(w, "probe")
    /\ item' = [item EXCEPT ![hand[w]].probe = Exists(Record(w))]
    /\ Goto(w, "done")
    /\ InConvertOne
    /\ UNCHANGED <<wav, shared>>

\* ffprobe may not start or refuse any file; unless it is exact it may accept a
\* broken one.
Probe(w) ==
    /\ At(w, "probe")
    /\ \E ok \in BOOLEAN :
          /\ ok /\ ProbeExact => wav[Record(w)] # "broken"
          /\ item' = [item EXCEPT ![hand[w]].probe = ok]
    /\ Goto(w, "done")
    /\ InConvertOne
    /\ UNCHANGED <<wav, shared>>

ConvertOne(w) ==
    \/ CheckOutput(w)
    \/ FfmpegRefuses(w)
    \/ FfmpegOpens(w)
    \/ FfmpegSucceeds(w)
    \/ FfmpegFails(w)
    \/ Probe(w)

\* The pool's own steps of a worker; SendResult waits for convert_one.
PoolWorker(w) ==
    /\ \/ Lock(w) \/ Recv(w) \/ RecvClosed(w)
       \/ SendResult(w) /\ cpc[w] = "done"
    /\ cpc' = [cpc EXCEPT ![w] = "check"]
    /\ UNCHANGED <<fileVars, mainVars, item>>

Main ==
    \/ StartFails
    \/ StartJobs
    \/ PoolMain
    \/ PoolEmpty
    \/ TruncateManifest
    \/ FillManifest
    \/ ManifestFails

Worker(w) == ConvertOne(w) \/ PoolWorker(w)

Next ==
    \/ StartRun
    \/ Main
    \/ \E w \in Workers : Worker(w)
    \/ Kill

Spec == Init /\ [][Next]_vars

-----------------------------------------------------------------------------
(* Properties.                                                             *)

\* The records that two jobs of the run write: fetch.json lists one name
\* twice (two sources), or two names with one stem.
Contended(r) == \E i, j \in DOMAIN jobs : i # j /\ Rec(i) = r /\ Rec(j) = r

\* An item that convert_one reports "ok" has a whole wav on disk, whatever a
\* killed run left behind: the leftovers are never reported as converted.
OkIsWhole ==
    \A j \in DOMAIN jobs :
        item[j].status = "ok" /\ ~Contended(Rec(j)) => wav[Rec(j)] = "whole"

\* A wav that is whole stays whole: skip_exists protects it from every later
\* run, and only a second job for the same record in one run can truncate it.
WholeIsKept ==
    [][\A r \in Records :
          wav[r] = "whole" => wav'[r] = "whole" \/ Contended(r)]_vars

\* The run that exits 0 has left a complete convert.json with one item for
\* each fetched file that is present, in the order of fetch.json, although
\* the workers finished in any order; what it counts as converted or already
\* there is there.
ManifestMatchesFetch ==
    exit = "ok" =>
        \E l \in fetch :
            LET kept == Kept(l)
            IN  /\ convert.by = run /\ ~convert.torn
                /\ Len(convert.items) = Len(kept)
                /\ \A i \in DOMAIN kept :
                      /\ convert.items[i].rec = RecordOf[kept[i]]
                      /\ convert.items[i].status # "none"
                      /\ convert.items[i].status \in {"ok", "skip_exists"} =>
                            Exists(convert.items[i].rec)

\* What the next stages rely on: when ffprobe rejects every broken file, a
\* record that convert.json says ffprobe accepted is whole on disk, including
\* the leftovers of killed runs, which skip_exists passes on unconverted.
ProbeVouches ==
    ProbeExact /\ exit = "ok" =>
        \A i \in DOMAIN convert.items :
            LET c == convert.items[i]
                once == \A k \in DOMAIN convert.items : convert.items[k].rec = c.rec => k = i
            IN  c.probe /\ once => wav[c.rec] = "whole"

\* The records of the jobs that fetch.json can ask for, whatever files exist.
RecordsOf(names) == [i \in DOMAIN names |-> RecordOf[names[i]]]
RecordLists == {RecordsOf(KeptOf(l, files)) : l \in FetchLists, files \in SUBSET Names}

\* No stage looks at a wav while its ffmpeg runs: what it writes counts when it ends.
ShownWav ==
    [r \in Records |-> IF Encoding(r) # {} /\ ~Contended(r) THEN "absent" ELSE wav[r]]

\* convert.json as the next stages read it.
ShownConvert ==
    IF convert.torn THEN [state |-> "torn", items |-> <<>>]
    ELSE IF convert.by = 0 THEN [state |-> "missing", items |-> <<>>]
    ELSE [state |-> "whole", items |->
            [i \in DOMAIN convert.items |->
                [rec |-> convert.items[i].rec, probe |-> convert.items[i].probe]]]

Runs == INSTANCE ConvertRuns WITH
    ConvertLists <- RecordLists, wav <- ShownWav, convert <- ShownConvert

\* What Matcher assumes of the stage it gets: every step of every run, killed or
\* not, changes the directory as ConvertRuns says or not at all.
ImplementsRuns == Runs!Spec
=============================================================================
