------------------------------- MODULE Fetcher ------------------------------
(***************************************************************************)
(* The fetch stage, audio-fetcher-rs: `main` lists the sources of a client *)
(* one after the other, makes one job for each link, downloads them in the *)
(* worker pool (`download_file` in each worker), counts what happened and  *)
(* writes fetch.json.  Several runs of the stage over one run directory are*)
(* modelled; a kill can come at any step and leaves the files as they are. *)
(*                                                                         *)
(* A raw file is "absent", "whole", or "broken": being written, cut short, *)
(* or written by two workers at once.                                      *)
(***************************************************************************)
EXTENDS WorkerPool

CONSTANTS
    Names,      \* names of the files the sources list
    Sources,    \* how many sources the client's configuration has
    Listings,   \* what list_links may return for a source: sorted, no repetition
    MaxRuns     \* bound on the runs of the stage over the directory

ASSUME FetcherAssumption ==
    /\ Sources \in Nat /\ MaxRuns \in Nat
    /\ \A l \in Listings : l \in Seq(Names) /\ Distinct(l)
    /\ \A l \in Listings : Sources * Len(l) <= MaxJobs

VARIABLES
    raw,       \* the state of raw/<name>
    shared,    \* the names two workers have been writing at the same time
    fetch,     \* fetch.json: [by, torn, items]
    run,       \* how many times the stage has been started
    dry,       \* --dry-run of the current run
    mpc,       \* main: "off", "list", "pool", "write", "writing"
    src,       \* how many sources main has listed
    jobs,      \* the jobs: [name, existed], existed as main saw it
    wpos,      \* each worker in download_file: "check", "get", "open", "fill", "done"
    res,       \* the outcome of each job: "none", "present", "fetched", "failed"
    count,     \* files_downloaded, files_skipped, files_failed of the last run
    exit       \* exit of the last run: "none", "ok", "error", "killed"

fileVars == <<raw, shared, fetch>>
mainVars == <<run, dry, mpc, src, jobs, count, exit>>
vars == <<poolVars, fileVars, mainVars, wpos, res>>

NoCount == [downloaded |-> 0, skipped |-> 0, failed |-> 0]
NoResults == [j \in 1..MaxJobs |-> "none"]
FileState == {"absent", "broken", "whole"}

TypeOK ==
    /\ PoolTypeOK
    /\ raw \in [Names -> FileState]
    /\ shared \subseteq Names
    /\ fetch \in [by : 0..MaxRuns, torn : BOOLEAN, items : Seq(Names)]
    /\ run \in 0..MaxRuns
    /\ dry \in BOOLEAN
    /\ mpc \in {"off", "list", "pool", "write", "writing"}
    /\ src \in 0..Sources
    /\ jobs \in Seq([name : Names, existed : BOOLEAN]) /\ Len(jobs) <= MaxJobs
    /\ wpos \in [Workers -> {"check", "get", "open", "fill", "done"}]
    /\ res \in [1..MaxJobs -> {"none", "present", "fetched", "failed"}]
    /\ count \in [{"downloaded", "skipped", "failed"} -> 0..MaxJobs]
    /\ exit \in {"none", "ok", "error", "killed"}

Init ==
    /\ PoolInit
    /\ raw = [n \in Names |-> "absent"]
    /\ shared = {}
    /\ fetch = [by |-> 0, torn |-> FALSE, items |-> <<>>]
    /\ run = 0
    /\ dry = FALSE
    /\ mpc = "off"
    /\ src = 0
    /\ jobs = <<>>
    /\ wpos = [w \in Workers |-> "check"]
    /\ res = NoResults
    /\ count = NoCount
    /\ exit = "none"

Exists(n) == raw[n] # "absent"

-----------------------------------------------------------------------------
(* The main thread.                                                        *)

ClearLocals ==
    /\ src' = 0
    /\ jobs' = <<>>
    /\ wpos' = [w \in Workers |-> "check"]
    /\ res' = NoResults
    /\ shared' = {}

StartRun ==
    /\ mpc = "off"
    /\ run < MaxRuns
    /\ run' = run + 1
    /\ dry' \in BOOLEAN
    /\ mpc' = "list"
    /\ count' = NoCount
    /\ exit' = "none"
    /\ ClearLocals
    /\ UNCHANGED <<poolVars, raw, fetch>>

\* One source: a listing that cannot be read, or is empty, adds nothing and is
\* not an error; each of its links becomes a job, with out_path.exists() now.
ListSource ==
    /\ mpc = "list"
    /\ src < Sources
    /\ src' = src + 1
    /\ \E l \in Listings \cup {<<>>} :
          jobs' = jobs \o [i \in 1..Len(l) |-> [name |-> l[i], existed |-> Exists(l[i])]]
    /\ UNCHANGED <<poolVars, fileVars, run, dry, mpc, count, exit, wpos, res>>

StartJobs ==
    /\ mpc = "list"
    /\ src = Sources
    /\ StartPool(Len(jobs))
    /\ mpc' = "pool"
    /\ UNCHANGED <<fileVars, run, dry, src, jobs, count, exit, wpos, res>>

PoolMain ==
    /\ mpc = "pool"
    /\ MainStep
    /\ UNCHANGED <<fileVars, mainVars, wpos, res>>

\* Fault: only a file that this very job fetched counts as downloaded.
CountedIfFetched(j) ==
    IF res[j] = "failed" THEN "failed"
    ELSE IF jobs[j].existed THEN "skipped"
    ELSE IF res[j] = "fetched" THEN "downloaded"
    ELSE "uncounted"

\* was_failed, already_existed and was_downloaded of a result, in the order
\* the counting loop of main asks for them.
Counted(j) ==
    IF res[j] = "failed" THEN "failed"
    ELSE IF jobs[j].existed THEN "skipped"
    ELSE IF ~dry THEN "downloaded"
    ELSE "uncounted"

Tally(kind) == Cardinality({i \in DOMAIN collected : Counted(collected[i]) = kind})

CountResults ==
    /\ mpc = "pool"
    /\ pmain = "returned"
    /\ count' = [kind \in DOMAIN count |-> Tally(kind)]
    /\ mpc' = "write"
    /\ UNCHANGED <<poolVars, fileVars, run, dry, src, jobs, exit, wpos, res>>

\* fs::write truncates fetch.json and then fills it.
TruncateManifest ==
    /\ mpc = "write"
    /\ mpc' = "writing"
    /\ fetch' = [fetch EXCEPT !.torn = TRUE]
    /\ UNCHANGED <<poolVars, raw, shared, run, dry, src, jobs, count, exit, wpos, res>>

\* Every link gets an item, and every item has status "ok", failed or not.
FillManifest ==
    /\ mpc = "writing"
    /\ fetch' = [by |-> run, torn |-> FALSE,
                 items |-> [i \in 1..Len(collected) |-> jobs[collected[i]].name]]
    /\ mpc' = "off"
    /\ exit' = "ok"
    /\ PoolGone
    /\ UNCHANGED <<raw, shared, run, dry, src, jobs, count, wpos, res>>

\* The `?` of main: the client's configuration, the date, the directories or
\* the HTTP client before the listing, fetch.json after the pool.
MainFails ==
    /\ \/ mpc = "list" /\ src = 0
       \/ mpc \in {"write", "writing"}
    /\ mpc' = "off"
    /\ exit' = "error"
    /\ IF pmain = "idle" THEN UNCHANGED poolVars ELSE PoolGone
    /\ ClearLocals
    /\ UNCHANGED <<raw, fetch, run, dry, count>>

Kill ==
    /\ mpc # "off"
    /\ mpc' = "off"
    /\ exit' = "killed"
    /\ IF pmain = "idle" THEN UNCHANGED poolVars ELSE PoolGone
    /\ ClearLocals
    /\ UNCHANGED <<raw, fetch, run, dry, count>>

-----------------------------------------------------------------------------
(* download_file in worker w.                                              *)

At(w, step) == wpc[w] = "work" /\ wpos[w] = step
Goto(w, step) == wpos' = [wpos EXCEPT ![w] = step]
Result(w, r) == res' = [res EXCEPT ![hand[w]] = r]
InDownload == UNCHANGED <<poolVars, mainVars, fetch>>
Name(w) == jobs[hand[w]].name

\* Fault: the file is downloaded whether it exists or not.
CheckNothing(w) ==
    /\ At(w, "check")
    /\ \/ dry /\ Result(w, "present") /\ Goto(w, "done")
       \/ ~dry /\ UNCHANGED res /\ Goto(w, "get")
    /\ InDownload
    /\ UNCHANGED <<raw, shared>>

\* The file is asked for again here, after main's look at it.
CheckFile(w) ==
    /\ At(w, "check")
    /\ \/ Exists(Name(w)) /\ Result(w, "present") /\ Goto(w, "done")
       \/ ~Exists(Name(w)) /\ dry /\ Result(w, "present") /\ Goto(w, "done")
       \/ ~Exists(Name(w)) /\ ~dry /\ UNCHANGED res /\ Goto(w, "get")
    /\ InDownload
    /\ UNCHANGED <<raw, shared>>

\* Fault: a response that is an error counts as success.
GetUnchecked(w) ==
    /\ At(w, "get")
    /\ \/ UNCHANGED res /\ Goto(w, "open")
       \/ Result(w, "present") /\ Goto(w, "done")
    /\ InDownload
    /\ UNCHANGED <<raw, shared>>

\* The request, its status and its body, within the client's 60 s timeout.
Get(w) ==
    /\ At(w, "get")
    /\ \/ UNCHANGED res /\ Goto(w, "open")
       \/ Result(w, "failed") /\ Goto(w, "done")
    /\ InDownload
    /\ UNCHANGED <<raw, shared>>

Writing(n) == {w \in Workers : At(w, "fill") /\ Name(w) = n}

\* fs::write: the file is created or truncated first ...
Open(w) ==
    /\ At(w, "open")
    /\ raw' = [raw EXCEPT ![Name(w)] = "broken"]
    /\ shared' = IF Writing(Name(w)) = {} THEN shared ELSE shared \cup {Name(w)}
    /\ Goto(w, "fill")
    /\ InDownload
    /\ UNCHANGED res

\* What the file can hold when worker w has written its bytes.
Written(w) ==
    IF Writing(Name(w)) # {w} THEN {"broken"}
    ELSE IF Name(w) \in shared THEN {"broken", "whole"}
    ELSE {"whole"}

\* ... and then filled, or left short when the write fails (a full disk).
Fill(w) ==
    /\ At(w, "fill")
    /\ \/ /\ \E c \in Written(w) : raw' = [raw EXCEPT ![Name(w)] = c]
          /\ Result(w, "fetched")
       \/ Result(w, "failed") /\ UNCHANGED raw
    /\ shared' = IF Writing(Name(w)) = {w} THEN shared \ {Name(w)} ELSE shared
    /\ Goto(w, "done")
    /\ InDownload

Download(w) == CheckFile(w) \/ Get(w) \/ Open(w) \/ Fill(w)

\* The pool's own steps of a worker; SendResult waits for download_file.
PoolWorker(w) ==
    /\ \/ Lock(w) \/ Recv(w) \/ RecvClosed(w)
       \/ SendResult(w) /\ wpos[w] = "done"
    /\ wpos' = [wpos EXCEPT ![w] = "check"]
    /\ UNCHANGED <<fileVars, mainVars, res>>

Main ==
    \/ ListSource
    \/ StartJobs
    \/ PoolMain
    \/ CountResults
    \/ TruncateManifest
    \/ FillManifest
    \/ MainFails

Worker(w) == Download(w) \/ PoolWorker(w)

Next ==
    \/ StartRun
    \/ Main
    \/ \E w \in Workers : Worker(w)
    \/ Kill

Spec == Init /\ [][Next]_vars

-----------------------------------------------------------------------------
(* Properties.                                                             *)

\* Two jobs of the run write the same file: two sources list one name.
Contended(n) == \E i, j \in DOMAIN jobs : i # j /\ jobs[i].name = n /\ jobs[j].name = n

\* A whole raw file is never truncated again, by this run or a later one,
\* unless two sources list its name: the check in download_file guards the
\* write although main's own look at the file is older.
WholeIsKept ==
    [][\A n \in Names : raw[n] = "whole" => raw'[n] = "whole" \/ Contended(n)]_vars

\* The three counters of a finished real run add up to the links: each link
\* is counted in exactly one of them.
CountersAddUp ==
    exit = "ok" /\ ~dry =>
        count.downloaded + count.skipped + count.failed = Len(jobs)

\* A first real run that finishes with files_failed = 0 has every file it
\* listed on disk, whole (but for names that two sources share), and lists
\* them in fetch.json in discovery order: the "ok" of each item, which the
\* code writes of failed links as well, is then right.
CleanRunIsComplete ==
    exit = "ok" /\ run = 1 /\ ~dry /\ count.failed = 0 =>
        /\ ~fetch.torn /\ fetch.items = [j \in 1..Len(jobs) |-> jobs[j].name]
        /\ \A j \in DOMAIN jobs : Contended(jobs[j].name) \/ raw[jobs[j].name] = "whole"
=============================================================================
