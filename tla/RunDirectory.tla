----------------------------- MODULE RunDirectory ---------------------------
(***************************************************************************)
(* The composition: what pipeline-runner's invocations make of one run     *)
(* directory and of the server, record by record, and what the counts of   *)
(* pipeline.json say about it.  A stage that exits 0 is one step with any  *)
(* outcome that its own module allows (Fetcher, Converter, Matcher,        *)
(* Uploader); a stage that fails, a kill and a report that cannot be       *)
(* written end the invocation after any part of that work.  The manifests  *)
(* of fetch, convert and match are those of the current invocation         *)
(* (PipelineRunner, StagesBuildOnCurrent); upload.json can be an old one.  *)
(*                                                                         *)
(* A recording that was cut short on its way can still be audio: "short"   *)
(* is a file that ffprobe can read a duration from although it is less     *)
(* than the recording, "broken" one that it cannot.                        *)
(***************************************************************************)
EXTENDS Naturals, Sequences, FiniteSets

CONSTANTS
    Names,          \* names of recordings at the sources
    Records,        \* record ids
    RecordOf,       \* record_id_from_filename
    Listings,       \* what the sources may list; a name that two list is there twice
    MaxInvocations  \* bound on the invocations over the directory

ASSUME RunDirectoryAssumption ==
    /\ RecordOf \in [Names -> Records]
    /\ \A l \in Listings : l \in Seq(Names)
    /\ MaxInvocations \in Nat

VARIABLES
    inv, dry,  \* how many invocations there have been; --dry-run of the last
    stage,     \* its stage, "read" once they are over, "off" when it has ended
    raw,       \* raw/<name>: "absent", "short" (a download broke off) or "whole"
    wav,       \* wav/<record>.wav: "absent", "broken", "short" or "whole"
    json,      \* matched/<record>.json: [state, found, probed]
    remote,    \* the wav that the server has, likewise
    sent,      \* the records that some invocation has uploaded
    fetch,     \* the items of fetch.json: names
    convert,   \* convert.json: for a place in fetch.json its item, [rec, status, probe]
    match,     \* match.json: [state, found], lookup_ok of each record that is listed
    outcome,   \* what the last upload made of each json
    upload,    \* upload.json: [state, counts]
    result,    \* exit status of the last invocation: "none", "ok", "failed"
    summary    \* pipeline.json of that invocation: status, warnings and counts

files == <<raw, wav, json, remote, sent, upload>>
manifests == <<fetch, convert, match, outcome>>
dirVars == <<inv, dry, stage, files, manifests, result, summary>>

RawState == {"absent", "short", "whole"}
WavState == {"absent", "broken", "short", "whole"}
UploadStatus == {"sent", "prepared", "skipped_parse", "skipped_validation",
                 "skipped_prepare", "send_error"}
NoMatch == [state |-> "missing", found |-> <<>>]
NoCounts == [s \in UploadStatus \cup {"total"} |-> 0]
Nothing == [status |-> "none", warned |-> {}]

DirInit ==
    /\ inv = 0 /\ dry = FALSE /\ stage = "off"
    /\ sent = {}
    /\ raw = [n \in Names |-> "absent"]
    /\ wav = [r \in Records |-> "absent"]
    /\ remote = [r \in Records |-> "absent"]
    /\ json = [r \in Records |-> [state |-> "missing", found |-> FALSE, probed |-> FALSE]]
    /\ fetch = <<>> /\ convert = <<>> /\ match = NoMatch /\ outcome = <<>>
    /\ upload = [state |-> "missing", counts |-> NoCounts]
    /\ result = "none" /\ summary = Nothing

Begin ==
    /\ stage = "off"
    /\ inv < MaxInvocations
    /\ inv' = inv + 1
    /\ dry' \in BOOLEAN
    /\ stage' = "fetch"
    /\ fetch' = <<>> /\ convert' = <<>> /\ match' = NoMatch /\ outcome' = <<>>
    /\ result' = "none" /\ summary' = Nothing
    /\ UNCHANGED files

\* A stage exits with an error, the container is stopped, pipeline.json cannot
\* be written: what has been done stays, the exit status is not 0.
BreakOff ==
    /\ stage # "off"
    /\ stage' = "off"
    /\ result' = "failed"
    /\ UNCHANGED <<inv, dry, files, manifests, summary>>

-----------------------------------------------------------------------------
(* fetch and convert.                                                      *)

\* Every listed name is an item; a file that is there is taken as finished,
\* any other is downloaded, in whole or in part, or not.
FetchFiles ==
    /\ stage = "fetch"
    /\ fetch' \in Listings
    /\ raw' \in [Names -> RawState]
    /\ \A n \in Names : raw'[n] # raw[n] =>
          ~dry /\ raw[n] = "absent" /\ \E i \in DOMAIN fetch' : fetch'[i] = n
    /\ stage' = "convert"
    /\ UNCHANGED <<inv, dry, wav, json, remote, sent, upload, convert, match, outcome,
                   result, summary>>

\* The jobs are the items whose raw file is there, by their place in fetch.json.
Jobs == {i \in DOMAIN fetch : raw[fetch[i]] # "absent"}
Rec(i) == RecordOf[fetch[i]]

\* Two jobs of one record, which write one wav at once.
Contended(r) == \E i, j \in Jobs : i # j /\ Rec(i) = r /\ Rec(j) = r

\* Fault: ffprobe's flag is set for every wav that is there already.
ConvertOneTrusting(i, status, probe, after) ==
    IF wav[Rec(i)] # "absent"
    THEN status = "skip_exists" /\ after = wav[Rec(i)] /\ probe
    ELSE IF dry THEN status = "dry_run" /\ after = "absent" /\ ~probe
    ELSE \/ status = "ok" /\ after = "whole" /\ probe
         \/ status = "ffmpeg_error" /\ after \in {"absent", "broken"} /\ ~probe

\* What a complete run of ffmpeg makes of the raw file of job i.
Outputs(i) == IF raw[fetch[i]] = "whole" THEN {"whole"} ELSE {"broken", "short"}

\* What convert_one says of job i and the wav that it leaves; ffprobe may refuse
\* any wav, but never finds a duration in a broken one.
ConvertOne(i, status, probe, after) ==
    IF wav[Rec(i)] # "absent"
    THEN status = "skip_exists" /\ after = wav[Rec(i)] /\ (probe => after # "broken")
    ELSE IF dry THEN status = "dry_run" /\ after = "absent" /\ ~probe
    ELSE \/ status = "ok" /\ after \in Outputs(i) /\ (probe => after # "broken")
         \/ status = "ffmpeg_error" /\ after \in {"absent", "broken", "short"} /\ ~probe
         \/ /\ Contended(Rec(i)) /\ after # "absent"
            /\ status \in {"ok", "skip_exists", "ffmpeg_error"}
            /\ status = "ffmpeg_error" => ~probe

ConvertStatus == {"ok", "skip_exists", "dry_run", "ffmpeg_error"}

ConvertFiles ==
    /\ stage = "convert"
    /\ wav' \in [Records -> WavState]
    /\ \A r \in Records : (\A i \in Jobs : Rec(i) # r) => wav'[r] = wav[r]
    /\ \E f \in [Jobs -> ConvertStatus \X BOOLEAN] :
          /\ \A i \in Jobs : ConvertOne(i, f[i][1], f[i][2], wav'[Rec(i)])
          /\ convert' = [i \in Jobs |->
                [rec |-> Rec(i), status |-> f[i][1], probe |-> f[i][2]]]
    /\ stage' = "match"
    /\ UNCHANGED <<inv, dry, raw, json, remote, sent, upload, fetch, match, outcome, result,
                   summary>>

-----------------------------------------------------------------------------
(* match.                                                                  *)

Wavs == {r \in Records : wav[r] # "absent"}

\* The last item of a record; false without one.
ProbeFlag(r) ==
    \E i \in DOMAIN convert :
        /\ convert[i].rec = r /\ convert[i].probe
        /\ \A j \in DOMAIN convert : j > i => convert[j].rec # r

\* The jsons when those of done have been written, and one perhaps half.
Jsons(done, torn, found) ==
    [r \in Records |->
        IF r \in done THEN [state |-> "whole", found |-> found[r], probed |-> ProbeFlag(r)]
        ELSE IF r \in torn THEN [state |-> "torn", found |-> FALSE, probed |-> FALSE]
        ELSE json[r]]

\* Without wavs no manifest; a dry run writes an empty one.
MatchFiles ==
    /\ stage = "match"
    /\ \/ Wavs = {} /\ UNCHANGED <<json, match>>
       \/ Wavs # {} /\ dry /\ match' = [state |-> "whole", found |-> <<>>] /\ UNCHANGED json
       \/ /\ Wavs # {} /\ ~dry
          /\ \E found \in [Wavs -> BOOLEAN] :
                /\ json' = Jsons(Wavs, {}, found)
                /\ match' = [state |-> "whole", found |-> found]
    /\ stage' = "upload"
    /\ UNCHANGED <<inv, dry, raw, wav, remote, sent, upload, fetch, convert, outcome, result,
                   summary>>

MatchBreaks ==
    /\ stage = "match" /\ ~dry
    /\ \E found \in [Wavs -> BOOLEAN], done \in SUBSET Wavs :
          \E torn \in {{}} \cup {{r} : r \in Wavs \ done} : json' = Jsons(done, torn, found)
    /\ stage' = "off" /\ result' = "failed"
    /\ UNCHANGED <<inv, dry, raw, wav, remote, sent, upload, manifests, summary>>

-----------------------------------------------------------------------------
(* upload.                                                                 *)

Matched == {r \in Records : json[r].state # "missing"}

\* lookup_not_ok and ffprobe_not_ok; what else a json may be refused for
\* (RecordFlow) is left open.
Refused(r) == ~json[r].found \/ ~json[r].probed

\* What becomes of one json, and of its wav on the server.
UploadOne(r, status, after) ==
    IF json[r].state = "torn" THEN status = "skipped_parse" /\ after = remote[r]
    ELSE \/ status = "skipped_validation" /\ after = remote[r]
         \/ status = "skipped_prepare" /\ ~Refused(r) /\ after = remote[r]
         \/ status = "prepared" /\ ~Refused(r) /\ dry /\ after = remote[r]
         \/ status = "sent" /\ ~Refused(r) /\ ~dry /\ after = wav[r]
         \/ /\ status = "send_error" /\ ~Refused(r) /\ ~dry
            /\ after \in {remote[r], "broken", "short"}

CountOf(f, status) == Cardinality({r \in DOMAIN f : f[r] = status})

UploadCounts(f) ==
    [s \in UploadStatus \cup {"total"} |->
        IF s = "total" THEN Cardinality(DOMAIN f) ELSE CountOf(f, s)]

\* The error of writing upload.json is dropped, before or after the truncation.
WriteUpload ==
    \/ upload' = [state |-> "whole", counts |-> UploadCounts(outcome')]
    \/ upload' = [upload EXCEPT !.state = "torn"]
    \/ UNCHANGED upload

UploadFiles ==
    /\ stage = "upload"
    /\ \/ Matched = {} /\ UNCHANGED <<remote, sent, upload, outcome>>
       \/ /\ Matched # {}
          /\ outcome' \in [Matched -> UploadStatus]
          /\ remote' \in [Records -> WavState]
          /\ \A r \in Records :
                IF r \in Matched THEN UploadOne(r, outcome'[r], remote'[r])
                ELSE remote'[r] = remote[r]
          /\ sent' = sent \cup {r \in Matched : outcome'[r] = "sent"}
          /\ WriteUpload
    /\ stage' = "read"
    /\ UNCHANGED <<inv, dry, raw, wav, json, fetch, convert, match, result, summary>>

-----------------------------------------------------------------------------
(* The counts of pipeline.json.                                            *)

\* read_convert_counts
Converted(status) == Cardinality({i \in DOMAIN convert : convert[i].status = status})

\* read_match_counts
LookedUp(ok) == Cardinality({r \in DOMAIN match.found : match.found[r] = ok})

\* Fault: a manifest that is missing or torn is passed over.
NoWarnings == {}

Warnings ==
    {s \in {"match"} : match.state = "missing"} \cup {s \in {"upload"} : upload.state # "whole"}

UploadCount(key) == IF upload.state = "whole" THEN upload.counts[key] ELSE 0

Report ==
    /\ stage = "read"
    /\ summary' = [status |-> IF UploadCount("send_error") > 0 THEN "partial" ELSE "ok",
                   warned |-> Warnings,
                   fetch_total |-> Len(fetch),
                   convert_ok |-> Converted("ok"),
                   convert_skip_exists |-> Converted("skip_exists"),
                   match_total |-> LookedUp(TRUE) + LookedUp(FALSE),
                   upload_total |-> UploadCount("total"),
                   upload_sent_ok |-> UploadCount("sent")]
    /\ result' = "ok"
    /\ stage' = "off"
    /\ UNCHANGED <<inv, dry, files, manifests>>

DirNext ==
    \/ Begin \/ BreakOff
    \/ FetchFiles \/ ConvertFiles \/ MatchFiles \/ MatchBreaks \/ UploadFiles \/ Report

DirSpec == DirInit /\ [][DirNext]_dirVars

-----------------------------------------------------------------------------
(* Properties.                                                             *)

\* How a reader of pipeline.json can tell that a day is complete: no warning,
\* every listed file has its wav, every wav its json, and every json is sent.
AllGreen ==
    /\ result = "ok" /\ summary.warned = {}
    /\ summary.fetch_total = summary.convert_ok + summary.convert_skip_exists
    /\ summary.match_total = summary.upload_total
    /\ summary.upload_total = summary.upload_sent_ok

\* If the counts say so, it is so: every recording that the sources have listed
\* has been uploaded, by this invocation or an earlier one, although downloads
\* fail with exit 0, names are listed twice, old wavs and jsons lie around and
\* upload.json may be an old one.
AllGreenIsComplete ==
    AllGreen => \A i \in DOMAIN fetch : RecordOf[fetch[i]] \in sent

\* What an upload calls sent is a recording that the database knows and audio
\* that ffprobe accepts: the flag comes all the way from the converter through
\* two files, whatever earlier invocations have left.  It is not always the
\* whole recording, but if it is less, then its raw file was cut short, or its
\* wav was there already; a wav converted by the invocation from a whole raw
\* file is sent whole.
SentIsProbed ==
    \A r \in DOMAIN outcome : outcome[r] = "sent" /\ ~Contended(r) =>
        /\ json[r].found
        /\ remote[r] \in {"short", "whole"}
        /\ remote[r] = "short" => \E i \in DOMAIN convert :
              /\ convert[i].rec = r
              /\ convert[i].status = "skip_exists" \/ raw[fetch[i]] = "short"
=============================================================================
