------------------------------- MODULE Uploader -----------------------------
(***************************************************************************)
(* The upload stage, audio-uploader-go.  Each uploader works on the run    *)
(* directory of its own run_id, but the remote paths are made of client    *)
(* and date only, so a second run of the same day (a retry by the operator,*)
(* a manual run beside the timer's) writes the very files of the first, one*)
(* after the other or at the same time.  For each matched json the uploader*)
(* validates, prepares and sends the json and then the wav, and finally    *)
(* writes upload.json.  Any uploader can be killed at any step.            *)
(*                                                                         *)
(* The content of a record is abstracted to what becomes of it: main reads *)
(* and validates it (readable? valid?) without looking at anything else.   *)
(***************************************************************************)
EXTENDS Naturals, Sequences, FiniteSets

CONSTANTS
    Uploaders,   \* the runs of one client and date, by run_id
    Records,     \* record ids: the stems of matched/*.json
    Lists        \* what matched/ may hold when a run lists it, sorted

ASSUME UploaderAssumption ==
    \A l \in Lists : l \in Seq(Records) /\ \A i, j \in DOMAIN l : l[i] = l[j] => i = j

Files == {"json", "wav"}
SkipStatus == {"skipped_parse", "skipped_validation", "skipped_prepare"}
Status == SkipStatus \cup {"sent", "prepared", "send_error"}

\* UploadCounts, without its Total: how many items have each final status.
CountKeys == SkipStatus \cup {"sent", "send_error"}

VARIABLES
    pc,       \* "idle", "connect", "next", "open", "copy", "report", "writing", "exited"
    exit,     \* "none", "ok", "fatal", "killed"
    dry,      \* --dry-run
    list,     \* jps
    report,   \* UploadReport: [valid, skipped, counts, items]
    file,     \* the file of the current item that is being sent
    disk,     \* upload.json of the run: "none", "torn" or "whole"
    remote,   \* each remote file: [state, writers], writers being who ever created it
    mixed     \* the remote files that two uploaders have had open at the same time

vars == <<pc, exit, dry, list, report, file, disk, remote, mixed>>

EmptyReport == [valid |-> 0, skipped |-> 0, counts |-> [c \in CountKeys |-> 0],
                items |-> <<>>]

Paths == Files \X Records
Items == [rec : Records, status : Status, sendOK : BOOLEAN]

TypeOK ==
    /\ pc \in [Uploaders -> {"idle", "connect", "next", "open", "copy", "report",
                             "writing", "exited"}]
    /\ exit \in [Uploaders -> {"none", "ok", "fatal", "killed"}]
    /\ dry \in [Uploaders -> BOOLEAN]
    /\ list \in [Uploaders -> Lists \cup {<<>>}]
    /\ report \in [Uploaders -> [valid : Nat, skipped : Nat, counts : [CountKeys -> Nat],
                                 items : Seq(Items)]]
    /\ file \in [Uploaders -> Files]
    /\ disk \in [Uploaders -> {"none", "torn", "whole"}]
    /\ remote \in [Paths -> [state : {"absent", "partial", "whole"},
                             writers : SUBSET Uploaders]]
    /\ mixed \subseteq Paths

Init ==
    /\ pc = [u \in Uploaders |-> "idle"]
    /\ exit = [u \in Uploaders |-> "none"]
    /\ dry \in [Uploaders -> BOOLEAN]
    /\ list = [u \in Uploaders |-> <<>>]
    /\ report = [u \in Uploaders |-> EmptyReport]
    /\ file = [u \in Uploaders |-> "json"]
    /\ disk = [u \in Uploaders |-> "none"]
    /\ remote = [p \in Paths |-> [state |-> "absent", writers |-> {}]]
    /\ mixed = {}

Goto(u, step) == pc' = [pc EXCEPT ![u] = step]
Exit(u, code) == Goto(u, "exited") /\ exit' = [exit EXCEPT ![u] = code]

\* The item of the loop: the one after those already in the report.
Rec(u) == list[u][Len(report[u].items) + 1]
Pending(u) == Len(report[u].items) < Len(list[u])
Path(u) == <<file[u], Rec(u)>>

-----------------------------------------------------------------------------
(* Before and after the loop.                                              *)

\* jps is globbed; a run with no matched json exits 0 and writes no manifest.
Start(u) ==
    /\ pc[u] = "idle"
    /\ \E l \in Lists \cup {<<>>} :
          /\ list' = [list EXCEPT ![u] = l]
          /\ IF l = <<>> THEN Exit(u, "ok")
             ELSE Goto(u, IF dry[u] THEN "next" ELSE "connect") /\ UNCHANGED exit
    /\ UNCHANGED <<dry, report, file, disk, remote, mixed>>

\* The secret, the connection and the two remote directories; a failure is
\* log.Fatalf: exit status 1 and no manifest.
Connect(u) ==
    /\ pc[u] = "connect"
    /\ Goto(u, "next")
    /\ UNCHANGED <<exit, dry, list, report, file, disk, remote, mixed>>

ConnectFails(u) ==
    /\ pc[u] = "connect"
    /\ Exit(u, "fatal")
    /\ UNCHANGED <<dry, list, report, file, disk, remote, mixed>>

LoopEnds(u) ==
    /\ pc[u] = "next"
    /\ ~Pending(u)
    /\ Goto(u, "report")
    /\ UNCHANGED <<exit, dry, list, report, file, disk, remote, mixed>>

\* os.WriteFile truncates upload.json and fills it; its error is dropped, and
\* the process exits 0 in every case.
TruncateReport(u) ==
    /\ pc[u] = "report"
    /\ disk' = [disk EXCEPT ![u] = "torn"]
    /\ Goto(u, "writing")
    /\ UNCHANGED <<exit, dry, list, report, file, remote, mixed>>

FillReport(u) ==
    /\ pc[u] = "writing"
    /\ disk' = [disk EXCEPT ![u] = "whole"]
    /\ Exit(u, "ok")
    /\ UNCHANGED <<dry, list, report, file, remote, mixed>>

ReportLost(u) ==
    /\ pc[u] \in {"report", "writing"}
    /\ Exit(u, "ok")
    /\ UNCHANGED <<dry, list, report, file, disk, remote, mixed>>

-----------------------------------------------------------------------------
(* The loop: one item.                                                     *)

Item(u, status) ==
    [rec |-> Rec(u), status |-> status, sendOK |-> status \in {"sent", "prepared"}]

Count(r, key) == [r.counts EXCEPT ![key] = @ + 1]

\* The item cannot be read or parsed, is not valid, or cannot be prepared.
Skip(u, status) ==
    /\ pc[u] = "next"
    /\ Pending(u)
    /\ report' = [report EXCEPT ![u] =
            [valid |-> @.valid, skipped |-> @.skipped + 1,
             counts |-> Count(@, status), items |-> Append(@.items, Item(u, status))]]
    /\ UNCHANGED <<pc, exit, dry, list, file, disk, remote, mixed>>

\* Fault: --dry-run does not keep the item from being sent.
PrepareIgnoresDry(u) ==
    /\ pc[u] = "next"
    /\ Pending(u)
    /\ report' = [report EXCEPT ![u].valid = @ + 1]
    /\ file' = [file EXCEPT ![u] = "json"]
    /\ Goto(u, "open")
    /\ UNCHANGED <<exit, dry, list, disk, remote, mixed>>

\* The prepared json is written; a dry run is then done with the item.
Prepare(u) ==
    /\ pc[u] = "next"
    /\ Pending(u)
    /\ report' = [report EXCEPT ![u] =
            [valid |-> @.valid + 1, skipped |-> @.skipped, counts |-> @.counts,
             items |-> IF dry[u] THEN Append(@.items, Item(u, "prepared")) ELSE @.items]]
    /\ file' = [file EXCEPT ![u] = "json"]
    /\ Goto(u, IF dry[u] THEN "next" ELSE "open")
    /\ UNCHANGED <<exit, dry, list, disk, remote, mixed>>

\* Fault: the revert is forgotten.
SendErrorStaysValid(u) ==
    /\ report' = [report EXCEPT ![u] =
            [valid |-> @.valid, skipped |-> @.skipped + 1,
             counts |-> Count(@, "send_error"),
             items |-> Append(@.items, Item(u, "send_error"))]]
    /\ Goto(u, "next")

\* Fault: the item that failed is not counted as skipped.
SendErrorUnskipped(u) ==
    /\ report' = [report EXCEPT ![u] =
            [valid |-> @.valid - 1, skipped |-> @.skipped,
             counts |-> Count(@, "send_error"),
             items |-> Append(@.items, Item(u, "send_error"))]]
    /\ Goto(u, "next")

\* "revert": the item that was counted valid is counted as skipped.
SendError(u) ==
    /\ report' = [report EXCEPT ![u] =
            [valid |-> @.valid - 1, skipped |-> @.skipped + 1,
             counts |-> Count(@, "send_error"),
             items |-> Append(@.items, Item(u, "send_error"))]]
    /\ Goto(u, "next")

SendOK(u) ==
    /\ report' = [report EXCEPT ![u] =
            [valid |-> @.valid, skipped |-> @.skipped,
             counts |-> Count(@, "sent"), items |-> Append(@.items, Item(u, "sent"))]]
    /\ Goto(u, "next")

Copying(p) == {u \in Uploaders : pc[u] = "copy" /\ Path(u) = p}
Leave(u) == mixed' = IF Copying(Path(u)) = {u} THEN mixed \ {Path(u)} ELSE mixed

\* Fault: a wav that cannot be opened is passed over.
OpenFailsUnseen(u) ==
    /\ pc[u] = "open"
    /\ IF file[u] = "wav" THEN SendOK(u) ELSE SendError(u)
    /\ UNCHANGED <<exit, dry, list, file, disk, remote, mixed>>

\* uploadFile fails before it creates the remote file: no local file (a wav
\* that the matcher saw and is gone), no remote directory, no permission.
OpenFails(u) ==
    /\ pc[u] = "open"
    /\ SendError(u)
    /\ UNCHANGED <<exit, dry, list, file, disk, remote, mixed>>

\* s.Create truncates what a previous run has left at the remote path.
Create(u) ==
    /\ pc[u] = "open"
    /\ remote' = [remote EXCEPT ![Path(u)] =
            [state |-> "partial", writers |-> @.writers \cup {u}]]
    /\ mixed' = IF Copying(Path(u)) = {} THEN mixed ELSE mixed \cup {Path(u)}
    /\ Goto(u, "copy")
    /\ UNCHANGED <<exit, dry, list, report, file, disk>>

\* What the remote file holds when u has copied its bytes: another uploader
\* has it open, two have had it open at once, or u alone wrote it.
Copied(u) ==
    IF Copying(Path(u)) # {u} THEN {"partial"}
    ELSE IF Path(u) \in mixed THEN {"partial", "whole"}
    ELSE {"whole"}

\* io.Copy ends well; the json is followed by the wav.
Copy(u) ==
    /\ pc[u] = "copy"
    /\ \E c \in Copied(u) : remote' = [remote EXCEPT ![Path(u)].state = c]
    /\ Leave(u)
    /\ IF file[u] = "json"
       THEN /\ file' = [file EXCEPT ![u] = "wav"]
            /\ Goto(u, "open")
            /\ UNCHANGED report
       ELSE SendOK(u) /\ UNCHANGED file
    /\ UNCHANGED <<exit, dry, list, disk>>

\* Fault: the error of io.Copy is dropped.
CopyFailsUnseen(u) ==
    /\ pc[u] = "copy"
    /\ Leave(u)
    /\ SendOK(u)
    /\ UNCHANGED <<exit, dry, list, file, disk, remote>>

\* Fault: the wav is sent after a json that was not.
CopyFailsGoesOn(u) ==
    /\ pc[u] = "copy"
    /\ Leave(u)
    /\ IF file[u] = "json"
       THEN /\ file' = [file EXCEPT ![u] = "wav"]
            /\ Goto(u, "open")
            /\ UNCHANGED report
       ELSE SendError(u) /\ UNCHANGED file
    /\ UNCHANGED <<exit, dry, list, disk, remote>>

\* io.Copy fails: what it wrote stays on the server.
CopyFails(u) ==
    /\ pc[u] = "copy"
    /\ Leave(u)
    /\ SendError(u)
    /\ UNCHANGED <<exit, dry, list, file, disk, remote>>

\* A signal (systemd's timeout, Conflicts=, the operator) ends the process.
Kill(u) ==
    /\ pc[u] \notin {"idle", "exited"}
    /\ IF pc[u] = "copy" THEN Leave(u) ELSE UNCHANGED mixed
    /\ Exit(u, "killed")
    /\ UNCHANGED <<dry, list, report, file, disk, remote>>

Step(u) ==
    \/ Connect(u) \/ ConnectFails(u)
    \/ \E s \in SkipStatus : Skip(u, s)
    \/ Prepare(u)
    \/ OpenFails(u) \/ Create(u) \/ Copy(u) \/ CopyFails(u)
    \/ LoopEnds(u) \/ TruncateReport(u) \/ FillReport(u) \/ ReportLost(u)

Next == \E u \in Uploaders : Start(u) \/ Step(u) \/ Kill(u)

Spec == Init /\ [][Next]_vars

-----------------------------------------------------------------------------
(* Properties.                                                             *)

Final(items, status) == {i \in DOMAIN items : items[i].status = status}
Sending(u) == pc[u] \in {"open", "copy"}
InFlight(u) == IF Sending(u) THEN 1 ELSE 0
Statuses(u, rec) == {report[u].items[i].status : i \in
                        {k \in DOMAIN report[u].items : report[u].items[k].rec = rec}}

\* The numbers of a report agree with its items, and with the items that are
\* being sent (one or none), which are already counted valid.
Balanced(r, inFlight) ==
    /\ \A c \in CountKeys : r.counts[c] = Cardinality(Final(r.items, c))
    /\ r.skipped = r.counts["skipped_parse"] + r.counts["skipped_validation"]
                     + r.counts["skipped_prepare"] + r.counts["send_error"]
    /\ r.valid = Cardinality(Final(r.items, "sent"))
                   + Cardinality(Final(r.items, "prepared"))
                   + inFlight

\* The report's numbers agree with its items at every turn of the loop: each
\* count is the number of items with that status, skipped is the sum of the
\* failures, and valid is what was sent (or, in a dry run, prepared), the item
\* being sent included until an error takes it back.
Accounting ==
    \A u \in Uploaders :
        (pc[u] = "exited" /\ exit[u] = "killed") \/ Balanced(report[u], InFlight(u))

\* One item for each matched json, in order, so that the total is the sum of
\* valid and skipped when the report is written.
ReportComplete ==
    \A u \in Uploaders : disk[u] = "whole" =>
        /\ [i \in DOMAIN report[u].items |-> report[u].items[i].rec] = list[u]
        /\ report[u].valid + report[u].skipped = Len(list[u])

\* Only one run has ever created the file.
Alone(u, p) == remote[p].writers = {u}

\* What the report calls sent is on the server, json and wav complete, as long
\* as no other run has opened the same remote path.
SentIsStored ==
    \A u \in Uploaders, rec \in Records :
        "sent" \in Statuses(u, rec) =>
            \A f \in Files : Alone(u, <<f, rec>>) => remote[<<f, rec>>].state = "whole"

\* The metadata go first: audio reaches the server only when the json of the
\* same run is complete there, even if the run is killed between the two.
MetadataFirst ==
    \A u \in Uploaders, rec \in Records :
        u \in remote[<<"wav", rec>>].writers /\ Alone(u, <<"json", rec>>) =>
            remote[<<"json", rec>>].state = "whole"

\* A record whose json went out without its audio (the gap between the two
\* uploads) is reported as send_error by the run, unless it was killed.
HalfSentIsReported ==
    \A u \in Uploaders, rec \in Records :
        /\ exit[u] = "ok"
        /\ Alone(u, <<"json", rec>>)
        /\ remote[<<"wav", rec>>].state # "whole"
        /\ remote[<<"wav", rec>>].writers \subseteq {u}
        => "send_error" \in Statuses(u, rec)

\* A record that was skipped, and any record of a dry run, never leaves the
\* machine: whoever wrote a remote file did so in a real run, for a record
\* that it is sending now or has reported as sent or send_error.
OnlyPreparedIsSent ==
    \A u \in Uploaders, f \in Files, rec \in Records :
        u \in remote[<<f, rec>>].writers =>
            /\ ~dry[u]
            /\ \/ exit[u] = "killed"
               \/ Sending(u) /\ Rec(u) = rec
               \/ Statuses(u, rec) # {} /\ Statuses(u, rec) \subseteq {"sent", "send_error"}
=============================================================================
