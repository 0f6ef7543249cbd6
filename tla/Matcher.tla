------------------------------- MODULE Matcher ------------------------------
(***************************************************************************)
(* The match stage, metadata-matcher-rs: main reads fetch.json and         *)
(* convert.json, globs the wavs, asks the database for all of them in one  *)
(* batch keyed by the position k of each wav, writes one json per wav and  *)
(* then match.json.  Several runs over one run directory are modelled, any *)
(* of which can fail or be killed at any step, and between them runs of    *)
(* the convert stage, by what ConvertRuns says of them.                    *)
(*                                                                         *)
(* Of a json the model keeps the run that wrote it, the database row it    *)
(* was filled from and ffprobe's flag: what validateOutgoing asks about.   *)
(***************************************************************************)
EXTENDS Naturals, Sequences, FiniteSets

CONSTANTS
    Records,       \* record ids, the stems of wav/*.wav, numbered in alphabetical order
    Rows,          \* rows of the database
    NoRow,         \* the empty map of a record without a row
    RowsOf,        \* the rows that the batch SQL joins with a record's call
    ConvertLists,  \* the records of the items that convert.json may list
    ProbeExact,    \* ffprobe rejects every broken wav
    MaxRuns,       \* bound on the runs of the match stage
    MaxConversions \* bound on the runs of the convert stage

ASSUME MatcherAssumption ==
    /\ IsFiniteSet(Records) /\ Records \subseteq Nat
    /\ NoRow \notin Rows
    /\ RowsOf \in [Records -> SUBSET Rows]
    /\ \A l \in ConvertLists : l \in Seq(Records)
    /\ ProbeExact \in BOOLEAN
    /\ MaxRuns \in Nat /\ MaxConversions \in Nat

VARIABLES
    wav,          \* wav/<record>.wav: "absent", "broken" or "whole"
    convert,      \* convert.json: [state, items]
    conversions,  \* how many times the convert stage has run
    run,          \* how many times the match stage has run
    dry,          \* --dry-run of the current run
    pc,           \* "off", "load", "query", "rows", "json", "filling", "report", "writing"
    probe,        \* probe_map, as the flag it gives each record
    inputs,       \* the wavs; k is the position, from 1
    answer,       \* the rows <<k, row>> of the batch query's answer
    left,         \* those that have not arrived yet
    rowOf,        \* rows_map
    items,        \* the items of match.json so far
    matched,      \* matched/<record>.json: [state, by, row, probe]
    match,        \* match.json: [state, by, items]
    exit          \* of the last run, "none" once another stage has run

stageVars == <<wav, convert, conversions>>
readVars == <<probe, inputs, answer, left, rowOf>>
vars == <<stageVars, run, dry, pc, readVars, items, matched, match, exit>>

WavState == {"absent", "broken", "whole"}
FileState == {"missing", "torn", "whole"}
Positions == 1..Cardinality(Records)
AnyRow == Rows \cup {NoRow}
NoRows == [k \in Positions |-> NoRow]
Items == [rec : Records, lookupOK : BOOLEAN]

TypeOK ==
    /\ wav \in [Records -> WavState]
    /\ convert \in [state : FileState, items : Seq([rec : Records, probe : BOOLEAN])]
    /\ conversions \in 0..MaxConversions
    /\ run \in 0..MaxRuns
    /\ dry \in BOOLEAN
    /\ pc \in {"off", "load", "query", "rows", "json", "filling", "report", "writing"}
    /\ probe \in [Records -> BOOLEAN]
    /\ inputs \in Seq(Records) /\ Len(inputs) <= Cardinality(Records)
    /\ answer \subseteq Positions \X Rows /\ left \subseteq answer
    /\ rowOf \in [Positions -> AnyRow]
    /\ items \in Seq(Items) /\ Len(items) <= Len(inputs)
    /\ matched \in [Records -> [state : FileState, by : 0..MaxRuns, row : AnyRow,
                                probe : BOOLEAN]]
    /\ match \in [state : FileState, by : 0..MaxRuns, items : Seq(Items)]
    /\ exit \in {"none", "ok", "error", "killed"}

Init ==
    /\ wav = [r \in Records |-> "absent"]
    /\ convert = [state |-> "missing", items |-> <<>>]
    /\ conversions = 0
    /\ run = 0
    /\ dry = FALSE
    /\ pc = "off"
    /\ probe = [r \in Records |-> FALSE]
    /\ inputs = <<>>
    /\ answer = {} /\ left = {}
    /\ rowOf = NoRows
    /\ items = <<>>
    /\ matched = [r \in Records |->
            [state |-> "missing", by |-> 0, row |-> NoRow, probe |-> FALSE]]
    /\ match = [state |-> "missing", by |-> 0, items |-> <<>>]
    /\ exit = "none"

-----------------------------------------------------------------------------
(* The convert stage, between two runs of the matcher.                     *)

\* What Converter implements.
Stage == INSTANCE ConvertRuns

\* Records for which that promises nothing.
Contended(r) == Stage!Contended(r)

Converts ==
    /\ pc = "off"
    /\ conversions < MaxConversions
    /\ conversions' = conversions + 1
    /\ Stage!Converts
    /\ exit' = "none"
    /\ UNCHANGED <<run, dry, pc, readVars, items, matched, match>>

-----------------------------------------------------------------------------
(* Reading.                                                                *)

StartRun ==
    /\ pc = "off"
    /\ run < MaxRuns
    /\ run' = run + 1
    /\ dry' \in BOOLEAN
    /\ pc' = "load"
    /\ inputs' = <<>> /\ answer' = {} /\ left' = {} /\ rowOf' = NoRows /\ items' = <<>>
    /\ exit' = "none"
    /\ UNCHANGED <<stageVars, probe, matched, match>>

End(code) == pc' = "off" /\ exit' = code

\* The `?` of main up to the glob: the client's configuration, a directory
\* that cannot be created, a manifest that cannot be parsed.
LoadFails ==
    /\ pc = "load"
    /\ End("error")
    /\ UNCHANGED <<stageVars, run, dry, readVars, items, matched, match>>

\* Fault: a record that convert.json does not list counts as probed.
ProbedUnlessRefuted(r) ==
    \A i \in DOMAIN convert.items : convert.items[i].rec = r => convert.items[i].probe

\* load_probe_map: the last item of a record wins; no item, no file: false.
ProbeFlag(r) ==
    \E i \in DOMAIN convert.items :
        /\ convert.items[i].rec = r /\ convert.items[i].probe
        /\ \A j \in DOMAIN convert.items : j > i => convert.items[j].rec # r

WithWav == {r \in Records : wav[r] # "absent"}

\* glob returns the paths in alphabetical order.
Sorted(S) ==
    {s \in [1..Cardinality(S) -> S] : \A i, j \in 1..Cardinality(S) : i < j => s[i] < s[j]}

\* Without wavs main returns at once; a dry run goes on to an empty manifest.
Load ==
    /\ pc = "load"
    /\ convert.state # "torn"
    /\ probe' = [r \in Records |-> ProbeFlag(r)]
    /\ inputs' \in Sorted(WithWav)
    /\ \/ inputs' = <<>> /\ End("ok")
       \/ inputs' # <<>> /\ pc' = (IF dry THEN "report" ELSE "query") /\ UNCHANGED exit
    /\ UNCHANGED <<stageVars, run, dry, answer, left, rowOf, items, matched, match>>

\* The rows that the join can give: several calls may fit one wav, and one
\* call several wavs.
Joined ==
    {p \in Positions \X Rows : p[1] \in DOMAIN inputs /\ p[2] \in RowsOf[inputs[p[1]]]}

\* The connection, the carteras (without any there is no batch and no row) and
\* the batch; what it answers depends on the tables at that moment.
Query ==
    /\ pc = "query"
    /\ answer' \in SUBSET Joined
    /\ left' = answer'
    /\ pc' = "rows"
    /\ UNCHANGED <<stageVars, run, dry, probe, inputs, rowOf, items, matched, match, exit>>

\* Fault: the rows are stored in the order in which they arrive.
TakeNextRow ==
    /\ pc = "rows"
    /\ \E p \in left :
          LET k == Cardinality(answer \ left) + 1
          IN  /\ \A q \in left : p[1] <= q[1]
              /\ rowOf' = IF k \in Positions THEN [rowOf EXCEPT ![k] = p[2]] ELSE rowOf
              /\ left' = left \ {p}
    /\ UNCHANGED <<stageVars, run, dry, pc, probe, inputs, answer, items, matched, match, exit>>

\* Rows arrive ORDER BY k, those of one k in any order; the last one wins.
TakeRow ==
    /\ pc = "rows"
    /\ \E p \in left :
          /\ \A q \in left : p[1] <= q[1]
          /\ rowOf' = [rowOf EXCEPT ![p[1]] = p[2]]
          /\ left' = left \ {p}
    /\ UNCHANGED <<stageVars, run, dry, pc, probe, inputs, answer, items, matched, match, exit>>

\* Fault: an error of the stream is taken for its end.
RowsBreakOff ==
    /\ pc = "rows"
    /\ pc' = "json"
    /\ UNCHANGED <<stageVars, run, dry, readVars, items, matched, match, exit>>

RowsEnd ==
    /\ pc = "rows"
    /\ left = {}
    /\ pc' = "json"
    /\ UNCHANGED <<stageVars, run, dry, readVars, items, matched, match, exit>>

\* The secret, the connection, a query or its stream fails: nothing is written.
QueryFails ==
    /\ pc \in {"query", "rows"}
    /\ End("error")
    /\ UNCHANGED <<stageVars, run, dry, readVars, items, matched, match>>

-----------------------------------------------------------------------------
(* Writing.                                                                *)

Position == Len(items) + 1
Rec == inputs[Position]
MoreJsons == Position <= Len(inputs)

\* fs::write truncates the json and then fills it.
TruncateJson ==
    /\ pc = "json"
    /\ MoreJsons
    /\ matched' = [matched EXCEPT ![Rec] =
            [state |-> "torn", by |-> run, row |-> NoRow, probe |-> FALSE]]
    /\ pc' = "filling"
    /\ UNCHANGED <<stageVars, run, dry, readVars, items, match, exit>>

\* Fault: the lookup of every record is ok when there was a batch.
LookupByBatch(k) == answer # {}

LookupOK(k) == rowOf[k] # NoRow

FillJson ==
    /\ pc = "filling"
    /\ matched' = [matched EXCEPT ![Rec] = [state |-> "whole", by |-> run,
            row |-> rowOf[Position], probe |-> probe[Rec]]]
    /\ items' = Append(items, [rec |-> Rec, lookupOK |-> LookupOK(Position)])
    /\ pc' = "json"
    /\ UNCHANGED <<stageVars, run, dry, readVars, match, exit>>

\* Fault: a json that cannot be written is listed all the same.
JsonFailsUnseen ==
    /\ pc = "json" /\ MoreJsons
    /\ items' = Append(items, [rec |-> Rec, lookupOK |-> LookupOK(Position)])
    /\ UNCHANGED <<stageVars, run, dry, pc, readVars, matched, match, exit>>

\* A json cannot be written: the run ends, match.json stays what it was.
JsonFails ==
    /\ (pc = "json" /\ MoreJsons) \/ pc = "filling"
    /\ End("error")
    /\ UNCHANGED <<stageVars, run, dry, readVars, items, matched, match>>

JsonsEnd ==
    /\ pc = "json"
    /\ ~MoreJsons
    /\ pc' = "report"
    /\ UNCHANGED <<stageVars, run, dry, readVars, items, matched, match, exit>>

TruncateManifest ==
    /\ pc = "report"
    /\ match' = [match EXCEPT !.state = "torn"]
    /\ pc' = "writing"
    /\ UNCHANGED <<stageVars, run, dry, readVars, items, matched, exit>>

FillManifest ==
    /\ pc = "writing"
    /\ match' = [state |-> "whole", by |-> run, items |-> items]
    /\ End("ok")
    /\ UNCHANGED <<stageVars, run, dry, readVars, items, matched>>

ManifestFails ==
    /\ pc \in {"report", "writing"}
    /\ End("error")
    /\ UNCHANGED <<stageVars, run, dry, readVars, items, matched, match>>

Kill ==
    /\ pc # "off"
    /\ End("killed")
    /\ UNCHANGED <<stageVars, run, dry, readVars, items, matched, match>>

Next ==
    \/ Converts
    \/ StartRun \/ LoadFails \/ Load
    \/ Query \/ TakeRow \/ RowsEnd \/ QueryFails
    \/ TruncateJson \/ FillJson \/ JsonFails \/ JsonsEnd
    \/ TruncateManifest \/ FillManifest \/ ManifestFails
    \/ Kill

Spec == Init /\ [][Next]_vars

-----------------------------------------------------------------------------
(* Properties.                                                             *)

\* What validateOutgoing asks of a json before its audio leaves the machine,
\* the fields of the row apart: lookup_ok and ffprobe_ok.
Sendable(json) == json.state = "whole" /\ json.row # NoRow /\ json.probe

\* If ffprobe rejects every wav that was cut short, then a json that the uploader
\* will accept speaks of whole audio: not of a wav cut short by a killed or
\* failed conversion, nor of one that an older convert.json knew, whatever runs
\* of both stages came in between.  Without the condition it is not so: probe_wav
\* asks for a duration only, and a wav cut short may well have one.
SendableIsWhole ==
    ProbeExact =>
        \A r \in Records : Sendable(matched[r]) /\ ~Contended(r) => wav[r] = "whole"

\* No json is filled with the data of somebody else's call: k keeps the rows
\* and the wavs together, also in the jsons that earlier runs have left.
RowsStayWithRecord ==
    \A r \in Records : matched[r].row \in RowsOf[r] \cup {NoRow}

\* The jsons of a run are made of the complete answer: lookup_ok is false only
\* when the database had no row for the record, not because the answer broke
\* off or was not read yet.
JsonsUseWholeAnswer ==
    \A k \in DOMAIN inputs :
        LET json == matched[inputs[k]]
        IN  json.state = "whole" /\ json.by = run =>
                IF json.row = NoRow THEN \A p \in answer : p[1] # k
                ELSE <<k, json.row>> \in answer

\* A real run that exits 0 lists every wav of the directory once, in order,
\* with the lookup flag of the json it has just written for it.
ManifestMatchesJsons ==
    exit = "ok" /\ ~dry /\ inputs # <<>> =>
        /\ match.state = "whole" /\ match.by = run
        /\ [k \in DOMAIN match.items |-> match.items[k].rec] \in Sorted(WithWav)
        /\ \A k \in DOMAIN match.items :
              LET json == matched[match.items[k].rec]
              IN  /\ json.state = "whole" /\ json.by = run
                  /\ match.items[k].lookupOK <=> json.row # NoRow

\* match.json never lists a json that was not written: whatever failed since,
\* every record it lists has a json of that run or of a later one.
ManifestNotAhead ==
    match.state = "whole" =>
        \A k \in DOMAIN match.items :
            LET json == matched[match.items[k].rec]
            IN  json.state # "missing" /\ json.by >= match.by
=============================================================================
