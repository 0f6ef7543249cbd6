---------------------------- MODULE MatcherProofs ---------------------------
(***************************************************************************)
(* Proofs about Matcher, for every set of records, of rows and of lists of *)
(* convert.json: a json that the uploader accepts speaks of whole audio,   *)
(* no json holds the row of another record's call, every json is made of   *)
(* the whole answer, and match.json lists just the jsons that were written.*)
(***************************************************************************)
EXTENDS Matcher, FiniteSetTheorems, SequenceTheorems, TLAPS

-----------------------------------------------------------------------------
(* The inductive invariant.                                                *)

ProbeItems == [rec : Records, probe : BOOLEAN]
Jsons == [state : FileState, by : 0..MaxRuns, row : AnyRow, probe : BOOLEAN]

\* What the steps need to know of the variables they change.
Typed ==
    /\ wav \in [Records -> WavState]
    /\ convert \in [state : FileState, items : Seq(ProbeItems)]
    /\ run \in 0..MaxRuns
    /\ probe \in [Records -> BOOLEAN]
    /\ inputs \in Seq(Records) /\ DOMAIN inputs \subseteq Positions
    /\ pc = "filling" => MoreJsons
    /\ left \subseteq Positions \X Rows
    /\ rowOf \in [Positions -> AnyRow]
    /\ items \in Seq(Items)
    /\ matched \in [Records -> Jsons]
    /\ match \in [state : FileState, by : 0..MaxRuns, items : Seq(Items)]

\* ffprobe's word on a record goes from convert.json to probe_map and from
\* there into the json; at each place it is true of the wav on disk, which
\* stays whole once it is.
ProbeHolds ==
    /\ \A i \in DOMAIN convert.items :
          convert.items[i].probe /\ ~Contended(convert.items[i].rec) =>
              wav[convert.items[i].rec] = "whole"
    /\ \A r \in Records : probe[r] /\ ~Contended(r) => wav[r] = "whole"
    /\ \A r \in Records : matched[r].probe /\ ~Contended(r) => wav[r] = "whole"

\* That word is worth something only if ffprobe rejects a wav that was cut short.
ProbeChain == ProbeExact => ProbeHolds

\* A row goes from the answer to rows_map and from there into the json; at
\* each place it is one that the join gives to the record.
RowChain ==
    /\ pc = "load" => left = {} /\ rowOf = NoRows
    /\ \A p \in left : p[1] \in DOMAIN inputs /\ p[2] \in RowsOf[inputs[p[1]]]
    /\ \A k \in Positions : rowOf[k] # NoRow =>
          k \in DOMAIN inputs /\ rowOf[k] \in RowsOf[inputs[k]]
    /\ RowsStayWithRecord

\* Every item of the run has its json, and match.json is not ahead.
ItemChain ==
    /\ pc \in {"load", "query", "rows"} => items = <<>>
    /\ pc # "off" => \A k \in DOMAIN items :
          matched[items[k].rec].state # "missing" /\ matched[items[k].rec].by = run
    /\ \A r \in Records : matched[r].by <= run
    /\ match.by <= run
    /\ ManifestNotAhead

MatcherInv == Typed /\ ProbeChain /\ RowChain /\ ItemChain

\* A row that the answer has for a position is in rows_map, or is still to
\* come, and rows_map has no other; the jsons are filled when none is to come.
\* A position is that of one wav, so that no later json undoes an earlier one.
AnswerChain ==
    /\ \A i, j \in DOMAIN inputs : inputs[i] = inputs[j] => i = j
    /\ answer \subseteq Positions \X Rows /\ left \subseteq answer
    /\ pc \in {"load", "query"} => answer = {} /\ rowOf = NoRows
    /\ pc \in {"load", "query", "rows"} => \A r \in Records : matched[r].by < run
    /\ pc \in {"json", "filling"} => left = {}
    /\ \A k \in Positions :
          IF rowOf[k] = NoRow THEN \A p \in answer : p[1] = k => p \in left
          ELSE <<k, rowOf[k]>> \in answer
    /\ JsonsUseWholeAnswer

\* The json of an item is the one that the run has filled for it.
Written(item) ==
    LET json == matched[item.rec]
    IN  /\ json.state = "whole" /\ json.by = run
        /\ item.lookupOK <=> json.row # NoRow

\* The items follow the wavs, each with its json; at the end they are all there,
\* and they are what match.json holds when the run exits 0.
WriteChain ==
    /\ pc \notin {"off", "load"} => inputs \in Sorted(WithWav)
    /\ Len(items) <= Len(inputs)
    /\ \A k \in DOMAIN items : items[k].rec = inputs[k] /\ Written(items[k])
    /\ pc \in {"report", "writing"} /\ ~dry => ~MoreJsons
    /\ pc # "off" => exit = "none"
    /\ exit = "ok" /\ ~dry /\ inputs # <<>> =>
          /\ match.state = "whole" /\ match.by = run /\ match.items = items
          /\ inputs \in Sorted(WithWav) /\ ~MoreJsons

RunInv == MatcherInv /\ AnswerChain /\ WriteChain

-----------------------------------------------------------------------------
(* Lemmas.                                                                 *)

\* The initial states satisfy the invariant.
LEMMA InitInv == Init => MatcherInv
<1> SUFFICES ASSUME Init PROVE MatcherInv
    OBVIOUS
<1> USE MatcherAssumption DEF Init
<1>1. Typed
  <2>1. NoRows \in [Positions -> AnyRow]
      BY DEF NoRows, AnyRow
  <2>2. <<>> \in Seq(Records) /\ <<>> \in Seq(Items) /\ DOMAIN <<>> = {}
      OBVIOUS
  <2>3. matched \in [Records -> Jsons]
      BY DEF Jsons, FileState, AnyRow
  <2>4. match \in [state : FileState, by : 0..MaxRuns, items : Seq(Items)]
      BY <2>2 DEF FileState
  <2>5. convert \in [state : FileState, items : Seq(ProbeItems)]
    <3>1. <<>> \in Seq(ProbeItems)
        OBVIOUS
    <3> QED BY <3>1 DEF FileState
  <2>6. wav \in [Records -> WavState] /\ probe \in [Records -> BOOLEAN] /\ run \in 0..MaxRuns
      BY DEF WavState
  <2>7. inputs \in Seq(Records) /\ DOMAIN inputs \subseteq Positions /\ left = {}
      BY <2>2
  <2>8. items \in Seq(Items) /\ pc # "filling" /\ rowOf \in [Positions -> AnyRow]
      BY <2>1, <2>2
  <2> QED BY <2>3, <2>4, <2>5, <2>6, <2>7, <2>8 DEF Typed
<1>2. ProbeChain
    BY DEF ProbeChain, ProbeHolds
<1>3. RowChain
    BY DEF RowChain, RowsStayWithRecord, NoRows
<1>4. ItemChain
    BY DEF ItemChain, ManifestNotAhead
<1> QED BY <1>1, <1>2, <1>3, <1>4 DEF MatcherInv

\* A listing of the wavs is a sequence of records.
LEMMA SortedType ==
    ASSUME NEW S \in SUBSET Records, NEW s \in Sorted(S)
    PROVE  /\ s \in Seq(Records) /\ DOMAIN s \subseteq Positions
           /\ \A k \in DOMAIN s : s[k] \in S
<1>1. IsFiniteSet(S) /\ Cardinality(S) \in Nat /\ Cardinality(Records) \in Nat
      /\ Cardinality(S) <= Cardinality(Records)
    BY MatcherAssumption, FS_Subset, FS_CardinalityType
<1>2. s \in [1..Cardinality(S) -> S]
    BY DEF Sorted
<1>3. s \in Seq(Records)
    BY <1>1, <1>2, SeqDef
<1>4. DOMAIN s \subseteq Positions
    BY <1>1, <1>2 DEF Positions
<1> QED BY <1>2, <1>3, <1>4

\* The items of a convert.json are items.
LEMMA ItemsType ==
    ASSUME NEW list \in ConvertLists, NEW flag \in [DOMAIN list -> BOOLEAN]
    PROVE  [i \in DOMAIN list |-> [rec |-> list[i], probe |-> flag[i]]] \in Seq(ProbeItems)
<1>1. list \in Seq(Records)
    BY MatcherAssumption
<1>2. Len(list) \in Nat /\ DOMAIN list = 1..Len(list) /\ \A i \in DOMAIN list : list[i] \in Records
    BY <1>1
<1>3. \A i \in DOMAIN list : [rec |-> list[i], probe |-> flag[i]] \in ProbeItems
    BY <1>2 DEF ProbeItems
<1>4. [i \in DOMAIN list |-> [rec |-> list[i], probe |-> flag[i]]]
         \in [1..Len(list) -> ProbeItems]
    BY <1>2, <1>3
<1> QED BY <1>2, <1>4, SeqDef

\* The json that is being filled is that of one of the wavs.
LEMMA FillingInput ==
    ASSUME Typed, pc = "filling"
    PROVE  Position \in DOMAIN inputs /\ Position \in Positions /\ Rec \in Records
<1>1. Position \in 1..Len(inputs)
    BY DEF Typed, MoreJsons, Position
<1>2. DOMAIN inputs = 1..Len(inputs)
    BY DEF Typed
<1> QED BY <1>1, <1>2 DEF Typed, Rec

\* The types are kept.
LEMMA TypedStep == Typed /\ [Next]_vars => Typed'
<1> SUFFICES ASSUME Typed, [Next]_vars PROVE Typed'
    OBVIOUS
<1> USE MatcherAssumption DEF Typed, MoreJsons, Position
<1>1. CASE Converts
  <2>1. ASSUME NEW list \in ConvertLists, NEW flag \in [DOMAIN list -> BOOLEAN]
        PROVE  [i \in DOMAIN list |-> [rec |-> list[i], probe |-> flag[i]]] \in Seq(ProbeItems)
      BY ONLY ItemsType
  <2>2. <<>> \in Seq(ProbeItems)
      OBVIOUS
  <2>3. convert' \in [state : FileState, items : Seq(ProbeItems)]
    <3>1. ASSUME NEW s \in FileState, NEW q \in Seq(ProbeItems)
          PROVE  [state |-> s, items |-> q] \in [state : FileState, items : Seq(ProbeItems)]
        BY ONLY <3>1
    <3>2. "torn" \in FileState /\ "whole" \in FileState
        BY DEF FileState
    <3>3. CASE convert' = [state |-> "torn", items |-> <<>>]
        BY ONLY <2>2, <3>1, <3>2, <3>3
    <3>4. ASSUME NEW list \in ConvertLists, NEW flag \in [DOMAIN list -> BOOLEAN],
                 convert' = [state |-> "whole", items |->
                     [i \in DOMAIN list |-> [rec |-> list[i], probe |-> flag[i]]]]
          PROVE  convert' \in [state : FileState, items : Seq(ProbeItems)]
        BY ONLY <2>1, <3>1, <3>2, <3>4
    <3> QED BY <1>1, <3>3, <3>4 DEF Converts, Stage!Converts
  <2> QED BY <1>1, <2>3 DEF Converts, Stage!Converts, WavState, readVars
<1>2. CASE StartRun
  <2>1. NoRows \in [Positions -> AnyRow]
      BY DEF NoRows, AnyRow
  <2>2. <<>> \in Seq(Records) /\ <<>> \in Seq(Items)
      OBVIOUS
  <2> QED BY <1>2, <2>1, <2>2 DEF StartRun, stageVars
<1>3. CASE Load
  <2>1. WithWav \in SUBSET Records
      BY DEF WithWav
  <2>2. inputs' \in Seq(Records) /\ DOMAIN inputs' \subseteq Positions
      BY <1>3, <2>1, SortedType DEF Load
  <2>3. probe' \in [Records -> BOOLEAN]
      BY <1>3 DEF Load, ProbeFlag
  <2> QED BY <1>3, <2>2, <2>3 DEF Load, End, stageVars
<1>4. CASE Query
    BY <1>4 DEF Query, Joined, stageVars
<1>5. CASE TakeRow
    BY <1>5 DEF TakeRow, stageVars, AnyRow
<1>6. CASE TruncateJson
  <2>1. [state |-> "torn", by |-> run, row |-> NoRow, probe |-> FALSE] \in Jsons
      BY DEF Jsons, FileState, AnyRow
  <2> QED BY <1>6, <2>1 DEF TruncateJson, stageVars, readVars
<1>7. CASE FillJson
  <2>1. pc = "filling"
      BY <1>7 DEF FillJson
  <2>2. Rec \in Records /\ Position \in Positions
      BY <2>1, FillingInput
  <2>3. [state |-> "whole", by |-> run, row |-> rowOf[Position], probe |-> probe[Rec]]
           \in Jsons
      BY <2>2 DEF Jsons, FileState
  <2>4. [rec |-> Rec, lookupOK |-> LookupOK(Position)] \in Items
      BY <2>2 DEF Items, LookupOK
  <2>5. items' \in Seq(Items)
      BY <1>7, <2>4 DEF FillJson
  <2>6. matched' \in [Records -> Jsons]
      BY <1>7, <2>3 DEF FillJson
  <2> QED BY <1>7, <2>5, <2>6 DEF FillJson, stageVars, readVars
<1>8. CASE TruncateManifest
    BY <1>8 DEF TruncateManifest, stageVars, readVars, FileState
<1>9. CASE FillManifest
    BY <1>9 DEF FillManifest, End, stageVars, readVars, FileState
<1>10. CASE UNCHANGED vars
    BY <1>10 DEF vars, stageVars, readVars
<1>11. CASE RowsEnd \/ LoadFails \/ QueryFails \/ JsonFails \/ JsonsEnd \/ ManifestFails \/ Kill
    BY <1>11 DEF RowsEnd, LoadFails, QueryFails, JsonFails, JsonsEnd, ManifestFails, Kill,
                 End, stageVars, readVars
<1> QED BY <1>1, <1>2, <1>3, <1>4, <1>5, <1>6, <1>7, <1>8, <1>9, <1>10, <1>11 DEF Next

\* Whole wavs stay whole, and nobody writes a wav but the convert stage.
LEMMA WavStays ==
    ASSUME Typed, [Next]_vars, NEW r \in Records, ~Contended(r), wav[r] = "whole"
    PROVE  wav'[r] = "whole"
<1>1. CASE Converts
    BY <1>1 DEF Converts, Stage!Converts, Stage!NextWav, Contended, Typed
<1>2. CASE ~Converts
    BY <1>2 DEF Next, vars, stageVars, StartRun, LoadFails, Load, Query, TakeRow, RowsEnd,
                QueryFails, TruncateJson, FillJson, JsonFails, JsonsEnd, TruncateManifest,
                FillManifest, ManifestFails, Kill
<1> QED BY <1>1, <1>2

\* The chain of ffprobe's word is kept.
LEMMA ProbeStep == Typed /\ ProbeChain /\ [Next]_vars => ProbeChain'
<1> SUFFICES ASSUME Typed, ProbeExact, ProbeHolds, [Next]_vars PROVE ProbeHolds'
    BY DEF ProbeChain
<1> DEFINE
      C == \A i \in DOMAIN convert.items :
              convert.items[i].probe /\ ~Contended(convert.items[i].rec) =>
                  wav[convert.items[i].rec] = "whole"
      P == \A r \in Records : probe[r] /\ ~Contended(r) => wav[r] = "whole"
      M == \A r \in Records : matched[r].probe /\ ~Contended(r) => wav[r] = "whole"
<1>1. C /\ P /\ M
    BY DEF ProbeHolds
<1> DEFINE Stays == \A r \in Records : wav[r] = "whole" /\ ~Contended(r) => wav'[r] = "whole"
<1>5. Stays
    BY WavStays
<1>6. \A i \in DOMAIN convert.items : convert.items[i].rec \in Records
  <2>1. convert.items \in Seq(ProbeItems)
      BY DEF Typed
  <2>2. \A i \in DOMAIN convert.items : convert.items[i] \in ProbeItems
      BY <2>1
  <2> QED BY <2>2 DEF ProbeItems
<1>2. C'
  <2>1. CASE Converts
    <3>1. CASE convert' = convert
        BY <1>1, <1>5, <1>6, <3>1
    <3>2. CASE convert' = [state |-> "torn", items |-> <<>>]
      <4>1. convert'.items = <<>> /\ DOMAIN <<>> = {}
          BY <3>2
      <4> QED BY <4>1
    <3>3. ASSUME NEW list \in ConvertLists, NEW flag \in [DOMAIN list -> BOOLEAN],
                 Stage!Vouched(list, flag, wav'),
                 convert' = [state |-> "whole", items |->
                     [i \in DOMAIN list |-> [rec |-> list[i], probe |-> flag[i]]]]
          PROVE  C'
      <4>1. DOMAIN convert'.items = DOMAIN list
          BY <3>3
      <4>2. \A i \in DOMAIN list :
                convert'.items[i].rec = list[i] /\ convert'.items[i].probe = flag[i]
          BY <3>3
      <4>3. \A r : Contended(r)' <=> Contended(r)
          BY DEF Contended, Stage!Contended
      <4> QED BY <3>3, <4>1, <4>2, <4>3 DEF Stage!Vouched, Contended
    <3> QED BY <2>1, <3>1, <3>2, <3>3 DEF Converts, Stage!Converts
  <2>2. CASE ~Converts
    <3>1. convert' = convert
        BY <2>2 DEF Next, vars, stageVars, StartRun, LoadFails, Load, Query, TakeRow, RowsEnd,
                    QueryFails, TruncateJson, FillJson, JsonFails, JsonsEnd, TruncateManifest,
                    FillManifest, ManifestFails, Kill
    <3> QED BY <1>1, <1>5, <1>6, <3>1
  <2> QED BY <2>1, <2>2
<1>3. P'
  <2>1. CASE Load
    <3>1. \A r \in Records : probe'[r] => ProbeFlag(r)
        BY <2>1 DEF Load
    <3>2. \A r \in Records : ProbeFlag(r) /\ ~Contended(r) => wav[r] = "whole"
        BY <1>1 DEF ProbeFlag
    <3> QED BY <1>5, <3>1, <3>2
  <2>2. CASE ~Load
    <3>1. probe' = probe
        BY <2>2 DEF Next, vars, readVars, Converts, StartRun, LoadFails, Query, TakeRow,
                    RowsEnd, QueryFails, TruncateJson, FillJson, JsonFails, JsonsEnd,
                    TruncateManifest, FillManifest, ManifestFails, Kill
    <3> QED BY <1>1, <1>5, <3>1
  <2> QED BY <2>1, <2>2
<1>4. M'
  <2>1. CASE FillJson
    <3>1. pc = "filling"
        BY <2>1 DEF FillJson
    <3>2. \A r \in Records : matched'[r].probe = IF r = Rec THEN probe[Rec] ELSE matched[r].probe
        BY <2>1, <3>1, FillingInput DEF FillJson, Typed
    <3> QED BY <1>1, <1>5, <3>2
  <2>2. CASE TruncateJson
    <3>1. \A r \in Records : matched'[r].probe => matched[r].probe
        BY <2>2 DEF TruncateJson, Typed
    <3> QED BY <1>1, <1>5, <3>1
  <2>3. CASE ~FillJson /\ ~TruncateJson
    <3>1. matched' = matched
        BY <2>3 DEF Next, vars, Converts, StartRun, LoadFails, Load, Query, TakeRow, RowsEnd,
                    QueryFails, JsonFails, JsonsEnd, TruncateManifest, FillManifest,
                    ManifestFails, Kill
    <3> QED BY <1>1, <1>5, <3>1
  <2> QED BY <2>1, <2>2, <2>3
<1> QED BY <1>2, <1>3, <1>4 DEF ProbeHolds

\* The chain of the rows is kept.
LEMMA RowStep == Typed /\ RowChain /\ [Next]_vars => RowChain'
<1> SUFFICES ASSUME Typed, RowChain, [Next]_vars PROVE RowChain'
    OBVIOUS
<1>1. CASE StartRun
    BY <1>1 DEF StartRun, RowChain, RowsStayWithRecord, NoRows
<1>2. CASE Query
    BY <1>2 DEF Query, RowChain, RowsStayWithRecord, Joined
<1>3. CASE TakeRow
    BY <1>3 DEF TakeRow, RowChain, RowsStayWithRecord, Typed
<1>4. CASE TruncateJson
    BY <1>4 DEF TruncateJson, RowChain, RowsStayWithRecord, Typed, readVars
<1>5. CASE FillJson
  <2>1. pc = "filling"
      BY <1>5 DEF FillJson
  <2>2. rowOf[Position] \in RowsOf[Rec] \cup {NoRow}
      BY <2>1, FillingInput DEF RowChain, Rec
  <2>4. pc' # "load"
      BY <1>5 DEF FillJson
  <2>3. \A r \in Records : matched'[r].row = IF r = Rec THEN rowOf[Position] ELSE matched[r].row
      BY <1>5 DEF FillJson, Typed
  <2> QED BY <1>5, <2>2, <2>3, <2>4 DEF FillJson, RowChain, RowsStayWithRecord, readVars
<1>6. CASE Load
    BY <1>6 DEF Load, RowChain, RowsStayWithRecord, NoRows, End
<1>7. CASE UNCHANGED <<readVars, matched>> /\ (pc' = "load" => pc = "load")
    BY <1>7 DEF RowChain, RowsStayWithRecord, readVars
<1>8. CASE Converts \/ LoadFails \/ RowsEnd \/ QueryFails \/ JsonFails \/ JsonsEnd
           \/ TruncateManifest \/ FillManifest \/ ManifestFails \/ Kill \/ UNCHANGED vars
  <2>1. UNCHANGED <<readVars, matched>> /\ (pc' = "load" => pc = "load")
      BY <1>8 DEF Converts, End, LoadFails, RowsEnd, QueryFails, JsonFails, JsonsEnd,
                  TruncateManifest, FillManifest, ManifestFails, Kill, vars
  <2> QED BY <1>7, <2>1
<1> QED BY <1>1, <1>2, <1>3, <1>4, <1>5, <1>6, <1>8 DEF Next

\* The chain of the items is kept.
LEMMA ItemStep == Typed /\ ItemChain /\ [Next]_vars => ItemChain'
<1> SUFFICES ASSUME Typed, ItemChain, [Next]_vars PROVE ItemChain'
    OBVIOUS
<1>0. /\ \A k \in DOMAIN items : items[k].rec \in Records
      /\ \A k \in DOMAIN match.items : match.items[k].rec \in Records
      /\ \A r \in Records : matched[r].by \in Nat
      /\ run \in Nat /\ match.by \in Nat
  <2>1. items \in Seq(Items) /\ match.items \in Seq(Items)
      BY DEF Typed
  <2>2. /\ \A k \in DOMAIN items : items[k] \in Items
        /\ \A k \in DOMAIN match.items : match.items[k] \in Items
      BY <2>1
  <2> QED BY <2>2, MatcherAssumption DEF Typed, Items, Jsons
<1>1. CASE StartRun
  <2>1. run' = run + 1 /\ items' = <<>> /\ pc' = "load" /\ UNCHANGED <<matched, match>>
      BY <1>1 DEF StartRun
  <2> QED BY <1>0, <2>1 DEF ItemChain, ManifestNotAhead
<1>2. CASE TruncateJson
  <2>1. \A r \in Records :
            matched'[r] = IF r = Rec
                          THEN [state |-> "torn", by |-> run, row |-> NoRow, probe |-> FALSE]
                          ELSE matched[r]
      BY <1>2 DEF TruncateJson, Typed
  <2>2. pc = "json" /\ pc' = "filling" /\ UNCHANGED <<run, items, match>>
      BY <1>2 DEF TruncateJson
  <2>3. \A r \in Records : matched'[r].by \in Nat
                             /\ matched'[r].by <= run /\ matched'[r].by >= matched[r].by
                             /\ (matched[r].state # "missing" => matched'[r].state # "missing")
                             /\ (matched[r].by = run => matched'[r].by = run)
      BY <1>0, <2>1 DEF ItemChain
  <2>4. ManifestNotAhead'
      BY <1>0, <2>2, <2>3 DEF ItemChain, ManifestNotAhead
  <2> QED BY <1>0, <2>2, <2>3, <2>4 DEF ItemChain
<1>3. CASE FillJson
  <2> DEFINE it == [rec |-> Rec, lookupOK |-> LookupOK(Position)]
  <2>1. pc = "filling" /\ pc' = "json" /\ UNCHANGED <<run, match>> /\ items' = Append(items, it)
      BY <1>3 DEF FillJson
  <2>2. Rec \in Records
      BY <2>1, FillingInput
  <2>3. \A r \in Records :
            matched'[r] = IF r = Rec
                          THEN [state |-> "whole", by |-> run, row |-> rowOf[Position],
                                probe |-> probe[Rec]]
                          ELSE matched[r]
      BY <1>3 DEF FillJson, Typed
  <2>4. \A r \in Records : matched'[r].by \in Nat
                             /\ matched'[r].by <= run /\ matched'[r].by >= matched[r].by
                             /\ (matched[r].state # "missing" => matched'[r].state # "missing")
                             /\ (matched[r].by = run => matched'[r].by = run)
      BY <1>0, <2>3 DEF ItemChain
  <2>5. matched'[Rec].state # "missing" /\ matched'[Rec].by = run
      BY <2>2, <2>3
  <2>6. \A k \in DOMAIN items' : items'[k] = it \/ (k \in DOMAIN items /\ items'[k] = items[k])
    <3>1. items \in Seq(Items)
        BY DEF Typed
    <3> HIDE DEF it
    <3> QED BY <2>1, <3>1
  <2>7. \A k \in DOMAIN items' :
            matched'[items'[k].rec].state # "missing" /\ matched'[items'[k].rec].by = run
      BY <1>0, <2>1, <2>4, <2>5, <2>6 DEF ItemChain
  <2>8. ManifestNotAhead'
      BY <1>0, <2>1, <2>4 DEF ItemChain, ManifestNotAhead
  <2> QED BY <1>0, <2>1, <2>4, <2>7, <2>8 DEF ItemChain
<1>4. CASE TruncateManifest
  <2>1. match'.state = "torn" /\ match'.by = match.by /\ match'.items = match.items
      BY <1>4, Zenon DEF TruncateManifest, Typed
  <2>2. pc = "report" /\ pc' = "writing" /\ UNCHANGED <<run, items, matched>>
      BY <1>4 DEF TruncateManifest
  <2> QED BY <2>1, <2>2 DEF ItemChain, ManifestNotAhead
<1>5. CASE FillManifest
  <2>1. match'.by = run /\ match'.items = items /\ pc = "writing" /\ pc' = "off"
      BY <1>5 DEF FillManifest, End
  <2>2. UNCHANGED <<run, items, matched>>
      BY <1>5 DEF FillManifest
  <2> QED BY <1>0, <2>1, <2>2 DEF ItemChain, ManifestNotAhead
<1>6. CASE Load \/ Query \/ RowsEnd \/ JsonsEnd \/ TakeRow
  <2>1. UNCHANGED <<run, items, matched, match>> /\ pc # "off"
          /\ (pc' \in {"load", "query", "rows"} => pc \in {"load", "query", "rows"})
      BY <1>6 DEF Load, Query, RowsEnd, JsonsEnd, TakeRow, End
  <2> QED BY <2>1 DEF ItemChain, ManifestNotAhead
<1>7. CASE Converts \/ LoadFails \/ QueryFails \/ JsonFails \/ ManifestFails \/ Kill
  <2>1. UNCHANGED <<run, items, matched, match>> /\ pc' = "off"
      BY <1>7 DEF Converts, LoadFails, QueryFails, JsonFails, ManifestFails, Kill, End
  <2> QED BY <2>1 DEF ItemChain, ManifestNotAhead
<1>8. CASE UNCHANGED vars
    BY <1>8 DEF vars, ItemChain, ManifestNotAhead
<1> QED BY <1>1, <1>2, <1>3, <1>4, <1>5, <1>6, <1>7, <1>8 DEF Next

\* No wav is listed twice.
LEMMA SortedDistinct ==
    ASSUME NEW S \in SUBSET Records, NEW s \in Sorted(S),
           NEW i \in DOMAIN s, NEW j \in DOMAIN s, s[i] = s[j]
    PROVE  i = j
<1>1. IsFiniteSet(S) /\ Cardinality(S) \in Nat
    BY MatcherAssumption, FS_Subset, FS_CardinalityType
<1>2. /\ DOMAIN s = 1..Cardinality(S) /\ \A k \in DOMAIN s : s[k] \in Nat
      /\ \A k, l \in 1..Cardinality(S) : k < l => s[k] < s[l]
    BY MatcherAssumption DEF Sorted
<1>3. i \in Int /\ j \in Int /\ s[i] \in Nat /\ s[j] \in Nat
    BY <1>1, <1>2
<1>4. ~(i < j) /\ ~(j < i)
    BY <1>2, <1>3
<1> QED BY <1>3, <1>4

\* The positions that are filled are positions of wavs.
LEMMA PositionTyped ==
    ASSUME Typed
    PROVE  /\ Len(items) \in Nat /\ DOMAIN items = 1..Len(items)
           /\ Len(inputs) \in Nat /\ DOMAIN inputs = 1..Len(inputs)
           /\ \A k \in DOMAIN inputs : inputs[k] \in Records /\ k \in Positions
           /\ MoreJsons => Position \in DOMAIN inputs /\ Rec \in Records
           /\ ~MoreJsons <=> Len(items) >= Len(inputs)
<1>1. inputs \in Seq(Records) /\ items \in Seq(Items) /\ DOMAIN inputs \subseteq Positions
    BY DEF Typed
<1>2. /\ Len(items) \in Nat /\ DOMAIN items = 1..Len(items)
      /\ Len(inputs) \in Nat /\ DOMAIN inputs = 1..Len(inputs)
      /\ \A k \in DOMAIN inputs : inputs[k] \in Records
    BY <1>1, LenProperties
<1> QED BY <1>1, <1>2 DEF MoreJsons, Position, Rec

\* The chain of the answer is kept.
LEMMA AnswerStep == MatcherInv /\ AnswerChain /\ [Next]_vars => AnswerChain'
<1> SUFFICES ASSUME MatcherInv, AnswerChain, [Next]_vars PROVE AnswerChain'
    OBVIOUS
<1>1. Typed /\ run \in Nat /\ \A r \in Records : matched[r].by \in Nat /\ matched[r].by <= run
  <2>1. Typed /\ ItemChain
      BY DEF MatcherInv
  <2>2. run \in 0..MaxRuns /\ MaxRuns \in Nat /\ \A r \in Records : matched[r] \in Jsons
      BY <2>1, MatcherAssumption DEF Typed
  <2>3. run \in Nat /\ \A r \in Records : matched[r].by \in Nat
      BY <2>2 DEF Jsons
  <2> QED BY <2>1, <2>3 DEF ItemChain
<1>2. \A k \in DOMAIN inputs : inputs[k] \in Records /\ k \in Positions
    BY <1>1, PositionTyped
<1>3. CASE StartRun
  <2>1. /\ run' = run + 1 /\ inputs' = <<>> /\ answer' = {} /\ left' = {} /\ rowOf' = NoRows
        /\ pc' = "load" /\ matched' = matched
      BY <1>3 DEF StartRun
  <2>2. \A r \in Records : matched'[r].by < run'
      BY <1>1, <2>1
  <2>3. DOMAIN inputs' = {} /\ \A k \in Positions : rowOf'[k] = NoRow
      BY <2>1 DEF NoRows
  <2> QED BY <2>1, <2>2, <2>3 DEF AnswerChain, JsonsUseWholeAnswer
<1>4. CASE Load
  <2>1. /\ UNCHANGED <<run, answer, left, rowOf, matched>> /\ pc = "load"
        /\ pc' \in {"off", "report", "query"} /\ inputs' \in Sorted(WithWav)
      BY <1>4 DEF Load, End
  <2>2. \A i, j \in DOMAIN inputs' : inputs'[i] = inputs'[j] => i = j
    <3>1. WithWav \in SUBSET Records
        BY DEF WithWav
    <3> QED BY <2>1, <3>1, SortedDistinct
  <2>3. \A r \in Records : matched'[r].by < run' /\ matched'[r].by \in Nat /\ run' \in Nat
      BY <1>1, <2>1 DEF AnswerChain
  <2>4. JsonsUseWholeAnswer'
    <3>1. \A k \in DOMAIN inputs' : inputs'[k] \in Records
        BY <2>1, SortedType DEF WithWav
    <3> QED BY <2>3, <3>1 DEF JsonsUseWholeAnswer
  <2> QED BY <2>1, <2>2, <2>3, <2>4 DEF AnswerChain
<1>5. CASE Query
  <2>1. /\ UNCHANGED <<run, inputs, rowOf, matched>> /\ pc = "query" /\ pc' = "rows"
        /\ answer' \subseteq Joined /\ left' = answer'
      BY <1>5 DEF Query
  <2>2. \A r \in Records : matched'[r].by < run' /\ matched'[r].by \in Nat /\ run' \in Nat
      BY <1>1, <2>1 DEF AnswerChain
  <2>3. JsonsUseWholeAnswer'
      BY <1>2, <2>1, <2>2 DEF JsonsUseWholeAnswer
  <2>4. \A k \in Positions : rowOf'[k] = NoRow
      BY <2>1 DEF AnswerChain, NoRows
  <2> QED BY <2>1, <2>2, <2>3, <2>4 DEF AnswerChain, Joined
<1>6. CASE TakeRow
  <2>1. PICK p \in left : rowOf' = [rowOf EXCEPT ![p[1]] = p[2]] /\ left' = left \ {p}
      BY <1>6 DEF TakeRow
  <2>2. UNCHANGED <<run, inputs, answer, matched, pc>> /\ pc = "rows"
      BY <1>6 DEF TakeRow
  <2>3. p \in answer /\ p[1] \in Positions /\ p[2] \in Rows /\ p = <<p[1], p[2]>>
      BY DEF AnswerChain
  <2>4. \A k \in Positions : rowOf'[k] = IF k = p[1] THEN p[2] ELSE rowOf[k]
      BY <1>1, <2>1 DEF Typed
  <2>5. p[2] # NoRow
      BY <2>3, MatcherAssumption
  <2>6. ASSUME NEW k \in Positions
        PROVE  IF rowOf'[k] = NoRow THEN \A q \in answer' : q[1] = k => q \in left'
               ELSE <<k, rowOf'[k]>> \in answer'
    <3>1. CASE k = p[1]
        BY <2>2, <2>3, <2>4, <2>5, <3>1
    <3>2. CASE k # p[1]
        BY <2>1, <2>2, <2>4, <3>2 DEF AnswerChain
    <3> QED BY <3>1, <3>2
  <2>7. JsonsUseWholeAnswer'
      BY <2>2 DEF AnswerChain, JsonsUseWholeAnswer
  <2> QED BY <2>1, <2>2, <2>6, <2>7 DEF AnswerChain
<1>7. CASE TruncateJson
  <2>1. /\ pc' = "filling" /\ pc = "json"
        /\ UNCHANGED <<run, inputs, answer, left, rowOf>>
      BY <1>7 DEF TruncateJson, readVars
  <2>2. \A r \in Records : matched'[r] = matched[r] \/ matched'[r].state = "torn"
      BY <1>1, <1>7 DEF TruncateJson, Typed
  <2>3. JsonsUseWholeAnswer'
      BY <1>2, <2>1, <2>2 DEF AnswerChain, JsonsUseWholeAnswer
  <2> QED BY <2>1, <2>3 DEF AnswerChain
<1>8. CASE FillJson
  <2>1. /\ pc = "filling" /\ pc' = "json"
        /\ UNCHANGED <<run, inputs, answer, left, rowOf>>
      BY <1>8 DEF FillJson, readVars
  <2>2. Position \in DOMAIN inputs /\ Position \in Positions /\ Rec \in Records
      BY <1>1, <2>1, FillingInput
  <2>3. \A r \in Records : matched'[r] =
            IF r = Rec THEN [state |-> "whole", by |-> run, row |-> rowOf[Position],
                             probe |-> probe[Rec]]
            ELSE matched[r]
      BY <1>1, <1>8 DEF FillJson, Typed
  <2>4. left = {} /\ Rec = inputs[Position]
      BY <2>1 DEF AnswerChain, Rec
  <2>5. ASSUME NEW k \in DOMAIN inputs, matched'[inputs[k]].state = "whole",
               matched'[inputs[k]].by = run
        PROVE  IF matched'[inputs[k]].row = NoRow THEN \A p \in answer : p[1] # k
               ELSE <<k, matched'[inputs[k]].row>> \in answer
    <3>1. CASE k = Position
      <4>1. matched'[inputs[k]].row = rowOf[k]
          BY <2>2, <2>3, <2>4, <3>1
      <4> QED BY <2>2, <2>4, <3>1, <4>1 DEF AnswerChain
    <3>2. CASE k # Position
      <4>1. inputs[k] # Rec
          BY <2>2, <2>4, <3>2 DEF AnswerChain
      <4>2. matched'[inputs[k]] = matched[inputs[k]]
          BY <1>2, <2>3, <4>1
      <4> QED BY <2>5, <4>2 DEF AnswerChain, JsonsUseWholeAnswer
    <3> QED BY <3>1, <3>2
  <2>6. JsonsUseWholeAnswer'
      BY <2>1, <2>5 DEF JsonsUseWholeAnswer
  <2> QED BY <2>1, <2>6 DEF AnswerChain
<1>9. CASE UNCHANGED <<run, inputs, answer, left, rowOf, matched>>
           /\ (pc' \in {"load", "query", "rows"} => pc' = pc)
           /\ (pc' \in {"json", "filling"} => pc \in {"json", "filling"} \/ left = {})
    BY <1>9 DEF AnswerChain, JsonsUseWholeAnswer
<1>10. CASE \/ Converts \/ LoadFails \/ RowsEnd \/ QueryFails \/ JsonFails \/ JsonsEnd
            \/ TruncateManifest \/ FillManifest \/ ManifestFails \/ Kill \/ UNCHANGED vars
  <2>1. /\ UNCHANGED <<run, inputs, answer, left, rowOf, matched>>
        /\ (pc' \in {"load", "query", "rows"} => pc' = pc)
        /\ (pc' \in {"json", "filling"} => pc \in {"json", "filling"} \/ left = {})
      BY <1>10 DEF Converts, End, LoadFails, RowsEnd, QueryFails, JsonFails, JsonsEnd,
                   TruncateManifest, FillManifest, ManifestFails, Kill, vars, readVars
  <2> QED BY <1>9, <2>1
<1> QED BY <1>3, <1>4, <1>5, <1>6, <1>7, <1>8, <1>10 DEF Next

\* The chain of the writes is kept.
LEMMA WriteStep == RunInv /\ [Next]_vars => WriteChain'
<1> SUFFICES ASSUME RunInv, [Next]_vars PROVE WriteChain'
    OBVIOUS
<1>1. Typed /\ ItemChain /\ AnswerChain /\ WriteChain
    BY DEF RunInv, MatcherInv
<1>2. /\ Len(items) \in Nat /\ DOMAIN items = 1..Len(items)
      /\ Len(inputs) \in Nat /\ DOMAIN inputs = 1..Len(inputs)
      /\ \A k \in DOMAIN inputs : inputs[k] \in Records
      /\ MoreJsons => Position \in DOMAIN inputs /\ Rec \in Records
      /\ ~MoreJsons <=> Len(items) >= Len(inputs)
    BY <1>1, PositionTyped
<1>3. CASE Converts
  <2>1. UNCHANGED <<run, dry, pc, inputs, items, matched, match>> /\ pc = "off" /\ exit' = "none"
      BY <1>3 DEF Converts, readVars
  <2> QED BY <1>1, <2>1 DEF WriteChain, Written
<1>4. CASE StartRun
  <2>1. inputs' = <<>> /\ items' = <<>> /\ pc' = "load" /\ exit' = "none"
      BY <1>4 DEF StartRun
  <2>2. Len(items') <= Len(inputs') /\ DOMAIN items' = {}
      BY <2>1
  <2> QED BY <2>1, <2>2 DEF WriteChain
<1>5. CASE Load
  <2>1. /\ UNCHANGED <<wav, run, dry, items, matched, match>> /\ pc = "load"
        /\ inputs' \in Sorted(WithWav) /\ WithWav' = WithWav
        /\ pc' \in {"off", "query", "report"} /\ (pc' = "report" => dry)
        /\ (pc' # "off" => exit' = exit) /\ (pc' = "off" => inputs' = <<>>)
      BY <1>5 DEF Load, End, stageVars, WithWav
  <2>2. items = <<>> /\ DOMAIN items = {} /\ Len(items) = 0
      BY <1>1, <2>1 DEF ItemChain
  <2>3. Len(inputs') \in Nat
    <3>1. WithWav \in SUBSET Records
        BY DEF WithWav
    <3> QED BY <2>1, <3>1, SortedType, LenProperties
  <2>4. exit = "none"
      BY <1>1, <2>1 DEF WriteChain
  <2> QED BY <2>1, <2>2, <2>3, <2>4 DEF WriteChain
<1>6. CASE TruncateJson
  <2>1. /\ UNCHANGED <<wav, run, dry, inputs, items, match, exit>>
        /\ pc = "json" /\ pc' = "filling" /\ MoreJsons
      BY <1>6 DEF TruncateJson, stageVars, readVars
  <2>2. \A r \in Records \ {Rec} : matched'[r] = matched[r]
      BY <1>1, <1>6 DEF TruncateJson, Typed
  <2>3. ASSUME NEW k \in DOMAIN items
        PROVE  items[k].rec = inputs[k] /\ Written(items[k])'
    <3>1. items[k].rec = inputs[k] /\ Written(items[k])
        BY <1>1 DEF WriteChain
    <3>2. k \in DOMAIN inputs /\ k # Position
        BY <1>1, <1>2 DEF WriteChain, Position
    <3>3. inputs[k] \in Records \ {Rec}
        BY <1>1, <1>2, <2>1, <3>2 DEF AnswerChain, Rec
    <3> QED BY <2>1, <2>2, <3>1, <3>3 DEF Written
  <2>4. WithWav' = WithWav /\ exit' = "none"
      BY <1>1, <2>1 DEF WithWav, WriteChain
  <2> QED BY <1>1, <2>1, <2>3, <2>4 DEF WriteChain
<1>7. CASE FillJson
  <2>1. PICK it : it = [rec |-> Rec, lookupOK |-> LookupOK(Position)]
      OBVIOUS
  <2>2. /\ UNCHANGED <<wav, run, dry, inputs, match, exit>>
        /\ pc = "filling" /\ pc' = "json" /\ items' = Append(items, it)
      BY <1>7, <2>1 DEF FillJson, stageVars, readVars
  <2>3. MoreJsons /\ Rec \in Records /\ Position = Len(items) + 1 /\ Position \in DOMAIN inputs
      BY <1>1, <1>2, <2>2 DEF Typed, Position
  <2>4. \A r \in Records : matched'[r] =
            IF r = Rec THEN [state |-> "whole", by |-> run, row |-> rowOf[Position],
                             probe |-> probe[Rec]]
            ELSE matched[r]
      BY <1>1, <1>7 DEF FillJson, Typed
  <2>5. it.rec = Rec /\ (it.lookupOK <=> rowOf[Position] # NoRow)
      BY <2>1 DEF LookupOK
  <2>6. it.rec = inputs[Position] /\ Written(it)'
      BY <2>2, <2>3, <2>4, <2>5 DEF Written, Rec
  <2>7. ASSUME NEW k \in DOMAIN items
        PROVE  items[k].rec = inputs[k] /\ Written(items[k])'
    <3>1. items[k].rec = inputs[k] /\ Written(items[k])
        BY <1>1 DEF WriteChain
    <3>2. k \in DOMAIN inputs /\ k # Position
        BY <1>1, <1>2 DEF WriteChain, Position
    <3>3. inputs[k] \in Records \ {Rec}
        BY <1>1, <1>2, <2>3, <3>2 DEF AnswerChain, Rec
    <3>4. PICK old : old = items[k]
        OBVIOUS
    <3>5. Written(old)'
        BY <2>2, <2>4, <3>1, <3>3, <3>4 DEF Written
    <3>6. items[k]' = old
        BY <1>1, <2>2, <3>4 DEF Typed
    <3> QED BY <3>1, <3>5, <3>6 DEF Written
  <2>8. /\ Len(items') = Len(items) + 1 /\ DOMAIN items' = 1..(Len(items) + 1)
        /\ \A k \in DOMAIN items : items'[k] = items[k]
        /\ items'[Position] = it
    <3>1. items \in Seq(Items) /\ it \in Items
        BY <1>1, <2>1, <2>3 DEF Typed, Items, LookupOK
    <3> QED BY <2>2, <2>3, <3>1, AppendProperties, LenProperties
  <2>9. \A k \in DOMAIN items' : items'[k].rec = inputs'[k] /\ Written(items[k])'
    <3>1. SUFFICES ASSUME NEW k \in DOMAIN items'
                   PROVE  items'[k].rec = inputs'[k] /\ Written(items[k])'
        OBVIOUS
    <3>2. CASE k \in DOMAIN items
        BY <2>2, <2>7, <2>8, <3>2
    <3>3. CASE k = Position
        BY <2>2, <2>6, <2>8, <3>3 DEF Written
    <3> QED BY <1>2, <2>3, <2>8, <3>1, <3>2, <3>3
  <2>10. WithWav' = WithWav /\ exit' = "none"
      BY <1>1, <2>2 DEF WithWav, WriteChain
  <2>11. Len(items') <= Len(inputs')
      BY <1>2, <2>2, <2>3, <2>8
  <2> QED BY <1>1, <2>2, <2>9, <2>10, <2>11 DEF WriteChain
<1>8. CASE TruncateManifest
  <2>1. /\ UNCHANGED <<wav, run, dry, inputs, items, matched, exit>>
        /\ pc = "report" /\ pc' = "writing"
      BY <1>8 DEF TruncateManifest, stageVars, readVars
  <2>2. WithWav' = WithWav /\ exit' = "none" /\ (MoreJsons' <=> MoreJsons)
      BY <1>1, <2>1 DEF WithWav, WriteChain, MoreJsons, Position
  <2> QED BY <1>1, <2>1, <2>2 DEF WriteChain, Written
<1>9. CASE FillManifest
  <2>1. /\ UNCHANGED <<wav, run, dry, inputs, items, matched>>
        /\ pc = "writing" /\ pc' = "off"
        /\ match'.state = "whole" /\ match'.by = run /\ match'.items = items
      BY <1>9 DEF FillManifest, End, stageVars, readVars
  <2>2. WithWav' = WithWav /\ (MoreJsons' <=> MoreJsons)
      BY <2>1 DEF WithWav, MoreJsons, Position
  <2> QED BY <1>1, <2>1, <2>2 DEF WriteChain, Written
<1>10. CASE LoadFails \/ QueryFails \/ JsonFails \/ ManifestFails \/ Kill
  <2>1. /\ UNCHANGED <<run, dry, inputs, items, matched, match>>
        /\ pc' = "off" /\ exit' \in {"error", "killed"}
      BY <1>10 DEF LoadFails, QueryFails, JsonFails, ManifestFails, Kill, End, readVars
  <2> QED BY <1>1, <2>1 DEF WriteChain, Written
<1>11. CASE Query \/ TakeRow \/ RowsEnd \/ JsonsEnd
  <2>1. /\ UNCHANGED <<wav, run, dry, inputs, items, matched, match, exit>>
        /\ pc \notin {"off", "load"} /\ pc' # "off"
        /\ pc' = "report" => ~MoreJsons
        /\ pc' # "writing"
      BY <1>11 DEF Query, TakeRow, RowsEnd, JsonsEnd, stageVars, readVars
  <2>2. WithWav' = WithWav /\ (MoreJsons' <=> MoreJsons)
      BY <2>1 DEF WithWav, MoreJsons, Position
  <2> QED BY <1>1, <2>1, <2>2 DEF WriteChain, Written
<1>12. CASE UNCHANGED vars
  <2>1. /\ UNCHANGED <<wav, run, dry, pc, inputs, items, matched, match, exit>>
      BY <1>12 DEF vars, stageVars, readVars
  <2>2. WithWav' = WithWav /\ (MoreJsons' <=> MoreJsons)
      BY <2>1 DEF WithWav, MoreJsons, Position
  <2> QED BY <1>1, <2>1, <2>2 DEF WriteChain, Written
<1> QED BY <1>3, <1>4, <1>5, <1>6, <1>7, <1>8, <1>9, <1>10, <1>11, <1>12 DEF Next

-----------------------------------------------------------------------------
(* Theorems.                                                               *)

\* The inductive invariant of the match stage.
THEOREM MatcherInvariant == Spec => []MatcherInv
<1>1. MatcherInv /\ [Next]_vars => MatcherInv'
    BY TypedStep, ProbeStep, RowStep, ItemStep DEF MatcherInv
<1> QED BY InitInv, <1>1, PTL DEF Spec

\* If ffprobe rejects every wav that was cut short, a json that the uploader
\* accepts speaks of whole audio, for every set of records and whatever runs of
\* the two stages came before.
THEOREM OnlyWholeAudioIsSendable == Spec => []SendableIsWhole
<1>1. MatcherInv => SendableIsWhole
    BY DEF MatcherInv, ProbeChain, ProbeHolds, SendableIsWhole, Sendable
<1> QED BY <1>1, MatcherInvariant, PTL

\* No json holds the row of another record's call.
THEOREM RowsAreNotMixed == Spec => []RowsStayWithRecord
<1>1. MatcherInv => RowsStayWithRecord
    BY DEF MatcherInv, RowChain
<1> QED BY <1>1, MatcherInvariant, PTL

\* match.json never lists a json that was not written.
THEOREM ManifestIsBacked == Spec => []ManifestNotAhead
<1>1. MatcherInv => ManifestNotAhead
    BY DEF MatcherInv, ItemChain
<1> QED BY <1>1, MatcherInvariant, PTL

\* The answer and the writes of the match stage: their invariant.
THEOREM RunInvariant == Spec => []RunInv
<1>1. Init => RunInv
  <2> SUFFICES ASSUME Init PROVE RunInv
      OBVIOUS
  <2>1. AnswerChain
    <3>1. \A k \in Positions : rowOf[k] = NoRow
        BY DEF Init, NoRows
    <3> QED BY <3>1 DEF Init, AnswerChain, JsonsUseWholeAnswer
  <2>2. WriteChain
      BY DEF Init, WriteChain
  <2> QED BY <2>1, <2>2, InitInv DEF RunInv
<1>2. RunInv /\ [Next]_vars => RunInv'
  <2>1. MatcherInv /\ [Next]_vars => MatcherInv'
      BY TypedStep, ProbeStep, RowStep, ItemStep DEF MatcherInv
  <2> QED BY <2>1, AnswerStep, WriteStep DEF RunInv
<1> QED BY <1>1, <1>2, PTL DEF Spec

\* Every json of a run is made of the complete answer of the database: what it
\* says of a record is not an accident of how far the rows had come.
THEOREM AnswersAreWhole == Spec => []JsonsUseWholeAnswer
<1>1. RunInv => JsonsUseWholeAnswer
    BY DEF RunInv, AnswerChain
<1> QED BY <1>1, RunInvariant, PTL

\* A real run that exits 0 lists every wav once, in order, with the lookup flag
\* of the json that it has written for it.
THEOREM ManifestIsExact == Spec => []ManifestMatchesJsons
<1>1. RunInv => ManifestMatchesJsons
  <2> SUFFICES ASSUME RunInv, exit = "ok", ~dry, inputs # <<>>
               PROVE  /\ match.state = "whole" /\ match.by = run
                      /\ [k \in DOMAIN match.items |-> match.items[k].rec] \in Sorted(WithWav)
                      /\ \A k \in DOMAIN match.items : Written(match.items[k])
      BY DEF ManifestMatchesJsons, Written
  <2>1. Typed /\ WriteChain
      BY DEF RunInv, MatcherInv
  <2>2. /\ match.state = "whole" /\ match.by = run /\ match.items = items
        /\ inputs \in Sorted(WithWav) /\ ~MoreJsons
      BY <2>1 DEF WriteChain
  <2>3. /\ Len(items) \in Nat /\ DOMAIN items = 1..Len(items)
        /\ Len(inputs) \in Nat /\ DOMAIN inputs = 1..Len(inputs)
        /\ Len(items) = Len(inputs)
    <3>1. /\ Len(items) \in Nat /\ DOMAIN items = 1..Len(items)
          /\ Len(inputs) \in Nat /\ DOMAIN inputs = 1..Len(inputs)
          /\ Len(items) >= Len(inputs)
        BY <2>1, <2>2, PositionTyped
    <3>2. Len(items) <= Len(inputs)
        BY <2>1 DEF WriteChain
    <3> DEFINE m == Len(items)
               n == Len(inputs)
    <3>3. m \in Nat /\ n \in Nat /\ m >= n /\ m <= n
        BY <3>1, <3>2
    <3> HIDE DEF m, n
    <3>4. m = n
        BY <3>3
    <3> QED BY <3>1, <3>4 DEF m, n
  <2>4. inputs = [k \in DOMAIN inputs |-> inputs[k]]
      BY <2>1 DEF Typed
  <2>5. [k \in DOMAIN items |-> items[k].rec] = inputs
      BY <2>1, <2>3, <2>4 DEF WriteChain
  <2> QED BY <2>1, <2>2, <2>5 DEF WriteChain
<1> QED BY <1>1, RunInvariant, PTL
=============================================================================
