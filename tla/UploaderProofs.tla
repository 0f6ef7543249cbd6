--------------------------- MODULE UploaderProofs ---------------------------
(***************************************************************************)
(* Proofs about Uploader, for every set of runs, of records and of lists.  *)
(* First the numbers of upload.json: they agree with its items at every    *)
(* turn of the loop, the item being sent included (CountInv).  Then what   *)
(* the runs do on the server (SendInv, which extends it): the json goes    *)
(* before the wav, what is reported as sent is stored, and what is stored  *)
(* is reported, as long as a run has the remote paths for itself.          *)
(***************************************************************************)
EXTENDS Uploader, FiniteSetTheorems, SequenceTheorems, TLAPS

-----------------------------------------------------------------------------
(* The inductive invariant.                                                *)

\* What holds of one run: an item is being sent only while the list still has
\* one, and never in a dry run; nothing is reported before the start; and the
\* report is balanced.
CountOf(u) ==
    /\ Sending(u) => Pending(u)
    /\ pc[u] \in {"connect", "open", "copy"} => ~dry[u]
    /\ pc[u] = "idle" => report[u] = EmptyReport
    /\ (pc[u] = "exited" /\ exit[u] = "killed") \/ Balanced(report[u], InFlight(u))

CountInv == TypeOK /\ \A u \in Uploaders : CountOf(u)

-----------------------------------------------------------------------------
(* Items.                                                                  *)

Reports == [valid : Nat, skipped : Nat, counts : [CountKeys -> Nat], items : Seq(Items)]

\* One more item adds one to the items with its status and to no other.
LEMMA FinalAppend ==
    ASSUME NEW items \in Seq(Items), NEW it \in Items, NEW s
    PROVE  /\ Cardinality(Final(items, s)) \in Nat
           /\ Cardinality(Final(Append(items, it), s)) =
                Cardinality(Final(items, s)) + (IF it.status = s THEN 1 ELSE 0)
<1> DEFINE n == Len(items)
<1>1. /\ n \in Nat /\ DOMAIN items = 1..n
      /\ DOMAIN Append(items, it) = 1..(n + 1)
      /\ \A i \in 1..n : Append(items, it)[i] = items[i]
      /\ Append(items, it)[n + 1] = it
    BY AppendProperties, LenProperties
<1>2. IsFiniteSet(Final(items, s))
  <2> HIDE DEF n
  <2>1. IsFiniteSet(1..n)
      BY <1>1, FS_Interval
  <2>2. Final(items, s) \in SUBSET (1..n)
      BY <1>1 DEF Final
  <2> QED BY <2>1, <2>2, FS_Subset
<1>3. Cardinality(Final(items, s)) \in Nat
    BY <1>2, FS_CardinalityType
<1>4. n + 1 \notin Final(items, s)
    BY <1>1 DEF Final
<1>5. CASE it.status = s
  <2>1. Final(Append(items, it), s) = Final(items, s) \cup {n + 1}
      BY <1>1, <1>5 DEF Final
  <2> QED BY <1>2, <1>3, <1>4, <1>5, <2>1, FS_AddElement
<1>6. CASE it.status # s
  <2>1. Final(Append(items, it), s) = Final(items, s)
      BY <1>1, <1>6 DEF Final
  <2> QED BY <1>3, <1>6, <2>1
<1> QED BY <1>5, <1>6, <1>3

\* A report that starts empty is balanced.
LEMMA EmptyBalanced == EmptyReport \in Reports /\ Balanced(EmptyReport, 0)
<1>1. \A s : Final(<<>>, s) = {}
    BY DEF Final
<1>2. /\ EmptyReport.items = <<>> /\ EmptyReport.valid = 0 /\ EmptyReport.skipped = 0
      /\ EmptyReport.counts = [c \in CountKeys |-> 0]
    BY DEF EmptyReport
<1>3. EmptyReport \in Reports
    BY DEF EmptyReport, Reports
<1>4. \A s : Cardinality(Final(EmptyReport.items, s)) = 0
    BY <1>1, <1>2, FS_EmptySet
<1>5. \A c \in CountKeys : EmptyReport.counts[c] = 0
    BY <1>2
<1>6. {"skipped_parse", "skipped_validation", "skipped_prepare", "send_error"} \subseteq CountKeys
    BY DEF CountKeys, SkipStatus
<1> QED BY <1>2, <1>3, <1>4, <1>5, <1>6 DEF Balanced

\* The keys of the counts are distinct, and "prepared" is not one of them.
LEMMA Keys ==
    /\ {"skipped_parse", "skipped_validation", "skipped_prepare", "send_error", "sent"}
         = CountKeys
    /\ SkipStatus = {"skipped_parse", "skipped_validation", "skipped_prepare"}
    /\ "prepared" \notin CountKeys
BY DEF CountKeys, SkipStatus

\* A skipped item, counted once, keeps the report balanced.
LEMMA SkipBalanced ==
    ASSUME NEW r \in Reports, NEW s \in SkipStatus, NEW it \in Items, it.status = s,
           Balanced(r, 0)
    PROVE  LET q == [valid |-> r.valid, skipped |-> r.skipped + 1,
                      counts |-> Count(r, s), items |-> Append(r.items, it)]
           IN  q \in Reports /\ Balanced(q, 0)
<1> DEFINE q == [valid |-> r.valid, skipped |-> r.skipped + 1,
                  counts |-> Count(r, s), items |-> Append(r.items, it)]
<1>1. /\ q.valid = r.valid /\ q.skipped = r.skipped + 1
      /\ q.counts = [r.counts EXCEPT ![s] = @ + 1]
      /\ q.items = Append(r.items, it)
    BY DEF Reports, Count
<1>2. Append(r.items, it) \in Seq(Items)
    BY AppendProperties DEF Reports
<1>3. q \in Reports
  <2>1. s \in CountKeys
      BY DEF CountKeys
  <2>2. q.counts \in [CountKeys -> Nat]
      BY <1>1, <2>1 DEF Reports
  <2> QED BY <1>1, <1>2, <2>2 DEF Reports
<1>4. \A t : /\ Cardinality(Final(r.items, t)) \in Nat
             /\ Cardinality(Final(q.items, t)) =
                  Cardinality(Final(r.items, t)) + (IF it.status = t THEN 1 ELSE 0)
    BY <1>1, FinalAppend DEF Reports
<1> HIDE DEF q
<1>5. ASSUME NEW c \in CountKeys  PROVE q.counts[c] = Cardinality(Final(q.items, c))
  <2>1. r.counts \in [CountKeys -> Nat] /\ r.counts[c] = Cardinality(Final(r.items, c))
      BY DEF Balanced, Reports
  <2>2. q.counts[c] = r.counts[c] + (IF c = s THEN 1 ELSE 0)
      BY <1>1, <2>1
  <2> QED BY <1>4, <2>1, <2>2
<1>6. q.skipped = q.counts["skipped_parse"] + q.counts["skipped_validation"]
                    + q.counts["skipped_prepare"] + q.counts["send_error"]
  <2>1. r.counts \in [CountKeys -> Nat] /\ r.skipped \in Nat
      BY DEF Reports
  <2>2. r.skipped = r.counts["skipped_parse"] + r.counts["skipped_validation"]
                      + r.counts["skipped_prepare"] + r.counts["send_error"]
      BY DEF Balanced
  <2>3. \A c \in CountKeys : q.counts[c] = r.counts[c] + (IF c = s THEN 1 ELSE 0)
      BY <1>1, <2>1
  <2>4. \A c \in CountKeys : r.counts[c] \in Nat
      BY <2>1
  <2>5. q.skipped = r.skipped + 1
      BY <1>1
  <2>6. r.counts["send_error"] = q.counts["send_error"] /\ r.counts["send_error"] \in Nat
      BY <2>3, <2>4, Keys
  <2>7. CASE s = "skipped_parse"
      BY <2>1, <2>2, <2>3, <2>4, <2>5, <2>6, <2>7, Keys
  <2>8. CASE s = "skipped_validation"
      BY <2>1, <2>2, <2>3, <2>4, <2>5, <2>6, <2>8, Keys
  <2>9. CASE s = "skipped_prepare"
      BY <2>1, <2>2, <2>3, <2>4, <2>5, <2>6, <2>9, Keys
  <2> QED BY <2>7, <2>8, <2>9, Keys
<1>7. q.valid = Cardinality(Final(q.items, "sent")) + Cardinality(Final(q.items, "prepared"))
  <2>1. r.valid = Cardinality(Final(r.items, "sent")) + Cardinality(Final(r.items, "prepared"))
      BY <1>4 DEF Balanced
  <2>2. it.status # "sent" /\ it.status # "prepared"
      BY DEF SkipStatus
  <2>3. q.valid = r.valid
      BY <1>1
  <2> QED BY <1>4, <2>1, <2>2, <2>3
<1>8. Balanced(q, 0)
    BY <1>4, <1>5, <1>6, <1>7 DEF Balanced
<1> QED BY <1>3, <1>8 DEF q

\* What the other two ways to add an item have in common: the item goes to the
\* items and its count, and valid keeps the balance.
LEMMA AppendBalanced ==
    ASSUME NEW r \in Reports, NEW q \in Reports, NEW it \in Items, NEW inFlight \in {0, 1},
           Balanced(r, inFlight),
           it.status \in {"sent", "send_error", "prepared"},
           q.items = Append(r.items, it),
           q.counts = IF it.status = "prepared" THEN r.counts
                      ELSE [r.counts EXCEPT ![it.status] = @ + 1],
           q.skipped = r.skipped + (IF it.status = "send_error" THEN 1 ELSE 0),
           q.valid = r.valid + (IF it.status = "send_error" THEN 0 ELSE 1)
                             - inFlight
    PROVE  Balanced(q, 0)
<1>1. \A t : /\ Cardinality(Final(r.items, t)) \in Nat
             /\ Cardinality(Final(q.items, t)) =
                  Cardinality(Final(r.items, t)) + (IF it.status = t THEN 1 ELSE 0)
    BY FinalAppend DEF Reports
<1>2. ASSUME NEW c \in CountKeys  PROVE q.counts[c] = Cardinality(Final(q.items, c))
  <2>1. r.counts \in [CountKeys -> Nat] /\ r.counts[c] = Cardinality(Final(r.items, c))
      BY DEF Balanced, Reports
  <2>2. "prepared" \notin CountKeys
      BY DEF CountKeys, SkipStatus
  <2>3. q.counts[c] = r.counts[c] + (IF c = it.status THEN 1 ELSE 0)
      BY <2>1, <2>2
  <2> QED BY <1>1, <2>1, <2>3
<1>3. q.skipped = q.counts["skipped_parse"] + q.counts["skipped_validation"]
                    + q.counts["skipped_prepare"] + q.counts["send_error"]
  <2>1. r.counts \in [CountKeys -> Nat] /\ r.skipped \in Nat
      BY DEF Reports
  <2>2. r.skipped = r.counts["skipped_parse"] + r.counts["skipped_validation"]
                      + r.counts["skipped_prepare"] + r.counts["send_error"]
      BY DEF Balanced
  <2>3. \A c \in CountKeys : q.counts[c] = r.counts[c] + (IF c = it.status THEN 1 ELSE 0)
      BY <2>1, Keys
  <2>4. \A c \in CountKeys : r.counts[c] \in Nat
      BY <2>1
  <2>5. CASE it.status = "send_error"
    <3>1. q.counts["send_error"] = r.counts["send_error"] + 1
        BY <2>3, <2>5, Keys
    <3>2. \A c \in SkipStatus : q.counts[c] = r.counts[c]
        BY <2>3, <2>4, <2>5, Keys
    <3>3. q.skipped = r.skipped + 1
        BY <2>5
    <3> QED BY <2>1, <2>2, <2>4, <3>1, <3>2, <3>3, Keys
  <2>6. CASE it.status # "send_error"
    <3>1. \A c \in SkipStatus \cup {"send_error"} : q.counts[c] = r.counts[c]
        BY <2>3, <2>4, <2>6, Keys
    <3>2. q.skipped = r.skipped
        BY <2>1, <2>6
    <3> QED BY <2>2, <3>1, <3>2, Keys
  <2> QED BY <2>5, <2>6
<1>4. q.valid = Cardinality(Final(q.items, "sent")) + Cardinality(Final(q.items, "prepared"))
  <2>1. r.valid = Cardinality(Final(r.items, "sent")) + Cardinality(Final(r.items, "prepared"))
                    + inFlight
      BY DEF Balanced
  <2>2. r.valid \in Nat
      BY DEF Reports
  <2> QED BY <1>1, <2>1, <2>2
<1> QED BY <1>1, <1>2, <1>3, <1>4 DEF Balanced

\* An error takes back the item that was counted valid.
LEMMA ErrorBalanced ==
    ASSUME NEW r \in Reports, NEW it \in Items, it.status = "send_error",
           Balanced(r, 1)
    PROVE  LET q == [valid |-> r.valid - 1, skipped |-> r.skipped + 1,
                      counts |-> Count(r, "send_error"), items |-> Append(r.items, it)]
           IN  q \in Reports /\ Balanced(q, 0)
<1> DEFINE q == [valid |-> r.valid - 1, skipped |-> r.skipped + 1,
                  counts |-> Count(r, "send_error"), items |-> Append(r.items, it)]
<1>1. /\ q.valid = r.valid - 1 /\ q.skipped = r.skipped + 1
      /\ q.counts = [r.counts EXCEPT !["send_error"] = @ + 1]
      /\ q.items = Append(r.items, it)
    BY DEF Reports, Count
<1>2. Append(r.items, it) \in Seq(Items)
    BY AppendProperties DEF Reports
<1>3. r.valid - 1 \in Nat
  <2>1. \A t : Cardinality(Final(r.items, t)) \in Nat
      BY FinalAppend DEF Reports
  <2> QED BY <2>1 DEF Balanced, Reports
<1>4. q \in Reports
    BY <1>1, <1>2, <1>3 DEF Reports, Count, CountKeys
<1> HIDE DEF q
<1>5. Balanced(q, 0)
  <2>1. r.valid \in Nat
      BY DEF Reports
  <2>2. q.valid = r.valid + (IF it.status = "send_error" THEN 0 ELSE 1)
                          - 1
      BY <1>1, <2>1
  <2>3. q.skipped = r.skipped + (IF it.status = "send_error" THEN 1 ELSE 0)
      BY <1>1
  <2>4. q.counts = IF it.status = "prepared" THEN r.counts
                   ELSE [r.counts EXCEPT ![it.status] = @ + 1]
      BY <1>1
  <2> QED BY <1>1, <1>4, <2>2, <2>3, <2>4, AppendBalanced
<1> QED BY <1>4, <1>5 DEF q

\* An item that was sent was already counted valid.
LEMMA SentBalanced ==
    ASSUME NEW r \in Reports, NEW it \in Items, it.status = "sent", Balanced(r, 1)
    PROVE  LET q == [valid |-> r.valid, skipped |-> r.skipped,
                      counts |-> Count(r, "sent"), items |-> Append(r.items, it)]
           IN  q \in Reports /\ Balanced(q, 0)
<1> DEFINE q == [valid |-> r.valid, skipped |-> r.skipped,
                      counts |-> Count(r, "sent"), items |-> Append(r.items, it)]
<1>1. /\ q.valid = r.valid /\ q.skipped = r.skipped
      /\ q.counts = [r.counts EXCEPT !["sent"] = @ + 1]
      /\ q.items = Append(r.items, it)
    BY DEF Reports, Count
<1>2. Append(r.items, it) \in Seq(Items)
    BY AppendProperties DEF Reports
<1>3. q \in Reports
    BY <1>1, <1>2 DEF Reports, Count, CountKeys
<1> HIDE DEF q
<1>4. Balanced(q, 0)
  <2>1. r.valid \in Nat /\ r.skipped \in Nat
      BY DEF Reports
  <2>2. q.valid = r.valid + (IF it.status = "send_error" THEN 0 ELSE 1)
                          - 1
      BY <1>1, <2>1
  <2>3. q.skipped = r.skipped + (IF it.status = "send_error" THEN 1 ELSE 0)
      BY <1>1, <2>1
  <2>4. q.counts = IF it.status = "prepared" THEN r.counts
                   ELSE [r.counts EXCEPT ![it.status] = @ + 1]
      BY <1>1
  <2> QED BY <1>1, <1>3, <2>2, <2>3, <2>4, AppendBalanced
<1> QED BY <1>3, <1>4 DEF q

\* A prepared item is counted valid: at once in the items of a dry run, as the
\* item being sent in a real one.
LEMMA PrepareBalanced ==
    ASSUME NEW r \in Reports, NEW it \in Items, it.status = "prepared",
           NEW isDry \in BOOLEAN, Balanced(r, 0)
    PROVE  LET q == [valid |-> r.valid + 1, skipped |-> r.skipped, counts |-> r.counts,
                      items |-> IF isDry THEN Append(r.items, it) ELSE r.items]
           IN  q \in Reports /\ Balanced(q, IF isDry THEN 0 ELSE 1)
<1> DEFINE q == [valid |-> r.valid + 1, skipped |-> r.skipped, counts |-> r.counts,
                  items |-> IF isDry THEN Append(r.items, it) ELSE r.items]
<1>1. /\ q.valid = r.valid + 1 /\ q.skipped = r.skipped /\ q.counts = r.counts
      /\ q.items = IF isDry THEN Append(r.items, it) ELSE r.items
    BY DEF Reports
<1>2. Append(r.items, it) \in Seq(Items)
    BY AppendProperties DEF Reports
<1>3. q \in Reports
    BY <1>1, <1>2 DEF Reports
<1> HIDE DEF q
<1>4. ASSUME isDry  PROVE Balanced(q, 0)
  <2>1. r.valid \in Nat /\ r.skipped \in Nat
      BY DEF Reports
  <2>2. q.valid = r.valid + (IF it.status = "send_error" THEN 0 ELSE 1)
                          - 0
      BY <1>1, <2>1
  <2>3. q.skipped = r.skipped + (IF it.status = "send_error" THEN 1 ELSE 0)
      BY <1>1, <2>1
  <2>4. q.counts = IF it.status = "prepared" THEN r.counts
                   ELSE [r.counts EXCEPT ![it.status] = @ + 1]
      BY <1>1
  <2> QED BY <1>1, <1>3, <1>4, <2>2, <2>3, <2>4, AppendBalanced
<1>5. ASSUME ~isDry  PROVE Balanced(q, 1)
  <2>1. \A t : Cardinality(Final(r.items, t)) \in Nat
      BY FinalAppend DEF Reports
  <2>2. q.items = r.items
      BY <1>1, <1>5
  <2> QED BY <1>1, <2>1, <2>2 DEF Balanced, Reports
<1>6. Balanced(q, IF isDry THEN 0 ELSE 1)
    BY <1>4, <1>5
<1> QED BY <1>3, <1>6 DEF q
-----------------------------------------------------------------------------
(* Every action preserves the invariant.                                   *)

\* An empty report balances.
LEMMA InitCount == Init => CountInv
<1> SUFFICES ASSUME Init PROVE CountInv
    OBVIOUS
<1>1. TypeOK
    BY EmptyBalanced DEF Init, TypeOK, Files, Reports
<1>2. ASSUME NEW u \in Uploaders  PROVE CountOf(u)
  <2>1. pc[u] = "idle" /\ report[u] = EmptyReport /\ ~Sending(u)
      BY DEF Init, Sending, InFlight
  <2>2. Balanced(report[u], InFlight(u))
      BY <2>1, EmptyBalanced DEF InFlight
  <2> QED BY <2>1, <2>2 DEF CountOf
<1> QED BY <1>1, <1>2 DEF CountInv

\* The item of the loop is an item.
LEMMA ItemTyped ==
    ASSUME TypeOK, NEW u \in Uploaders, Pending(u), NEW s \in Status
    PROVE  Rec(u) \in Records /\ Item(u, s) \in Items /\ Item(u, s).status = s
<1>1. list[u] \in Seq(Records)
  <2>1. <<>> \in Seq(Records)
      OBVIOUS
  <2> QED BY <2>1, UploaderAssumption DEF TypeOK
<1>2. Len(report[u].items) \in Nat
    BY LenProperties DEF TypeOK
<1>3. Rec(u) \in Records
    BY <1>1, <1>2, LenProperties DEF Rec, Pending
<1> QED BY <1>3 DEF Item, Items

\* A step of one run that changes its pc, its exit, its list and its report
\* only, keeps the invariant if it keeps that run's part of it.
LEMMA StepOfOne ==
    ASSUME CountInv, TypeOK', NEW u \in Uploaders, CountOf(u)', dry' = dry,
           \A v \in Uploaders \ {u} :
               /\ pc'[v] = pc[v] /\ exit'[v] = exit[v]
               /\ list'[v] = list[v] /\ report'[v] = report[v]
    PROVE  CountInv'
<1>1. ASSUME NEW v \in Uploaders \ {u}  PROVE CountOf(v)'
    BY DEF CountInv, CountOf, Sending, Pending, InFlight
<1> QED BY <1>1 DEF CountInv

\* Start, the connection and the end of the run do not touch the report.
LEMMA OutsideLoop ==
    ASSUME CountInv, NEW u \in Uploaders,
           \/ Start(u) \/ Connect(u) \/ ConnectFails(u) \/ LoopEnds(u)
           \/ TruncateReport(u) \/ FillReport(u) \/ ReportLost(u)
    PROVE  CountInv'
<1>1. TypeOK'
  <2>1. CASE Start(u)
    <3>1. dry[u] \in BOOLEAN
        BY DEF CountInv, TypeOK
    <3>2. \E l \in Lists \cup {<<>>} : list' = [list EXCEPT ![u] = l]
        BY <2>1 DEF Start
    <3>3. list' \in [Uploaders -> Lists \cup {<<>>}]
        BY <3>2 DEF CountInv, TypeOK
    <3>4. \/ pc' = [pc EXCEPT ![u] = "exited"] /\ exit' = [exit EXCEPT ![u] = "ok"]
          \/ pc' = [pc EXCEPT ![u] = IF dry[u] THEN "next" ELSE "connect"] /\ exit' = exit
        BY <2>1 DEF Start, Goto, Exit
    <3>5. UNCHANGED <<dry, report, file, disk, remote, mixed>>
        BY <2>1 DEF Start
    <3>6. /\ pc' \in [Uploaders -> {"idle", "connect", "next", "open", "copy", "report",
                                    "writing", "exited"}]
          /\ exit' \in [Uploaders -> {"none", "ok", "fatal", "killed"}]
      <4>1. CASE pc' = [pc EXCEPT ![u] = "exited"] /\ exit' = [exit EXCEPT ![u] = "ok"]
          BY <4>1 DEF CountInv, TypeOK
      <4>2. CASE pc' = [pc EXCEPT ![u] = IF dry[u] THEN "next" ELSE "connect"] /\ exit' = exit
          BY <4>2 DEF CountInv, TypeOK
      <4> QED BY <3>4, <4>1, <4>2
    <3> QED BY <3>3, <3>5, <3>6 DEF CountInv, TypeOK
  <2>2. CASE Connect(u) \/ ConnectFails(u) \/ LoopEnds(u)
    <3>1. \E x \in {"next", "exited", "report"} : pc' = [pc EXCEPT ![u] = x]
        BY <2>2 DEF Connect, ConnectFails, LoopEnds, Goto, Exit
    <3>2. exit' = exit \/ exit' = [exit EXCEPT ![u] = "fatal"]
        BY <2>2 DEF Connect, ConnectFails, LoopEnds, Exit
    <3>3. UNCHANGED <<dry, list, report, file, disk, remote, mixed>>
        BY <2>2 DEF Connect, ConnectFails, LoopEnds
    <3> QED BY <3>1, <3>2, <3>3 DEF CountInv, TypeOK
  <2>3. CASE TruncateReport(u) \/ FillReport(u) \/ ReportLost(u)
    <3>1. \E x \in {"writing", "exited"} : pc' = [pc EXCEPT ![u] = x]
        BY <2>3 DEF TruncateReport, FillReport, ReportLost, Goto, Exit
    <3>2. exit' = exit \/ exit' = [exit EXCEPT ![u] = "ok"]
        BY <2>3 DEF TruncateReport, FillReport, ReportLost, Exit
    <3>3. disk' = disk \/ \E d \in {"torn", "whole"} : disk' = [disk EXCEPT ![u] = d]
        BY <2>3 DEF TruncateReport, FillReport, ReportLost
    <3>4. UNCHANGED <<dry, list, report, file, remote, mixed>>
        BY <2>3 DEF TruncateReport, FillReport, ReportLost
    <3>5. pc' \in [Uploaders -> {"idle", "connect", "next", "open", "copy", "report",
                                 "writing", "exited"}]
        BY <3>1 DEF CountInv, TypeOK
    <3>6. exit' \in [Uploaders -> {"none", "ok", "fatal", "killed"}]
        BY <3>2 DEF CountInv, TypeOK
    <3>7. disk' \in [Uploaders -> {"none", "torn", "whole"}]
        BY <3>3 DEF CountInv, TypeOK
    <3> QED BY <3>4, <3>5, <3>6, <3>7 DEF CountInv, TypeOK
  <2> QED BY <2>1, <2>2, <2>3
<1>2. /\ ~Sending(u) /\ ~Sending(u)' /\ pc'[u] # "idle"
      /\ report' = report /\ dry' = dry
      /\ pc[u] # "exited" /\ (pc'[u] = "connect" => ~dry[u])
    BY DEF CountInv, TypeOK, Start, Connect, ConnectFails, LoopEnds, TruncateReport,
           FillReport, ReportLost, Goto, Exit, Sending
<1>3. Balanced(report[u], 0)
    BY <1>2 DEF CountInv, CountOf, InFlight
<1>4. CountOf(u)'
    BY <1>2, <1>3 DEF CountOf, Sending, InFlight
<1>5. \A v \in Uploaders \ {u} :
          /\ pc'[v] = pc[v] /\ exit'[v] = exit[v]
          /\ list'[v] = list[v] /\ report'[v] = report[v]
    BY DEF CountInv, TypeOK, Start, Connect, ConnectFails, LoopEnds, TruncateReport,
           FillReport, ReportLost, Goto, Exit
<1> QED BY <1>1, <1>2, <1>4, <1>5, StepOfOne

\* A skipped item adds one to its count, to skipped and to the items.
LEMMA SkipCount ==
    ASSUME CountInv, NEW u \in Uploaders, NEW s \in SkipStatus, Skip(u, s)
    PROVE  CountInv'
<1> DEFINE q == [valid |-> report[u].valid, skipped |-> report[u].skipped + 1,
                 counts |-> Count(report[u], s),
                 items |-> Append(report[u].items, Item(u, s))]
<1>1. /\ pc[u] = "next" /\ Pending(u) /\ ~Sending(u)
      /\ report' = [report EXCEPT ![u] = q]
      /\ UNCHANGED <<pc, exit, dry, list, file, disk, remote, mixed>>
    BY DEF Skip, Sending
<1>2. report[u] \in Reports /\ Balanced(report[u], 0)
    BY <1>1 DEF CountInv, CountOf, TypeOK, Reports, InFlight
<1>3. Item(u, s) \in Items /\ Item(u, s).status = s
    BY <1>1, ItemTyped DEF CountInv, Status
<1>4. q \in Reports /\ Balanced(q, 0)
    BY <1>2, <1>3, SkipBalanced
<1> HIDE DEF q
<1>5. TypeOK'
    BY <1>1, <1>4 DEF CountInv, TypeOK, Reports
<1>6. report'[u] = q /\ \A v \in Uploaders \ {u} : report'[v] = report[v]
    BY <1>1 DEF CountInv, TypeOK
<1>7. CountOf(u)'
    BY <1>1, <1>4, <1>6 DEF CountOf, Sending, InFlight
<1> QED BY <1>1, <1>5, <1>6, <1>7, StepOfOne

\* A prepared item is counted valid: in flight, or at once final in a dry run.
LEMMA PrepareCount ==
    ASSUME CountInv, NEW u \in Uploaders, Prepare(u)
    PROVE  CountInv'
<1> DEFINE q == [valid |-> report[u].valid + 1, skipped |-> report[u].skipped,
                 counts |-> report[u].counts,
                 items |-> IF dry[u] THEN Append(report[u].items, Item(u, "prepared"))
                           ELSE report[u].items]
<1>1. /\ pc[u] = "next" /\ Pending(u) /\ ~Sending(u)
      /\ report' = [report EXCEPT ![u] = q]
      /\ pc' = [pc EXCEPT ![u] = IF dry[u] THEN "next" ELSE "open"]
      /\ file' = [file EXCEPT ![u] = "json"]
      /\ UNCHANGED <<exit, dry, list, disk, remote, mixed>>
    BY DEF Prepare, Sending, Goto
<1>2. report[u] \in Reports /\ Balanced(report[u], 0) /\ dry[u] \in BOOLEAN
    BY <1>1 DEF CountInv, CountOf, TypeOK, Reports, InFlight
<1>3. Item(u, "prepared") \in Items /\ Item(u, "prepared").status = "prepared"
    BY <1>1, ItemTyped DEF CountInv, Status
<1>4. q \in Reports /\ Balanced(q, IF dry[u] THEN 0 ELSE 1)
    BY <1>2, <1>3, PrepareBalanced
<1>5. ~dry[u] => q.items = report[u].items
    OBVIOUS
<1> HIDE DEF q
<1>6. TypeOK'
    BY <1>1, <1>4 DEF CountInv, TypeOK, Reports, Files
<1>7. /\ report'[u] = q /\ pc'[u] = (IF dry[u] THEN "next" ELSE "open")
      /\ \A v \in Uploaders \ {u} : report'[v] = report[v] /\ pc'[v] = pc[v]
    BY <1>1 DEF CountInv, TypeOK
<1>8. (Sending(u)' <=> ~dry[u]) /\ InFlight(u)' = IF dry[u] THEN 0 ELSE 1
    BY <1>2, <1>7 DEF Sending, InFlight
<1>9. CountOf(u)'
  <2>1. Balanced(report'[u], InFlight(u)')
      BY <1>4, <1>7, <1>8
  <2>2. (Sending(u) => Pending(u))'
      BY <1>1, <1>5, <1>7, <1>8 DEF Pending
  <2> QED BY <1>1, <1>7, <1>8, <2>1, <2>2 DEF CountOf
<1> QED BY <1>1, <1>6, <1>7, <1>9, StepOfOne

\* An upload error keeps the types of what it changes.
LEMMA ErrorTyped ==
    ASSUME CountInv, NEW u \in Uploaders, Sending(u), SendError(u)
    PROVE  /\ pc' \in [Uploaders -> {"idle", "connect", "next", "open", "copy", "report",
                                     "writing", "exited"}]
           /\ report' \in [Uploaders -> Reports]
<1> DEFINE q == [valid |-> report[u].valid - 1, skipped |-> report[u].skipped + 1,
                 counts |-> Count(report[u], "send_error"),
                 items |-> Append(report[u].items, Item(u, "send_error"))]
<1>1. report' = [report EXCEPT ![u] = q] /\ pc' = [pc EXCEPT ![u] = "next"]
    BY DEF SendError, Goto
<1>2. report[u] \in Reports /\ Balanced(report[u], 1) /\ Pending(u)
    BY DEF CountInv, CountOf, TypeOK, Reports, Sending, InFlight
<1>3. Item(u, "send_error") \in Items /\ Item(u, "send_error").status = "send_error"
    BY <1>2, ItemTyped DEF CountInv, Status
<1>4. q \in Reports
    BY <1>2, <1>3, ErrorBalanced
<1> HIDE DEF q
<1> QED BY <1>1, <1>4 DEF CountInv, TypeOK, Reports

\* A failed upload, before or after the remote file is created.
LEMMA ErrorCount ==
    ASSUME CountInv, NEW u \in Uploaders, Sending(u), SendError(u), TypeOK',
           UNCHANGED <<exit, dry, list>>
    PROVE  CountInv'
<1> DEFINE q == [valid |-> report[u].valid - 1, skipped |-> report[u].skipped + 1,
                 counts |-> Count(report[u], "send_error"),
                 items |-> Append(report[u].items, Item(u, "send_error"))]
<1>1. report' = [report EXCEPT ![u] = q] /\ pc' = [pc EXCEPT ![u] = "next"]
    BY DEF SendError, Goto
<1>2. report[u] \in Reports /\ Balanced(report[u], 1) /\ Pending(u)
    BY DEF CountInv, CountOf, TypeOK, Reports, Sending, InFlight
<1>3. Item(u, "send_error") \in Items /\ Item(u, "send_error").status = "send_error"
    BY <1>2, ItemTyped DEF CountInv, Status
<1>4. Balanced(q, 0)
    BY <1>2, <1>3, ErrorBalanced
<1> HIDE DEF q
<1>5. /\ report'[u] = q /\ pc'[u] = "next"
      /\ \A v \in Uploaders \ {u} : report'[v] = report[v] /\ pc'[v] = pc[v]
    BY <1>1 DEF CountInv, TypeOK
<1>6. CountOf(u)'
    BY <1>4, <1>5 DEF CountOf, Sending, InFlight
<1> QED BY <1>5, <1>6, StepOfOne

\* A remote file that cannot be created ends its item as a send error.
LEMMA OpenFailsCount ==
    ASSUME CountInv, NEW u \in Uploaders, OpenFails(u)
    PROVE  CountInv'
<1>1. Sending(u) /\ SendError(u) /\ UNCHANGED <<exit, dry, list, file, disk, remote, mixed>>
    BY DEF OpenFails, Sending
<1>2. TypeOK'
    BY <1>1, ErrorTyped DEF CountInv, TypeOK, Reports
<1> QED BY <1>1, <1>2, ErrorCount

\* A copy that fails ends its item as a send error.
LEMMA CopyFailsCount ==
    ASSUME CountInv, NEW u \in Uploaders, CopyFails(u)
    PROVE  CountInv'
<1>1. /\ Sending(u) /\ SendError(u) /\ Leave(u)
      /\ UNCHANGED <<exit, dry, list, file, disk, remote>>
    BY DEF CopyFails, Sending
<1>2. TypeOK'
    BY <1>1, ErrorTyped DEF CountInv, TypeOK, Leave, Reports
<1> QED BY <1>1, <1>2, ErrorCount

\* Creating the remote file leaves the report as it is.
LEMMA CreateCount ==
    ASSUME CountInv, NEW u \in Uploaders, Create(u)
    PROVE  CountInv'
<1>1. /\ Sending(u) /\ pc' = [pc EXCEPT ![u] = "copy"]
      /\ UNCHANGED <<exit, dry, list, report, file, disk>>
    BY DEF Create, Sending, Goto
<1>2. Path(u) \in Paths
    BY <1>1, ItemTyped DEF CountInv, CountOf, TypeOK, Path, Paths, Status
<1>3. remote' \in [Paths -> [state : {"absent", "partial", "whole"},
                             writers : SUBSET Uploaders]]
    BY <1>2 DEF Create, CountInv, TypeOK
<1>4. mixed' \subseteq Paths
    BY <1>2 DEF Create, CountInv, TypeOK
<1>5. TypeOK'
    BY <1>1, <1>3, <1>4 DEF CountInv, TypeOK
<1>6. pc'[u] = "copy" /\ \A v \in Uploaders \ {u} : pc'[v] = pc[v]
    BY <1>1 DEF CountInv, TypeOK
<1>7. CountOf(u)'
    BY <1>1, <1>6 DEF CountInv, CountOf, Sending, InFlight, Pending
<1> QED BY <1>1, <1>5, <1>6, <1>7, StepOfOne

\* After the json the item stays in flight; after the wav it is counted sent.
LEMMA CopyCount ==
    ASSUME CountInv, NEW u \in Uploaders, Copy(u)
    PROVE  CountInv'
<1> DEFINE q == [valid |-> report[u].valid, skipped |-> report[u].skipped,
                 counts |-> Count(report[u], "sent"),
                 items |-> Append(report[u].items, Item(u, "sent"))]
<1>1. /\ pc[u] = "copy" /\ Sending(u)
      /\ UNCHANGED <<exit, dry, list, disk>>
    BY DEF Copy, Sending
<1>2. report[u] \in Reports /\ Balanced(report[u], 1) /\ Pending(u)
    BY <1>1 DEF CountInv, CountOf, TypeOK, Reports, Sending, InFlight
<1>3. Item(u, "sent") \in Items /\ Item(u, "sent").status = "sent" /\ Path(u) \in Paths
    BY <1>2, ItemTyped DEF CountInv, TypeOK, Status, Path, Paths
<1>4. q \in Reports /\ Balanced(q, 0)
    BY <1>2, <1>3, SentBalanced
<1>5. remote' \in [Paths -> [state : {"absent", "partial", "whole"},
                             writers : SUBSET Uploaders]]
  <2>1. PICK c \in {"partial", "whole"} : remote' = [remote EXCEPT ![Path(u)].state = c]
      BY DEF Copy, Copied
  <2> QED BY <1>3, <2>1 DEF CountInv, TypeOK
<1>6. mixed' \subseteq Paths
    BY DEF Copy, Leave, CountInv, TypeOK
<1>7. CASE file[u] = "json"
  <2>1. /\ file' = [file EXCEPT ![u] = "wav"] /\ pc' = [pc EXCEPT ![u] = "open"]
        /\ report' = report
      BY <1>7 DEF Copy, Goto
  <2>2. TypeOK'
      BY <1>1, <1>5, <1>6, <2>1 DEF CountInv, TypeOK, Files
  <2>3. pc'[u] = "open" /\ \A v \in Uploaders \ {u} : pc'[v] = pc[v]
      BY <2>1 DEF CountInv, TypeOK
  <2>4. CountOf(u)'
      BY <1>1, <2>1, <2>3 DEF CountInv, CountOf, Sending, InFlight, Pending
  <2> QED BY <1>1, <2>1, <2>2, <2>3, <2>4, StepOfOne
<1>8. CASE file[u] # "json"
  <2>1. /\ report' = [report EXCEPT ![u] = q] /\ pc' = [pc EXCEPT ![u] = "next"]
        /\ file' = file
      BY <1>8 DEF Copy, SendOK, Goto
  <2> HIDE DEF q
  <2>2. TypeOK'
      BY <1>1, <1>4, <1>5, <1>6, <2>1 DEF CountInv, TypeOK, Reports
  <2>3. /\ report'[u] = q /\ pc'[u] = "next"
        /\ \A v \in Uploaders \ {u} : report'[v] = report[v] /\ pc'[v] = pc[v]
      BY <2>1 DEF CountInv, TypeOK
  <2>4. CountOf(u)'
      BY <1>4, <2>3 DEF CountOf, Sending, InFlight
  <2> QED BY <1>1, <2>2, <2>3, <2>4, StepOfOne
<1> QED BY <1>7, <1>8

\* A killed uploader is out of the invariant, the others keep it.
LEMMA KillCount ==
    ASSUME CountInv, NEW u \in Uploaders, Kill(u)
    PROVE  CountInv'
<1>1. /\ pc' = [pc EXCEPT ![u] = "exited"] /\ exit' = [exit EXCEPT ![u] = "killed"]
      /\ UNCHANGED <<dry, list, report, file, disk, remote>>
    BY DEF Kill, Goto, Exit
<1>2. mixed' \subseteq Paths
    BY DEF Kill, Leave, CountInv, TypeOK
<1>3. TypeOK'
    BY <1>1, <1>2 DEF CountInv, TypeOK
<1>4. /\ pc'[u] = "exited" /\ exit'[u] = "killed"
      /\ \A v \in Uploaders \ {u} : pc'[v] = pc[v] /\ exit'[v] = exit[v]
    BY <1>1 DEF CountInv, TypeOK
<1>5. CountOf(u)'
    BY <1>4 DEF CountOf, Sending
<1> QED BY <1>1, <1>3, <1>4, <1>5, StepOfOne

\* A step that changes nothing keeps the invariant.
LEMMA StutterCount == CountInv /\ UNCHANGED vars => CountInv'
BY DEF CountInv, CountOf, TypeOK, Sending, InFlight, Pending, vars

-----------------------------------------------------------------------------
(* What a run has done on the server.                                      *)

\* The report follows the list: its items are the records in order, a run that
\* gets to the end has all of them, and only such a run has a whole manifest.
Listed(u) ==
    /\ Len(report[u].items) <= Len(list[u])
    /\ \A i \in DOMAIN report[u].items : report[u].items[i].rec = list[u][i]
    /\ pc[u] \in {"report", "writing"} \/ exit[u] = "ok" => ~Pending(u)
    /\ disk[u] = "whole" => exit[u] = "ok"
    /\ exit[u] # "none" => pc[u] = "exited"
    /\ \/ exit[u] = "killed"
       \/ report[u].valid + report[u].skipped = Len(report[u].items) + InFlight(u)

\* u has created the file, which is complete if no other run has opened it.
Stored(u, p) == u \in remote[p].writers /\ (Alone(u, p) => remote[p].state = "whole")

\* The file belongs to the item that u is sending.
AtWork(u, f, rec) ==
    /\ Sending(u)
    /\ Rec(u) = rec
    /\ file[u] = "wav" \/ (f = "json" /\ pc[u] = "copy")

\* Whatever u has created it is sending, or has reported, unless it was killed.
Traced(u, f, rec) ==
    u \in remote[<<f, rec>>].writers =>
        /\ ~dry[u]
        /\ \/ exit[u] = "killed"
           \/ AtWork(u, f, rec)
           \/ Statuses(u, rec) # {} /\ Statuses(u, rec) \subseteq {"sent", "send_error"}

\* The json is stored before the wav is created, and both before the record is
\* reported as sent.
SendOf(u) ==
    /\ pc[u] = "copy" => u \in remote[Path(u)].writers
    /\ Sending(u) /\ file[u] = "wav" => Stored(u, <<"json", Rec(u)>>)
    /\ \A rec \in Records :
          /\ "sent" \in Statuses(u, rec) => \A f \in Files : Stored(u, <<f, rec>>)
          /\ u \in remote[<<"wav", rec>>].writers => Stored(u, <<"json", rec>>)
          /\ \A f \in Files : Traced(u, f, rec)

\* A file that two runs have had open was created by two runs.
Crowded == \A p \in mixed : \E v, w \in remote[p].writers : v # w

SendInv ==
    /\ CountInv
    /\ \A u \in Uploaders : Listed(u) /\ SendOf(u)
    /\ Crowded

\* A step of u changes no remote file but one that it has created itself.
Touches(u) ==
    \A p \in Paths :
        \/ remote'[p] = remote[p]
        \/ /\ u \in remote'[p].writers
           /\ remote[p].writers \subseteq remote'[p].writers
           /\ remote'[p].writers \subseteq remote[p].writers \cup {u}

\* The record of the loop is not in the report yet: the list has it once.
LEMMA NewRecord ==
    ASSUME CountInv, NEW u \in Uploaders, Listed(u), Pending(u)
    PROVE  Statuses(u, Rec(u)) = {} /\ Len(report[u].items) + 1 <= Len(list[u])
<1> DEFINE items == report[u].items
           n == Len(items)
<1>1. items \in Seq(Items) /\ n \in Nat /\ DOMAIN items = 1..n
    BY LenProperties DEF CountInv, TypeOK
<1>2. /\ Len(list[u]) \in Nat /\ DOMAIN list[u] = 1..Len(list[u])
      /\ \A i, j \in DOMAIN list[u] : list[u][i] = list[u][j] => i = j
  <2>1. /\ list[u] \in Seq(Records)
        /\ \A i, j \in DOMAIN list[u] : list[u][i] = list[u][j] => i = j
    <3>1. CASE list[u] \in Lists
        BY <3>1, UploaderAssumption
    <3>2. CASE list[u] = <<>>
        BY <3>2
    <3> QED BY <3>1, <3>2 DEF CountInv, TypeOK
  <2> QED BY <2>1, LenProperties
<1>3. n < Len(list[u]) /\ Rec(u) = list[u][n + 1]
    BY DEF Pending, Rec
<1>4. \A i \in 1..n : items[i].rec = list[u][i]
    BY <1>1 DEF Listed
<1>5. ASSUME NEW i \in 1..n  PROVE items[i].rec # Rec(u)
  <2>1. i \in DOMAIN list[u] /\ n + 1 \in DOMAIN list[u] /\ i # n + 1
      BY <1>1, <1>2, <1>3
  <2>2. list[u][i] # list[u][n + 1]
      BY <1>2, <2>1
  <2> QED BY <1>3, <1>4, <2>2
<1> QED BY <1>1, <1>2, <1>3, <1>5 DEF Statuses

\* An item's record is new to the report, and becomes its last.
LEMMA AddedItem ==
    ASSUME CountInv, NEW u \in Uploaders, Listed(u), Pending(u), NEW s \in Status,
           report'[u].items = Append(report[u].items, Item(u, s)), list'[u] = list[u]
    PROVE  /\ Len(report'[u].items) = Len(report[u].items) + 1
           /\ Len(report'[u].items) <= Len(list'[u])
           /\ \A i \in DOMAIN report'[u].items : report'[u].items[i].rec = list'[u][i]
           /\ Statuses(u, Rec(u)) = {}
           /\ \A rec : Statuses(u, rec)' =
                 Statuses(u, rec) \cup (IF rec = Rec(u) THEN {s} ELSE {})
<1> DEFINE items == report[u].items
           new == Append(items, Item(u, s))
           n == Len(items)
<1>1. /\ items \in Seq(Items) /\ n \in Nat /\ DOMAIN items = 1..n
      /\ Len(new) = n + 1 /\ DOMAIN new = 1..(n + 1)
      /\ \A i \in 1..n : new[i] = items[i]
      /\ new[n + 1] = Item(u, s)
  <2>1. items \in Seq(Items) /\ Item(u, s) \in Items
      BY ItemTyped DEF CountInv, TypeOK
  <2> QED BY <2>1, AppendProperties, LenProperties
<1>2. Item(u, s).rec = Rec(u) /\ Item(u, s).status = s /\ Rec(u) = list[u][n + 1]
    BY DEF Item, Rec
<1>3. \A i \in 1..n : items[i].rec = list[u][i]
    BY <1>1 DEF Listed
<1>4. Statuses(u, Rec(u)) = {} /\ n + 1 <= Len(list[u])
    BY NewRecord
<1> HIDE DEF items, new, n
<1>5. ASSUME NEW rec  PROVE Statuses(u, rec)' =
                 Statuses(u, rec) \cup (IF rec = Rec(u) THEN {s} ELSE {})
  <2>1. Statuses(u, rec)' = {new[i].status : i \in {k \in 1..(n + 1) : new[k].rec = rec}}
      BY <1>1 DEF Statuses, new, items
  <2>2. Statuses(u, rec) = {items[i].status : i \in {k \in 1..n : items[k].rec = rec}}
      BY <1>1 DEF Statuses, items
  <2>3. 1..(n + 1) = (1..n) \cup {n + 1} /\ n + 1 \in 1..(n + 1)
      BY <1>1
  <2>4. CASE rec = Rec(u)
    <3>1. {k \in 1..(n + 1) : new[k].rec = rec}
            = {k \in 1..n : items[k].rec = rec} \cup {n + 1}
        BY <1>1, <1>2, <2>3, <2>4
    <3> QED BY <1>1, <1>2, <2>1, <2>2, <2>4, <3>1
  <2>5. CASE rec # Rec(u)
    <3>1. {k \in 1..(n + 1) : new[k].rec = rec} = {k \in 1..n : items[k].rec = rec}
        BY <1>1, <1>2, <2>3, <2>5
    <3> QED BY <1>1, <2>1, <2>2, <2>5, <3>1
  <2> QED BY <2>4, <2>5
<1>6. \A i \in 1..(n + 1) : new[i].rec = list[u][i]
    BY <1>1, <1>2, <1>3
<1> QED BY <1>1, <1>4, <1>5, <1>6 DEF items, new, n

\* What another run has stored or traced is not undone by a step of u.
LEMMA OtherKeeps ==
    ASSUME SendInv, NEW u \in Uploaders, NEW v \in Uploaders, v # u, Touches(u),
           pc'[v] = pc[v], exit'[v] = exit[v], dry'[v] = dry[v], list'[v] = list[v],
           report'[v] = report[v], file'[v] = file[v], disk'[v] = disk[v]
    PROVE  Listed(v)' /\ SendOf(v)'
<1>1. Listed(v)'
    BY DEF SendInv, Listed, Pending, InFlight, Sending
<1>2. /\ (Sending(v))' = Sending(v) /\ (Rec(v))' = Rec(v) /\ Path(v)' = Path(v)
      /\ \A rec : Statuses(v, rec)' = Statuses(v, rec)
    BY DEF Sending, Rec, Path, Statuses
<1>3. \A p \in Paths : /\ v \in remote'[p].writers <=> v \in remote[p].writers
                       /\ Stored(v, p) => Stored(v, p)'
    BY DEF Touches, Stored, Alone
<1>4. Sending(v) => Rec(v) \in Records /\ Path(v) \in Paths
  <2>1. Sending(v) => Rec(v) \in Records
      BY ItemTyped DEF SendInv, CountInv, CountOf, Status
  <2> QED BY <2>1 DEF SendInv, CountInv, TypeOK, Path, Paths
<1>5. \A f \in Files, rec \in Records : <<f, rec>> \in Paths
    BY DEF Paths
<1>6. "json" \in Files /\ "wav" \in Files
    BY DEF Files
<1>7. SendOf(v)
    BY DEF SendInv
<1>8. pc'[v] = "copy" => v \in remote'[Path(v)'].writers
    BY <1>2, <1>3, <1>4, <1>7 DEF SendOf, Sending
<1>9. (Sending(v))' /\ file'[v] = "wav" => Stored(v, <<"json", Rec(v)>>)'
  <2>1. Sending(v) => <<"json", Rec(v)>> \in Paths
      BY <1>4, <1>5, <1>6
  <2>2. Sending(v) /\ file[v] = "wav" => Stored(v, <<"json", Rec(v)>>)
      BY <1>7 DEF SendOf
  <2>3. PICK r : r = Rec(v)
      OBVIOUS
  <2>4. Sending(v) /\ file[v] = "wav" => Stored(v, <<"json", r>>)'
      BY <1>3, <2>1, <2>2, <2>3
  <2>5. Rec(v)' = r
      BY <1>2, <2>3
  <2> QED BY <1>2, <2>4, <2>5 DEF Stored, Alone
<1>10. ASSUME NEW rec \in Records
       PROVE  /\ "sent" \in Statuses(v, rec)' => \A f \in Files : Stored(v, <<f, rec>>)'
              /\ v \in remote'[<<"wav", rec>>].writers => Stored(v, <<"json", rec>>)'
              /\ \A f \in Files : Traced(v, f, rec)'
  <2>1. \A f \in Files : AtWork(v, f, rec)' = AtWork(v, f, rec)
      BY <1>2 DEF AtWork
  <2>2. \A f \in Files : Traced(v, f, rec) => Traced(v, f, rec)'
      BY <1>2, <1>3, <1>5, <2>1 DEF Traced
  <2> QED BY <1>2, <1>3, <1>5, <1>6, <1>7, <2>2 DEF SendOf
<1> QED BY <1>1, <1>8, <1>9, <1>10 DEF SendOf

\* A step of one run keeps the invariant if it keeps that run's part of it.
LEMMA SendStep ==
    ASSUME SendInv, CountInv', NEW u \in Uploaders, Touches(u), Listed(u)', SendOf(u)',
           Crowded', dry' = dry,
           \A v \in Uploaders \ {u} :
               /\ pc'[v] = pc[v] /\ exit'[v] = exit[v] /\ list'[v] = list[v]
               /\ report'[v] = report[v] /\ file'[v] = file[v] /\ disk'[v] = disk[v]
    PROVE  SendInv'
<1>1. ASSUME NEW v \in Uploaders, v # u  PROVE Listed(v)' /\ SendOf(v)'
    BY <1>1, OtherKeeps
<1> QED BY <1>1 DEF SendInv

\* Nothing is reported or created before the start.
LEMMA InitSend == Init => SendInv
<1> SUFFICES ASSUME Init PROVE SendInv
    OBVIOUS
<1>1. ASSUME NEW u \in Uploaders  PROVE Listed(u) /\ SendOf(u)
  <2>1. /\ pc[u] = "idle" /\ exit[u] = "none" /\ disk[u] = "none" /\ list[u] = <<>>
        /\ report[u] = EmptyReport
      BY DEF Init
  <2>2. report[u].items = <<>> /\ report[u].valid = 0 /\ report[u].skipped = 0
      BY <2>1 DEF EmptyReport
  <2>3. Listed(u)
      BY <2>1, <2>2 DEF Listed, InFlight, Sending
  <2>4. \A rec : Statuses(u, rec) = {}
      BY <2>2 DEF Statuses
  <2>5. \A f \in Files, rec \in Records : remote[<<f, rec>>].writers = {}
      BY DEF Init, Paths
  <2> QED BY <2>1, <2>3, <2>4, <2>5 DEF SendOf, Traced, Sending, Files
<1>2. Crowded
    BY DEF Init, Crowded
<1> QED BY <1>1, <1>2, InitCount DEF SendInv

\* A step that neither sends nor reports keeps what the run has done, and so
\* does the end of a run that is killed.
LEMMA QuietStep ==
    ASSUME SendInv, NEW u \in Uploaders, remote' = remote, dry' = dry,
           report'[u] = report[u], exit[u] # "killed", ~Sending(u)',
           exit'[u] = "killed" \/ ~Sending(u)
    PROVE  SendOf(u)' /\ Touches(u)
<1>1. SendOf(u)
    BY DEF SendInv
<1>2. \A rec : Statuses(u, rec)' = Statuses(u, rec)
    BY DEF Statuses
<1>3. \A p : Stored(u, p)' = Stored(u, p)
    BY DEF Stored, Alone
<1>4. \A rec \in Records, f \in Files : Traced(u, f, rec) => Traced(u, f, rec)'
    BY <1>2 DEF Traced, AtWork
<1>5. pc'[u] # "copy"
    BY DEF Sending
<1> QED BY <1>1, <1>2, <1>3, <1>4, <1>5 DEF SendOf, Touches

\* An item that was not sent ends: as an error, or before anything was created.
LEMMA ItemEnds ==
    ASSUME SendInv, NEW u \in Uploaders, Pending(u), NEW s \in Status, s # "sent",
           remote' = remote, dry' = dry, list'[u] = list[u], exit'[u] = exit[u],
           report'[u].items = Append(report[u].items, Item(u, s)), ~Sending(u)',
           s = "send_error" \/ (~Sending(u) /\ exit[u] # "killed")
    PROVE  SendOf(u)' /\ Touches(u)
<1>1. CountInv /\ Listed(u) /\ SendOf(u)
    BY DEF SendInv
<1>2. /\ Statuses(u, Rec(u)) = {}
      /\ \A rec : Statuses(u, rec)' =
             Statuses(u, rec) \cup (IF rec = Rec(u) THEN {s} ELSE {})
    BY <1>1, AddedItem
<1>3. \A p : Stored(u, p)' = Stored(u, p)
    BY DEF Stored, Alone
<1>4. ASSUME NEW rec \in Records, NEW f \in Files  PROVE Traced(u, f, rec)'
  <2>1. Traced(u, f, rec)
      BY <1>1 DEF SendOf
  <2>2. CASE rec = Rec(u)
    <3>1. CASE s = "send_error"
        BY <1>2, <2>1, <2>2, <3>1 DEF Traced
    <3>2. CASE ~Sending(u) /\ exit[u] # "killed"
        BY <1>2, <2>1, <2>2, <3>2 DEF Traced, AtWork
    <3> QED BY <3>1, <3>2
  <2>3. CASE rec # Rec(u)
      BY <1>2, <2>1, <2>3 DEF Traced, AtWork
  <2> QED BY <2>2, <2>3
<1>5. pc'[u] # "copy"
    BY DEF Sending
<1>6. \A rec : "sent" \in Statuses(u, rec)' => "sent" \in Statuses(u, rec)
    BY <1>2
<1> QED BY <1>1, <1>3, <1>4, <1>5, <1>6 DEF SendOf, Touches

\* In the loop the report follows the list if it does so with its new items.
LEMMA LoopListed ==
    ASSUME NEW u, exit[u] = "none", exit'[u] = "none", disk'[u] = disk[u],
           Listed(u), pc'[u] \in {"next", "open", "copy"},
           Len(report'[u].items) <= Len(list'[u]),
           \A i \in DOMAIN report'[u].items : report'[u].items[i].rec = list'[u][i],
           report'[u].valid + report'[u].skipped = Len(report'[u].items) + InFlight(u)'
    PROVE  Listed(u)'
BY DEF Listed

\* The steps outside the loop: the list is taken as a whole, and the manifest
\* is written only when each of its records is in the report.
LEMMA OutsideSend ==
    ASSUME SendInv, NEW u \in Uploaders,
           \/ Start(u) \/ Connect(u) \/ ConnectFails(u) \/ LoopEnds(u)
           \/ TruncateReport(u) \/ FillReport(u) \/ ReportLost(u)
    PROVE  SendInv'
<1>1. CountInv' /\ CountInv /\ TypeOK
    BY OutsideLoop DEF SendInv, CountInv
<1>2. /\ ~Sending(u) /\ ~Sending(u)' /\ pc[u] # "exited" /\ pc'[u] # "idle"
      /\ UNCHANGED <<dry, report, file, remote, mixed>>
    BY <1>1 DEF TypeOK, Start, Connect, ConnectFails, LoopEnds, TruncateReport,
           FillReport, ReportLost, Goto, Exit, Sending
<1>3. exit[u] = "none" /\ Listed(u)
    BY <1>1, <1>2 DEF SendInv, Listed, TypeOK
<1>4. SendOf(u)' /\ Touches(u)
    BY <1>2, <1>3, QuietStep
<1>5. \A v \in Uploaders \ {u} :
          pc'[v] = pc[v] /\ exit'[v] = exit[v] /\ list'[v] = list[v] /\ disk'[v] = disk[v]
    BY <1>1 DEF TypeOK, Start, Connect, ConnectFails, LoopEnds, TruncateReport,
           FillReport, ReportLost, Goto, Exit
<1>6. Listed(u)'
  <2>1. CASE Start(u)
    <3>1. report[u] = EmptyReport
        BY <1>1, <2>1 DEF CountInv, CountOf, Start
    <3>2. /\ report'[u].items = <<>> /\ report'[u].valid = 0 /\ report'[u].skipped = 0
          /\ Len(report'[u].items) = 0
        BY <1>2, <3>1 DEF EmptyReport
    <3>3. PICK l \in Lists \cup {<<>>} :
              /\ list' = [list EXCEPT ![u] = l]
              /\ IF l = <<>> THEN Exit(u, "ok")
                 ELSE Goto(u, IF dry[u] THEN "next" ELSE "connect") /\ UNCHANGED exit
        BY <2>1 DEF Start
    <3>4. list'[u] = l /\ Len(l) \in Nat
      <4>1. l \in Seq(Records)
        <5>1. CASE l \in Lists
            BY <5>1, UploaderAssumption
        <5>2. CASE l = <<>>
            BY <5>2
        <5> QED BY <5>1, <5>2
      <4> QED BY <1>1, <3>3, <4>1, LenProperties DEF TypeOK
    <3>5. /\ l = <<>> => pc'[u] = "exited" /\ exit'[u] = "ok"
          /\ l # <<>> => pc'[u] \in {"next", "connect"} /\ exit'[u] = "none"
        BY <1>1, <1>3, <3>3 DEF Exit, Goto, TypeOK
    <3>6. disk'[u] # "whole"
        BY <1>3, <2>1 DEF Start, Listed
    <3>7. l = <<>> => Len(l) = 0
        OBVIOUS
    <3> QED BY <1>2, <3>2, <3>4, <3>5, <3>6, <3>7 DEF Listed, Pending, InFlight
  <2>2. CASE Connect(u) \/ ConnectFails(u) \/ LoopEnds(u)
    <3>1. list'[u] = list[u] /\ report'[u] = report[u] /\ disk'[u] = disk[u]
        BY <1>2, <2>2 DEF Connect, ConnectFails, LoopEnds
    <3>2. /\ pc'[u] = "report" => ~Pending(u)
          /\ pc'[u] \in {"next", "exited", "report"}
          /\ exit'[u] \in {"none", "fatal"}
          /\ exit'[u] # "none" => pc'[u] = "exited"
        BY <1>1, <1>3, <2>2 DEF Connect, ConnectFails, LoopEnds, Goto, Exit, TypeOK
    <3> QED BY <1>2, <1>3, <3>1, <3>2 DEF Listed, Pending, InFlight
  <2>3. CASE TruncateReport(u) \/ FillReport(u) \/ ReportLost(u)
    <3>1. /\ list'[u] = list[u] /\ report'[u] = report[u] /\ ~Pending(u)
          /\ exit'[u] \in {"none", "ok"}
          /\ exit'[u] # "none" => pc'[u] = "exited"
          /\ disk'[u] = "whole" => exit'[u] = "ok"
        BY <1>1, <1>2, <1>3, <2>3
        DEF TruncateReport, FillReport, ReportLost, Goto, Exit, TypeOK, Listed
    <3> QED BY <1>2, <1>3, <3>1 DEF Listed, Pending, InFlight
  <2> QED BY <2>1, <2>2, <2>3
<1>7. Crowded'
    BY <1>2 DEF SendInv, Crowded
<1> QED BY <1>1, <1>2, <1>4, <1>5, <1>6, <1>7, SendStep

\* An item that is skipped, or done with in a dry run, was never on its way.
LEMMA SkipSend ==
    ASSUME SendInv, NEW u \in Uploaders, NEW s \in SkipStatus, Skip(u, s)
    PROVE  SendInv'
<1>1. CountInv' /\ CountInv /\ TypeOK /\ Listed(u)
    BY SkipCount DEF SendInv, CountInv
<1>2. /\ pc[u] = "next" /\ Pending(u) /\ ~Sending(u) /\ ~Sending(u)'
      /\ report'[u].items = Append(report[u].items, Item(u, s))
      /\ report'[u].valid = report[u].valid
      /\ report'[u].skipped = report[u].skipped + 1
      /\ \A v \in Uploaders \ {u} : report'[v] = report[v]
      /\ UNCHANGED <<pc, exit, dry, list, file, disk, remote, mixed>>
    BY <1>1 DEF Skip, TypeOK, Sending
<1>3. exit[u] = "none" /\ s \in Status /\ s # "sent" /\ list'[u] = list[u] /\ exit'[u] = exit[u]
    BY <1>1, <1>2 DEF Listed, Status, SkipStatus, TypeOK
<1>4. SendOf(u)' /\ Touches(u)
    BY <1>2, <1>3, ItemEnds
<1>5. /\ Len(report'[u].items) = Len(report[u].items) + 1
      /\ Len(report'[u].items) <= Len(list'[u])
      /\ \A i \in DOMAIN report'[u].items : report'[u].items[i].rec = list'[u][i]
    BY <1>1, <1>2, <1>3, AddedItem
<1>6. Listed(u)'
  <2>1. /\ report[u].valid \in Nat /\ report[u].skipped \in Nat
        /\ Len(report[u].items) \in Nat
      BY <1>1, LenProperties DEF TypeOK
  <2>2. InFlight(u) = IF Sending(u) THEN 1 ELSE 0
      BY DEF InFlight
  <2>3. InFlight(u)' = 0
      BY <1>2 DEF InFlight
  <2>4. report[u].valid + report[u].skipped = Len(report[u].items) + InFlight(u)
      BY <1>1, <1>3 DEF Listed
  <2>5. report'[u].valid + report'[u].skipped = Len(report'[u].items) + InFlight(u)'
    <3>1. InFlight(u) = 0 /\ report'[u].valid = report[u].valid
          /\ report'[u].skipped = report[u].skipped + 1
          /\ Len(report'[u].items) = Len(report[u].items) + 1
        BY <1>2, <1>5, <2>2
    <3> DEFINE n == Len(report[u].items)
               new == Len(report'[u].items)
    <3>2. /\ n \in Nat /\ new = n + 1
          /\ report[u].valid + report[u].skipped = n
        BY <2>1, <2>4, <3>1
    <3> HIDE DEF n, new
    <3>3. /\ report[u].valid \in Nat /\ report[u].skipped \in Nat
          /\ report'[u].valid = report[u].valid
          /\ report'[u].skipped = report[u].skipped + 1
        BY <2>1, <3>1
    <3>4. report'[u].valid + report'[u].skipped = new + InFlight(u)'
        BY <2>3, <3>2, <3>3
    <3> QED BY <3>4 DEF new
  <2>6. pc'[u] = "next" /\ disk'[u] = disk[u] /\ exit'[u] = "none"
      BY <1>2, <1>3
  <2> QED BY <1>1, <1>3, <1>5, <2>5, <2>6, LoopListed
<1>7. Crowded'
    BY <1>2 DEF SendInv, Crowded
<1> QED BY <1>1, <1>2, <1>4, <1>6, <1>7, SendStep

\* A prepared item has nothing on the server yet.
LEMMA PrepareSend ==
    ASSUME SendInv, NEW u \in Uploaders, Prepare(u)
    PROVE  SendInv'
<1>1. CountInv' /\ CountInv /\ TypeOK /\ Listed(u) /\ SendOf(u)
    BY PrepareCount DEF SendInv, CountInv
<1>2. /\ pc[u] = "next" /\ Pending(u) /\ ~Sending(u)
      /\ pc'[u] = (IF dry[u] THEN "next" ELSE "open")
      /\ report'[u].items = (IF dry[u] THEN Append(report[u].items, Item(u, "prepared"))
                             ELSE report[u].items)
      /\ report'[u].valid = report[u].valid + 1
      /\ report'[u].skipped = report[u].skipped
      /\ file'[u] = "json"
      /\ \A v \in Uploaders \ {u} :
             report'[v] = report[v] /\ pc'[v] = pc[v] /\ file'[v] = file[v]
      /\ UNCHANGED <<exit, dry, list, disk, remote, mixed>>
    BY <1>1 DEF Prepare, TypeOK, Sending, Goto
<1>3. exit[u] = "none"
    BY <1>1, <1>2 DEF Listed, TypeOK
<1>4. /\ report[u].valid \in Nat /\ report[u].skipped \in Nat
      /\ Len(report[u].items) \in Nat
    BY <1>1, LenProperties DEF TypeOK
<1>5. Crowded'
    BY <1>2 DEF SendInv, Crowded
<1>6. CASE dry[u]
  <2>1. /\ report'[u].items = Append(report[u].items, Item(u, "prepared"))
        /\ pc'[u] = "next" /\ ~Sending(u)' /\ list'[u] = list[u] /\ exit'[u] = exit[u]
      BY <1>2, <1>6 DEF Sending
  <2>2. "prepared" \in Status /\ "prepared" # "sent"
      BY DEF Status
  <2>3. SendOf(u)' /\ Touches(u)
      BY <1>2, <1>3, <2>1, <2>2, ItemEnds
  <2>4. /\ Len(report'[u].items) = Len(report[u].items) + 1
        /\ Len(report'[u].items) <= Len(list'[u])
        /\ \A i \in DOMAIN report'[u].items : report'[u].items[i].rec = list'[u][i]
      BY <1>1, <1>2, <2>1, <2>2, AddedItem
  <2>5. Listed(u)'
    <3>1. InFlight(u)' = 0 /\ InFlight(u) = 0
        BY <1>2, <2>1 DEF InFlight
    <3>2. report[u].valid + report[u].skipped = Len(report[u].items) + InFlight(u)
        BY <1>1, <1>3 DEF Listed
    <3>3. report'[u].valid + report'[u].skipped = Len(report'[u].items) + InFlight(u)'
      <4>1. /\ report'[u].valid = report[u].valid + 1
            /\ report'[u].skipped = report[u].skipped
            /\ Len(report'[u].items) = Len(report[u].items) + 1
          BY <1>2, <2>4
      <4> DEFINE n == Len(report[u].items)
                 new == Len(report'[u].items)
      <4>2. n \in Nat /\ new = n + 1 /\ report[u].valid + report[u].skipped = n
          BY <1>4, <3>1, <3>2, <4>1
      <4> HIDE DEF n, new
      <4>3. report'[u].valid + report'[u].skipped = new + InFlight(u)'
          BY <1>4, <3>1, <4>1, <4>2
      <4> QED BY <4>3 DEF new
    <3> QED BY <1>1, <1>2, <1>3, <2>1, <2>4, <3>3, LoopListed
  <2> QED BY <1>1, <1>2, <1>5, <2>3, <2>5, SendStep
<1>7. CASE ~dry[u]
  <2>1. pc'[u] = "open" /\ report'[u].items = report[u].items /\ Sending(u)'
      BY <1>2, <1>7 DEF Sending
  <2>2. Touches(u)
      BY <1>2 DEF Touches
  <2>3. \A rec : Statuses(u, rec)' = Statuses(u, rec)
      BY <2>1 DEF Statuses
  <2>4. \A p : Stored(u, p)' = Stored(u, p)
      BY <1>2 DEF Stored, Alone
  <2>5. \A rec \in Records, f \in Files : Traced(u, f, rec) => Traced(u, f, rec)'
      BY <1>2, <1>3, <2>3 DEF Traced, AtWork
  <2>6. SendOf(u)'
      BY <1>1, <1>2, <2>1, <2>3, <2>4, <2>5 DEF SendOf
  <2>7. Listed(u)'
    <3>1. InFlight(u)' = 1 /\ InFlight(u) = 0
        BY <1>2, <2>1 DEF InFlight
    <3>2. report[u].valid + report[u].skipped = Len(report[u].items) + InFlight(u)
        BY <1>1, <1>3 DEF Listed
    <3>3. report'[u].valid + report'[u].skipped = Len(report'[u].items) + InFlight(u)'
      <4>1. /\ report'[u].valid = report[u].valid + 1
            /\ report'[u].skipped = report[u].skipped
            /\ Len(report'[u].items) = Len(report[u].items)
          BY <1>2, <2>1
      <4> QED BY <1>4, <3>1, <3>2, <4>1
    <3>4. /\ Len(report'[u].items) <= Len(list'[u])
          /\ \A i \in DOMAIN report'[u].items : report'[u].items[i].rec = list'[u][i]
        BY <1>1, <1>2, <2>1 DEF Listed
    <3> QED BY <1>1, <1>2, <1>3, <2>1, <3>3, <3>4, LoopListed
  <2> QED BY <1>1, <1>2, <1>5, <2>2, <2>6, <2>7, SendStep
<1> QED BY <1>6, <1>7

\* A send error ends the item that is being sent.
LEMMA ErrorSend ==
    ASSUME SendInv, CountInv', NEW u \in Uploaders, Sending(u), SendError(u),
           Crowded', UNCHANGED <<exit, dry, list, file, disk, remote>>
    PROVE  SendInv'
<1>1. CountInv /\ TypeOK /\ Listed(u) /\ Pending(u)
    BY DEF SendInv, CountInv, CountOf
<1>2. /\ pc'[u] = "next" /\ ~Sending(u)'
      /\ report'[u].items = Append(report[u].items, Item(u, "send_error"))
      /\ report'[u].valid = report[u].valid - 1
      /\ report'[u].skipped = report[u].skipped + 1
      /\ \A v \in Uploaders \ {u} : report'[v] = report[v] /\ pc'[v] = pc[v]
    BY <1>1 DEF SendError, TypeOK, Sending, Goto
<1>3. /\ exit[u] = "none" /\ "send_error" \in Status /\ "send_error" # "sent"
      /\ list'[u] = list[u] /\ exit'[u] = exit[u]
    BY <1>1 DEF Listed, Status, TypeOK, Sending
<1>4. SendOf(u)' /\ Touches(u)
    BY <1>1, <1>2, <1>3, ItemEnds
<1>5. /\ Len(report'[u].items) = Len(report[u].items) + 1
      /\ Len(report'[u].items) <= Len(list'[u])
      /\ \A i \in DOMAIN report'[u].items : report'[u].items[i].rec = list'[u][i]
    BY <1>1, <1>2, <1>3, AddedItem
<1>6. Listed(u)'
  <2>1. /\ report[u].valid \in Nat /\ report[u].skipped \in Nat
        /\ Len(report[u].items) \in Nat
      BY <1>1, LenProperties DEF TypeOK
  <2>2. InFlight(u) = IF Sending(u) THEN 1 ELSE 0
      BY DEF InFlight
  <2>3. InFlight(u)' = 0
      BY <1>2 DEF InFlight
  <2>4. report[u].valid + report[u].skipped = Len(report[u].items) + InFlight(u)
      BY <1>1, <1>3 DEF Listed
  <2>5. report'[u].valid + report'[u].skipped = Len(report'[u].items) + InFlight(u)'
    <3>1. InFlight(u) = 1 /\ report'[u].valid = report[u].valid - 1
          /\ report'[u].skipped = report[u].skipped + 1
          /\ Len(report'[u].items) = Len(report[u].items) + 1
        BY <1>2, <1>5, <2>2
    <3> DEFINE n == Len(report[u].items)
               new == Len(report'[u].items)
    <3>2. /\ n \in Nat /\ new = n + 1
          /\ report[u].valid + report[u].skipped = n + InFlight(u)
        BY <2>1, <2>4, <3>1
    <3> HIDE DEF n, new
    <3>3. report'[u].valid + report'[u].skipped = new + InFlight(u)'
        BY <2>1, <2>3, <3>1, <3>2
    <3> QED BY <3>3 DEF new
  <2>6. pc'[u] = "next" /\ disk'[u] = disk[u] /\ exit'[u] = "none"
      BY <1>2, <1>3
  <2> QED BY <1>1, <1>3, <1>5, <2>5, <2>6, LoopListed
<1> QED BY <1>1, <1>2, <1>4, <1>6, SendStep

\* A file that u leaves is crowded no more than before.
LEMMA LeaveCrowded ==
    ASSUME Crowded, NEW u \in Uploaders, Leave(u),
           \A p \in mixed : remote[p].writers \subseteq remote'[p].writers
    PROVE  Crowded'
BY DEF Crowded, Leave

\* A remote file that cannot be created, and a copy that fails.
LEMMA FailSend ==
    ASSUME SendInv, NEW u \in Uploaders, OpenFails(u) \/ CopyFails(u)
    PROVE  SendInv'
<1>1. CountInv'
    BY OpenFailsCount, CopyFailsCount DEF SendInv
<1>2. /\ Sending(u) /\ SendError(u) /\ UNCHANGED <<exit, dry, list, file, disk, remote>>
      /\ mixed' = mixed \/ Leave(u)
    BY DEF OpenFails, CopyFails, Sending
<1>3. Crowded'
  <2>1. CASE mixed' = mixed
      BY <1>2, <2>1 DEF SendInv, Crowded
  <2>2. CASE Leave(u)
      BY <1>2, <2>2, LeaveCrowded DEF SendInv
  <2> QED BY <1>2, <2>1, <2>2
<1> QED BY <1>1, <1>2, <1>3, ErrorSend

\* A killed run leaves what it has created.
LEMMA KillSend ==
    ASSUME SendInv, NEW u \in Uploaders, Kill(u)
    PROVE  SendInv'
<1>1. CountInv' /\ CountInv /\ TypeOK /\ Listed(u)
    BY KillCount DEF SendInv, CountInv
<1>2. /\ pc'[u] = "exited" /\ exit'[u] = "killed" /\ ~Sending(u)'
      /\ pc[u] # "exited"
      /\ \A v \in Uploaders \ {u} : pc'[v] = pc[v] /\ exit'[v] = exit[v]
      /\ UNCHANGED <<dry, list, report, file, disk, remote>>
      /\ mixed' = mixed \/ Leave(u)
    BY <1>1 DEF Kill, TypeOK, Sending, Goto, Exit
<1>3. exit[u] = "none"
    BY <1>1, <1>2 DEF Listed, TypeOK
<1>4. SendOf(u)' /\ Touches(u)
    BY <1>2, <1>3, QuietStep
<1>5. Listed(u)'
    BY <1>1, <1>2, <1>3 DEF Listed
<1>6. Crowded'
  <2>1. CASE mixed' = mixed
      BY <1>2, <2>1 DEF SendInv, Crowded
  <2>2. CASE Leave(u)
      BY <1>2, <2>2, LeaveCrowded DEF SendInv
  <2> QED BY <1>2, <2>1, <2>2
<1> QED BY <1>1, <1>2, <1>4, <1>5, <1>6, SendStep

\* A file that u creates belongs to the item that it is sending, and comes
\* after the json if it is the wav.
LEMMA CreateSend ==
    ASSUME SendInv, NEW u \in Uploaders, Create(u)
    PROVE  SendInv'
<1>1. CountInv' /\ CountInv /\ TypeOK /\ Listed(u) /\ SendOf(u)
    BY CreateCount DEF SendInv, CountInv
<1>2. PICK r, f0, p0 : r = Rec(u) /\ f0 = file[u] /\ p0 = <<f0, r>>
    OBVIOUS
<1>3. /\ Sending(u) /\ Pending(u) /\ ~dry[u] /\ exit[u] = "none"
      /\ r \in Records /\ f0 \in Files /\ p0 \in Paths
  <2>1. Sending(u) /\ Pending(u) /\ ~dry[u] /\ exit[u] = "none"
      BY <1>1 DEF Create, Sending, CountInv, CountOf, Listed, TypeOK
  <2>2. r \in Records
      BY <1>1, <1>2, <2>1, ItemTyped DEF Status
  <2> QED BY <1>1, <1>2, <2>1, <2>2 DEF TypeOK, Paths
<1>4. /\ pc[u] = "open" /\ pc'[u] = "copy"
      /\ remote'[p0] = [state |-> "partial", writers |-> remote[p0].writers \cup {u}]
      /\ \A p \in Paths \ {p0} : remote'[p] = remote[p]
      /\ \A v \in Uploaders \ {u} : pc'[v] = pc[v]
      /\ UNCHANGED <<exit, dry, list, report, file, disk>>
    BY <1>1, <1>2, <1>3 DEF Create, TypeOK, Goto, Path
<1>5. Touches(u)
    BY <1>3, <1>4 DEF Touches
<1>6. /\ Statuses(u, r) = {} /\ \A rec : Statuses(u, rec)' = Statuses(u, rec)
      /\ Rec(u)' = r /\ file'[u] = f0 /\ Path(u)' = p0 /\ Sending(u)'
  <2>1. Statuses(u, r) = {}
      BY <1>1, <1>2, <1>3, NewRecord
  <2> QED BY <1>2, <1>4, <2>1 DEF Statuses, Rec, Path, Sending
<1>7. \A p \in Paths \ {p0} : Stored(u, p) => Stored(u, p)'
    BY <1>4 DEF Stored, Alone
<1>8. \A f \in Files, rec \in Records : /\ <<f, rec>> \in Paths
                                        /\ <<f, rec>> = p0 <=> f = f0 /\ rec = r
    BY <1>2 DEF Paths
<1>9. ASSUME NEW f \in Files, NEW rec \in Records  PROVE Traced(u, f, rec)'
  <2>1. Traced(u, f, rec)
      BY <1>1 DEF SendOf
  <2>2. CASE <<f, rec>> = p0
    <3>1. AtWork(u, f, rec)'
        BY <1>4, <1>6, <1>8, <2>2 DEF AtWork, Files
    <3> QED BY <1>3, <1>4, <3>1 DEF Traced
  <2>3. CASE <<f, rec>> # p0
    <3>1. AtWork(u, f, rec) => AtWork(u, f, rec)'
        BY <1>2, <1>4, <1>6 DEF AtWork
    <3> QED BY <1>4, <1>6, <1>8, <2>1, <2>3, <3>1 DEF Traced
  <2> QED BY <2>2, <2>3
<1>10. "json" \in Files /\ "wav" \in Files
    BY DEF Files
<1>11. f0 = "wav" => Stored(u, <<"json", r>>)'
    BY <1>1, <1>2, <1>3, <1>7, <1>8, <1>10 DEF SendOf
<1>12. ASSUME NEW rec \in Records, "sent" \in Statuses(u, rec)
       PROVE  \A f \in Files : Stored(u, <<f, rec>>)'
  <2>1. rec # r
      BY <1>6, <1>12
  <2> QED BY <1>1, <1>7, <1>8, <1>12, <2>1 DEF SendOf
<1>13. ASSUME NEW rec \in Records, u \in remote'[<<"wav", rec>>].writers
       PROVE  Stored(u, <<"json", rec>>)'
  <2>1. CASE <<"wav", rec>> = p0
      BY <1>8, <1>10, <1>11, <2>1
  <2>2. CASE <<"wav", rec>> # p0
    <3>1. u \in remote[<<"wav", rec>>].writers
        BY <1>4, <1>8, <1>10, <1>13, <2>2
    <3>2. <<"json", rec>> # p0
      <4>1. SUFFICES ASSUME rec = r, f0 = "json"  PROVE FALSE
          BY <1>8, <1>10
      <4>2. Traced(u, "wav", r)
          BY <1>1, <1>3, <1>10 DEF SendOf
      <4>3. ~AtWork(u, "wav", r)
          BY <1>2, <4>1 DEF AtWork
      <4> QED BY <1>3, <1>6, <3>1, <4>1, <4>2, <4>3 DEF Traced
    <3> QED BY <1>1, <1>7, <1>8, <1>10, <3>1, <3>2 DEF SendOf
  <2> QED BY <2>1, <2>2
<1>14. SendOf(u)'
  <2>1. u \in remote'[p0].writers
      BY <1>4
  <2>2. (Sending(u) /\ file[u] = "wav" => Stored(u, <<"json", Rec(u)>>))'
      BY <1>6, <1>11 DEF Stored, Alone
  <2> QED BY <1>6, <1>9, <1>12, <1>13, <2>1, <2>2 DEF SendOf
<1>15. Listed(u)'
    BY <1>1, <1>3, <1>4, <1>6 DEF Listed, Pending, InFlight
<1>16. Crowded'
  <2>1. mixed' = (IF Copying(p0) = {} THEN mixed ELSE mixed \cup {p0}) /\ mixed \subseteq Paths
      BY <1>1, <1>2 DEF Create, Path, TypeOK
  <2>2. \A p \in mixed : remote[p].writers \subseteq remote'[p].writers
      BY <1>4, <2>1
  <2>3. \A v \in Copying(p0) : v # u /\ v \in remote[p0].writers
      BY <1>4 DEF Copying, SendInv, SendOf
  <2>4. p0 \in mixed' /\ p0 \notin mixed => \E v, w \in remote'[p0].writers : v # w
      BY <1>4, <2>1, <2>3
  <2> QED BY <2>1, <2>2, <2>4 DEF SendInv, Crowded
<1> QED BY <1>1, <1>4, <1>5, <1>14, <1>15, <1>16, SendStep

\* A file that no other run has opened is whole once it is copied.
LEMMA CopiedWhole ==
    ASSUME SendInv, NEW u \in Uploaders, pc[u] = "copy", Alone(u, Path(u)), NEW c \in Copied(u)
    PROVE  c = "whole"
<1>1. Copying(Path(u)) = {u}
    BY DEF SendInv, SendOf, Copying, Alone
<1>2. Path(u) \notin mixed
    BY DEF SendInv, Crowded, Alone
<1> QED BY <1>1, <1>2 DEF Copied

\* After its copy a file stays stored as long as its run is alone; the json is
\* followed by the wav, and the record is then reported as sent.
LEMMA CopySend ==
    ASSUME SendInv, NEW u \in Uploaders, Copy(u)
    PROVE  SendInv'
<1>1. CountInv' /\ CountInv /\ TypeOK /\ Listed(u) /\ SendOf(u)
    BY CopyCount DEF SendInv, CountInv
<1>2. PICK r, f0, p0 : r = Rec(u) /\ f0 = file[u] /\ p0 = <<f0, r>>
    OBVIOUS
<1>3. /\ pc[u] = "copy" /\ Sending(u) /\ Pending(u) /\ ~dry[u] /\ exit[u] = "none"
      /\ Path(u) = p0 /\ r \in Records /\ f0 \in Files /\ p0 \in Paths
  <2>1. pc[u] = "copy" /\ Sending(u) /\ Pending(u) /\ ~dry[u] /\ exit[u] = "none"
      BY <1>1 DEF Copy, Sending, CountInv, CountOf, Listed, TypeOK
  <2>2. r \in Records
      BY <1>1, <1>2, <2>1, ItemTyped DEF Status
  <2> QED BY <1>1, <1>2, <2>1, <2>2 DEF TypeOK, Paths, Path
<1>4. PICK c \in Copied(u) : remote' = [remote EXCEPT ![p0].state = c]
    BY <1>3 DEF Copy
<1>5. /\ \A p \in Paths : remote'[p].writers = remote[p].writers
      /\ \A p \in Paths \ {p0} : remote'[p] = remote[p]
      /\ remote'[p0].state = c
      /\ u \in remote[p0].writers
    BY <1>1, <1>3, <1>4 DEF TypeOK, SendOf
<1>6. Touches(u)
    BY <1>3, <1>5 DEF Touches
<1>7. \A p \in Paths : Stored(u, p) => Stored(u, p)'
  <2>1. Stored(u, p0)'
    <3>1. Alone(u, p0)' => c = "whole"
        BY <1>3, <1>5, CopiedWhole DEF Alone
    <3> QED BY <1>3, <1>5, <3>1 DEF Stored
  <2> QED BY <1>5, <2>1 DEF Stored, Alone
<1>8. Stored(u, p0)'
  <2>1. Alone(u, p0)' => c = "whole"
      BY <1>3, <1>5, CopiedWhole DEF Alone
  <2> QED BY <1>3, <1>5, <2>1 DEF Stored
<1>9. \A f \in Files, rec \in Records : <<f, rec>> \in Paths
    BY DEF Paths
<1>10. "json" \in Files /\ "wav" \in Files /\ \A f \in Files : f = "json" \/ f = "wav"
    BY DEF Files
<1>11. Crowded'
  <2>1. Leave(u) /\ mixed \subseteq Paths
      BY <1>1 DEF Copy, TypeOK
  <2> QED BY <1>5, <2>1, LeaveCrowded DEF SendInv
<1>12. UNCHANGED <<exit, dry, list, disk>>
    BY DEF Copy
<1>13. /\ report[u].valid \in Nat /\ report[u].skipped \in Nat
       /\ Len(report[u].items) \in Nat
       /\ report[u].valid + report[u].skipped = Len(report[u].items) + 1
  <2>1. InFlight(u) = 1
      BY <1>3 DEF InFlight
  <2> QED BY <1>1, <1>3, <2>1, LenProperties DEF TypeOK, Listed
<1>14. CASE f0 = "json"
  <2>1. /\ file'[u] = "wav" /\ pc'[u] = "open" /\ report' = report /\ Sending(u)'
        /\ \A v \in Uploaders \ {u} : pc'[v] = pc[v] /\ file'[v] = file[v]
      BY <1>1, <1>2, <1>14 DEF Copy, Goto, TypeOK, Sending
  <2>2. Rec(u)' = r /\ \A rec : Statuses(u, rec)' = Statuses(u, rec)
      BY <1>2, <1>12, <2>1 DEF Rec, Statuses
  <2>3. (Sending(u) /\ file[u] = "wav" => Stored(u, <<"json", Rec(u)>>))'
      BY <1>2, <1>8, <1>14, <2>2 DEF Stored, Alone
  <2>4. ASSUME NEW f \in Files, NEW rec \in Records  PROVE Traced(u, f, rec)'
    <3>1. Traced(u, f, rec)
        BY <1>1 DEF SendOf
    <3>2. AtWork(u, f, rec) => AtWork(u, f, rec)'
        BY <1>2, <2>1, <2>2 DEF AtWork
    <3> QED BY <1>5, <1>9, <1>12, <2>2, <3>1, <3>2 DEF Traced
  <2>5. ASSUME NEW rec \in Records
        PROVE  /\ "sent" \in Statuses(u, rec)' => \A f \in Files : Stored(u, <<f, rec>>)'
               /\ u \in remote'[<<"wav", rec>>].writers => Stored(u, <<"json", rec>>)'
      BY <1>1, <1>5, <1>7, <1>9, <1>10, <2>2 DEF SendOf
  <2>6. SendOf(u)'
      BY <2>1, <2>3, <2>4, <2>5 DEF SendOf
  <2>7. Listed(u)'
      BY <1>1, <1>3, <1>12, <2>1 DEF Listed, Pending, InFlight
  <2> QED BY <1>1, <1>6, <1>11, <1>12, <2>1, <2>6, <2>7, SendStep
<1>15. CASE f0 # "json"
  <2>1. f0 = "wav" /\ p0 = <<"wav", r>>
      BY <1>2, <1>3, <1>10, <1>15
  <2>2. /\ pc'[u] = "next" /\ file' = file /\ ~Sending(u)'
        /\ report'[u].items = Append(report[u].items, Item(u, "sent"))
        /\ report'[u].valid = report[u].valid
        /\ report'[u].skipped = report[u].skipped
        /\ \A v \in Uploaders \ {u} : pc'[v] = pc[v] /\ report'[v] = report[v]
      BY <1>1, <1>2, <2>1 DEF Copy, SendOK, Goto, TypeOK, Sending
  <2>3. /\ Len(report'[u].items) = Len(report[u].items) + 1
        /\ Len(report'[u].items) <= Len(list'[u])
        /\ \A i \in DOMAIN report'[u].items : report'[u].items[i].rec = list'[u][i]
        /\ Statuses(u, r) = {}
        /\ \A rec : Statuses(u, rec)' =
               Statuses(u, rec) \cup (IF rec = r THEN {"sent"} ELSE {})
    <3>1. "sent" \in Status /\ list'[u] = list[u]
        BY <1>12 DEF Status
    <3> QED BY <1>1, <1>2, <1>3, <2>2, <3>1, AddedItem
  <2>4. \A f \in Files : Stored(u, <<f, r>>)'
    <3>1. Stored(u, <<"json", r>>)
        BY <1>1, <1>2, <1>3, <2>1 DEF SendOf
    <3>2. Stored(u, <<"json", r>>)'
        BY <1>3, <1>7, <1>9, <1>10, <3>1
    <3> QED BY <1>8, <1>10, <2>1, <3>2
  <2>5. ASSUME NEW f \in Files, NEW rec \in Records  PROVE Traced(u, f, rec)'
    <3>1. Traced(u, f, rec)
        BY <1>1 DEF SendOf
    <3>2. CASE rec = r
        BY <1>3, <1>12, <2>3, <3>2 DEF Traced
    <3>3. CASE rec # r
      <4>1. ~AtWork(u, f, rec)
          BY <1>2, <3>3 DEF AtWork
      <4> QED BY <1>5, <1>9, <1>12, <2>3, <3>1, <3>3, <4>1 DEF Traced
    <3> QED BY <3>2, <3>3
  <2>6. ASSUME NEW rec \in Records
        PROVE  /\ "sent" \in Statuses(u, rec)' => \A f \in Files : Stored(u, <<f, rec>>)'
               /\ u \in remote'[<<"wav", rec>>].writers => Stored(u, <<"json", rec>>)'
    <3>1. CASE rec = r
        BY <1>10, <2>4, <3>1
    <3>2. CASE rec # r
        BY <1>1, <1>5, <1>7, <1>9, <1>10, <2>3, <3>2 DEF SendOf
    <3> QED BY <3>1, <3>2
  <2>7. SendOf(u)'
      BY <2>2, <2>5, <2>6 DEF SendOf, Sending
  <2>8. Listed(u)'
    <3>1. InFlight(u)' = 0
        BY <2>2 DEF InFlight
    <3> DEFINE n == Len(report[u].items)
               new == Len(report'[u].items)
    <3>2. new = n + 1 /\ n \in Nat /\ report[u].valid + report[u].skipped = n + 1
        BY <1>13, <2>3
    <3>3. /\ report'[u].valid = report[u].valid /\ report'[u].skipped = report[u].skipped
        BY <2>2
    <3> HIDE DEF n, new
    <3>4. report'[u].valid + report'[u].skipped = new + InFlight(u)'
        BY <3>1, <3>2, <3>3
    <3>5. report'[u].valid + report'[u].skipped = Len(report'[u].items) + InFlight(u)'
        BY <3>4 DEF new
    <3> QED BY <1>1, <1>3, <1>12, <2>2, <2>3, <3>5, LoopListed
  <2> QED BY <1>1, <1>6, <1>11, <1>12, <2>2, <2>7, <2>8, SendStep
<1> QED BY <1>14, <1>15

\* A step that changes nothing keeps the invariant.
LEMMA StutterSend == SendInv /\ UNCHANGED vars => SendInv'
<1> SUFFICES ASSUME SendInv, UNCHANGED vars  PROVE SendInv'
    OBVIOUS
<1>1. CountInv'
    BY StutterCount DEF SendInv
<1>2. \A u \in Uploaders : Listed(u)'
    BY DEF SendInv, Listed, Pending, InFlight, Sending, vars
<1>3. ASSUME NEW u \in Uploaders  PROVE SendOf(u)'
  <2>1. SendOf(u)
      BY DEF SendInv
  <2>2. \A p : Stored(u, p)' = Stored(u, p)
      BY DEF Stored, Alone, vars
  <2>3. \A rec : Statuses(u, rec)' = Statuses(u, rec)
      BY DEF Statuses, vars
  <2>4. \A f \in Files, rec \in Records : Traced(u, f, rec) => Traced(u, f, rec)'
      BY <2>3 DEF Traced, AtWork, Sending, Rec, vars
  <2>5. (pc[u] = "copy" => u \in remote[Path(u)].writers)'
      BY <2>1 DEF SendOf, Path, Rec, vars
  <2>6. (Sending(u) /\ file[u] = "wav" => Stored(u, <<"json", Rec(u)>>))'
      BY <2>1 DEF SendOf, Sending, Rec, Stored, Alone, vars
  <2>7. ASSUME NEW rec \in Records
        PROVE  /\ "sent" \in Statuses(u, rec)' => \A f \in Files : Stored(u, <<f, rec>>)'
               /\ u \in remote'[<<"wav", rec>>].writers => Stored(u, <<"json", rec>>)'
               /\ \A f \in Files : Traced(u, f, rec)'
      BY <2>1, <2>2, <2>3, <2>4 DEF SendOf, vars
  <2> QED BY <2>5, <2>6, <2>7 DEF SendOf
<1>4. Crowded'
    BY DEF SendInv, Crowded, vars
<1> QED BY <1>1, <1>2, <1>3, <1>4 DEF SendInv

-----------------------------------------------------------------------------
(* Theorems.                                                               *)

\* The invariant of the counts holds in every reachable state.
THEOREM UploaderInvariant == Spec => []CountInv
<1>1. ASSUME CountInv, [Next]_vars  PROVE CountInv'
  <2>1. ASSUME NEW u \in Uploaders, Start(u) \/ Step(u) \/ Kill(u)  PROVE CountInv'
    <3>1. CASE \/ Start(u) \/ Connect(u) \/ ConnectFails(u) \/ LoopEnds(u)
               \/ TruncateReport(u) \/ FillReport(u) \/ ReportLost(u)
        BY <1>1, <3>1, OutsideLoop
    <3>2. CASE \E s \in SkipStatus : Skip(u, s)
        BY <1>1, <3>2, SkipCount
    <3>3. CASE Prepare(u)
        BY <1>1, <3>3, PrepareCount
    <3>4. CASE OpenFails(u)
        BY <1>1, <3>4, OpenFailsCount
    <3>5. CASE Create(u)
        BY <1>1, <3>5, CreateCount
    <3>6. CASE Copy(u)
        BY <1>1, <3>6, CopyCount
    <3>7. CASE CopyFails(u)
        BY <1>1, <3>7, CopyFailsCount
    <3>8. CASE Kill(u)
        BY <1>1, <3>8, KillCount
    <3> QED BY <2>1, <3>1, <3>2, <3>3, <3>4, <3>5, <3>6, <3>7, <3>8 DEF Step
  <2> QED BY <1>1, <2>1, StutterCount DEF Next
<1> QED BY <1>1, InitCount, PTL DEF Spec

\* The numbers of upload.json agree with its items in every state of a run
\* that is not killed, whatever fails and in whatever order runs overlap.
THEOREM CountsAreRight == Spec => []Accounting
<1>1. CountInv => Accounting
    BY DEF CountInv, CountOf, Accounting
<1> QED BY <1>1, UploaderInvariant, PTL

\* What each run has created, reported and finished on the server agrees in
\* every reachable state.
THEOREM SendInvariant == Spec => []SendInv
<1>1. ASSUME SendInv, [Next]_vars  PROVE SendInv'
  <2>1. ASSUME NEW u \in Uploaders, Start(u) \/ Step(u) \/ Kill(u)  PROVE SendInv'
    <3>1. CASE \/ Start(u) \/ Connect(u) \/ ConnectFails(u) \/ LoopEnds(u)
               \/ TruncateReport(u) \/ FillReport(u) \/ ReportLost(u)
        BY <1>1, <3>1, OutsideSend
    <3>2. CASE \E s \in SkipStatus : Skip(u, s)
        BY <1>1, <3>2, SkipSend
    <3>3. CASE Prepare(u)
        BY <1>1, <3>3, PrepareSend
    <3>4. CASE OpenFails(u) \/ CopyFails(u)
        BY <1>1, <3>4, FailSend
    <3>5. CASE Create(u)
        BY <1>1, <3>5, CreateSend
    <3>6. CASE Copy(u)
        BY <1>1, <3>6, CopySend
    <3>7. CASE Kill(u)
        BY <1>1, <3>7, KillSend
    <3> QED BY <2>1, <3>1, <3>2, <3>3, <3>4, <3>5, <3>6, <3>7 DEF Step
  <2> QED BY <1>1, <2>1, StutterSend DEF Next
<1> QED BY <1>1, InitSend, PTL DEF Spec

\* A manifest that is whole has one item for each matched json, in order, and
\* its numbers add up to their total.
THEOREM ManifestIsComplete == Spec => []ReportComplete
<1>1. SendInv => ReportComplete
  <2> SUFFICES ASSUME SendInv, NEW u \in Uploaders, disk[u] = "whole"
               PROVE  /\ [i \in DOMAIN report[u].items |-> report[u].items[i].rec] = list[u]
                      /\ report[u].valid + report[u].skipped = Len(list[u])
      BY DEF ReportComplete
  <2>1. Listed(u) /\ TypeOK /\ exit[u] = "ok" /\ pc[u] = "exited" /\ ~Pending(u)
      BY DEF SendInv, CountInv, Listed
  <2>2. list[u] \in Seq(Records) /\ report[u].items \in Seq(Items)
    <3>1. CASE list[u] \in Lists
        BY <2>1, <3>1, UploaderAssumption DEF TypeOK
    <3>2. CASE list[u] = <<>>
        BY <2>1, <3>2 DEF TypeOK
    <3> QED BY <2>1, <3>1, <3>2 DEF TypeOK
  <2> DEFINE items == report[u].items
             l == list[u]
  <2>3. /\ Len(l) \in Nat /\ DOMAIN l = 1..Len(l)
        /\ Len(items) \in Nat /\ DOMAIN items = 1..Len(items)
        /\ l = [i \in 1..Len(l) |-> l[i]]
      BY <2>2, LenProperties
  <2>4. Len(items) = Len(l)
      BY <2>1, <2>3 DEF Listed, Pending
  <2>5. \A i \in DOMAIN items : items[i].rec = l[i]
      BY <2>1 DEF Listed
  <2>6. [i \in DOMAIN items |-> items[i].rec] = l
      BY <2>3, <2>4, <2>5
  <2>7. InFlight(u) = 0 /\ exit[u] # "killed"
      BY <2>1 DEF InFlight, Sending
  <2>8. report[u].valid + report[u].skipped = Len(l)
      BY <2>1, <2>3, <2>4, <2>7 DEF Listed
  <2> QED BY <2>6, <2>8
<1> QED BY <1>1, SendInvariant, PTL

\* What a report calls sent is on the server, json and wav complete, whatever
\* failed and was retried, unless another run has opened the same remote path.
THEOREM SentMeansStored == Spec => []SentIsStored
<1>1. SendInv => SentIsStored
    BY DEF SendInv, SendOf, SentIsStored, Stored
<1> QED BY <1>1, SendInvariant, PTL

\* No audio reaches the server before its metadata are complete there.
THEOREM MetadataGoFirst == Spec => []MetadataFirst
<1>1. SendInv => MetadataFirst
    BY DEF SendInv, SendOf, MetadataFirst, Stored
<1> QED BY <1>1, SendInvariant, PTL

\* No record leaves the machine but one that a real run is sending, or has
\* reported as sent or send_error.
THEOREM OnlyPreparedLeaves == Spec => []OnlyPreparedIsSent
<1>1. SendInv => OnlyPreparedIsSent
    BY DEF SendInv, SendOf, OnlyPreparedIsSent, Traced, AtWork
<1> QED BY <1>1, SendInvariant, PTL

\* A record whose json went out without its audio is reported as send_error by
\* every run that comes to its end.
THEOREM HalfSentIsSeen == Spec => []HalfSentIsReported
<1>1. SendInv => HalfSentIsReported
  <2> SUFFICES ASSUME SendInv, NEW u \in Uploaders, NEW rec \in Records,
                      exit[u] = "ok", Alone(u, <<"json", rec>>),
                      remote[<<"wav", rec>>].state # "whole",
                      remote[<<"wav", rec>>].writers \subseteq {u}
               PROVE  "send_error" \in Statuses(u, rec)
      BY DEF HalfSentIsReported
  <2>1. Listed(u) /\ SendOf(u) /\ ~Sending(u) /\ "json" \in Files /\ "wav" \in Files
      BY DEF SendInv, Listed, Sending, Files
  <2>2. Statuses(u, rec) # {} /\ Statuses(u, rec) \subseteq {"sent", "send_error"}
    <3>1. Traced(u, "json", rec) /\ u \in remote[<<"json", rec>>].writers
        BY <2>1 DEF SendOf, Alone
    <3> QED BY <2>1, <3>1 DEF Traced, AtWork
  <2>3. "sent" \notin Statuses(u, rec)
    <3>1. SUFFICES ASSUME "sent" \in Statuses(u, rec)  PROVE FALSE
        OBVIOUS
    <3>2. Stored(u, <<"wav", rec>>)
        BY <2>1, <3>1 DEF SendOf
    <3>3. Alone(u, <<"wav", rec>>)
        BY <3>2 DEF Stored, Alone
    <3> QED BY <3>2, <3>3 DEF Stored
  <2> QED BY <2>2, <2>3
<1> QED BY <1>1, SendInvariant, PTL
=============================================================================
