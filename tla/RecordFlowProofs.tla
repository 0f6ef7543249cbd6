-------------------------- MODULE RecordFlowProofs --------------------------
(***************************************************************************)
(* Proofs about FileName and RecordFlow: a name gives back what the        *)
(* exchange wrote into it, no call that an agent has taken notes of is lost*)
(* on the way to the lookup, a recording is sent with the notes of its own *)
(* call, and it is sent when and only when these are complete; for any     *)
(* calls, names, operations, groups and any size of the chunks.            *)
(***************************************************************************)
EXTENDS RecordFlow, SequenceTheorems, TLAPS

-----------------------------------------------------------------------------
(* Names.                                                                  *)

\* The parts of a name whose call has no agent's number in it.
LEMMA OutRoundTrip ==
    ASSUME NEW c, WellFormed(c), c.layout = "out"
    PROVE  Parse(RecordOf(c)) = {Meant(c)}
<1> DEFINE p == <<[kind |-> "OUT", val |-> 0], c.date, c.time, c.anexo, c.phone>>
<1>1. /\ RecordOf(c).exts = <<>> /\ RecordOf(c).parts = p /\ RecordOf(c).sep = "dash"
    BY DEF RecordOf, Written
<1>2. /\ Len(p) = 5 /\ p[1].kind = "OUT" /\ p[2] = c.date /\ p[3] = c.time
      /\ p[4] = c.anexo /\ p[5] = c.phone
    OBVIOUS
<1> HIDE DEF p
<1>3. Parts(RecordOf(c)) = p
    BY <1>1 DEF Parts
<1>4. Readings(RecordOf(c)) = {OutFields(p)}
    BY <1>1, <1>2, <1>3 DEF Readings
<1>5. OutFields(p) = Meant(c)
    BY <1>2 DEF OutFields, Meant, Dialled
<1>6. /\ Meant(c).date.kind = "date" /\ Meant(c).time.kind = "time"
      /\ IsI32(Meant(c).agent)
    BY DEF Meant, WellFormed, IsI32, Zero
<1> QED BY <1>4, <1>5, <1>6 DEF Parse

\* Counting from the end finds the last four parts, however many come before.
LEMMA EndRoundTrip ==
    ASSUME NEW c, WellFormed(c), c.layout = "number"
    PROVE  Parse(RecordOf(c)) = {Meant(c)}
<1> DEFINE p == <<c.first>> \o c.extra \o <<c.phone, c.date, c.time, c.agent>>
<1>1. /\ RecordOf(c).exts = <<>> /\ RecordOf(c).parts = p /\ RecordOf(c).sep = "underscore"
    BY DEF RecordOf, Written
<1>2. /\ c.extra \in Seq(Part) /\ Len(c.extra) \in Nat \ {0}
      /\ c.first \in Part /\ c.phone \in Part /\ c.date \in Part /\ c.time \in Part
      /\ c.agent \in Part
    BY DEF WellFormed, Call
<1>3. /\ Len(p) = Len(c.extra) + 5 /\ p[1] = c.first
      /\ p[Len(p) - 3] = c.phone /\ p[Len(p) - 2] = c.date
      /\ p[Len(p) - 1] = c.time /\ p[Len(p)] = c.agent
    BY <1>2
<1> HIDE DEF p
<1>4. Parts(RecordOf(c)) = p
    BY <1>1 DEF Parts
<1>5. RecordOf(c).sep # "dash" /\ ~(Len(p) < 6) /\ Digits(p[1])
  <2>1. Digits(c.first)
      BY Zenon DEF WellFormed
  <2>2. ~(Len(p) < 6)
      BY <1>2, <1>3
  <2>3. RecordOf(c).sep # "dash"
      BY <1>1
  <2> QED BY <1>3, <2>1, <2>2, <2>3
<1>6. Readings(RecordOf(c)) = {EndFields(p)}
    BY <1>4, <1>5, Zenon DEF Readings
<1>7. EndFields(p) = Meant(c)
    BY <1>3 DEF EndFields, Meant, Dialled
<1>8. /\ Meant(c).date.kind = "date" /\ Meant(c).time.kind = "time"
      /\ IsI32(Meant(c).agent)
    BY DEF Meant, WellFormed, IsI32
<1> QED BY <1>6, <1>7, <1>8 DEF Parse

\* Counting from the front finds the first six parts, however many follow.
LEMMA CidRoundTrip ==
    ASSUME NEW c, WellFormed(c), c.layout = "cid"
    PROVE  Parse(RecordOf(c)) = {Meant(c)}
<1> DEFINE p == <<c.first, Word, c.phone, c.date, c.time, c.agent>> \o c.extra
<1>1. /\ RecordOf(c).exts = <<>> /\ RecordOf(c).parts = p /\ RecordOf(c).sep = "underscore"
    BY DEF RecordOf, Written
<1>2. /\ c.extra \in Seq(Part) /\ Len(c.extra) \in Nat
      /\ c.first \in Part /\ c.phone \in Part /\ c.date \in Part /\ c.time \in Part
      /\ c.agent \in Part
    BY DEF WellFormed, Call
<1>3. /\ Len(p) = Len(c.extra) + 6 /\ p[1] = c.first /\ p[3] = c.phone
      /\ p[4] = c.date /\ p[5] = c.time /\ p[6] = c.agent
    BY <1>2
<1> HIDE DEF p
<1>4. Parts(RecordOf(c)) = p
    BY <1>1 DEF Parts
<1>5. RecordOf(c).sep # "dash" /\ ~(Len(p) < 6) /\ ~Digits(p[1])
  <2>1. ~Digits(c.first)
      BY Zenon DEF WellFormed
  <2>2. ~(Len(p) < 6)
      BY <1>2, <1>3
  <2>3. RecordOf(c).sep # "dash"
      BY <1>1
  <2> QED BY <1>3, <2>1, <2>2, <2>3
<1>6. Readings(RecordOf(c)) = {CidFields(p)}
    BY <1>4, <1>5, Zenon DEF Readings
<1>7. CidFields(p) = Meant(c)
    BY <1>3 DEF CidFields, Meant, Dialled
<1>8. /\ Meant(c).date.kind = "date" /\ Meant(c).time.kind = "time"
      /\ IsI32(Meant(c).agent)
    BY DEF Meant, WellFormed, IsI32
<1> QED BY <1>6, <1>7, <1>8 DEF Parse

\* Reading a name undoes writing it: detect_tipo_and_parse finds in the name of
\* any call what the exchange wrote into it, whatever the number of its parts.
THEOREM ParseUndoesWriting ==
    \A c : WellFormed(c) => Parse(RecordOf(c)) = {Meant(c)}
<1> SUFFICES ASSUME NEW c, WellFormed(c)  PROVE Parse(RecordOf(c)) = {Meant(c)}
    OBVIOUS
<1>1. c.layout \in {"out", "number", "cid"}
    BY DEF WellFormed, Call, Layouts
<1> QED BY <1>1, OutRoundTrip, EndRoundTrip, CidRoundTrip

-----------------------------------------------------------------------------
(* The inductive invariant.                                                *)

\* What the wavs are looked up by.
Wanted == {Input(wavs[i]) : i \in DOMAIN wavs}

\* What is known of each wav so far: the inputs are those of the wavs read.
InputsInv ==
    /\ wavs \in WavLists /\ db \in Databases
    /\ pc \in {"scan", "insert", "lookup", "write", "done"}
    /\ inputs \in Seq(Wanted)
    /\ Len(inputs) <= Len(wavs)
    /\ \A k \in DOMAIN inputs : inputs[k] = Input(wavs[k])
    /\ pc = "scan" <=> Len(inputs) < Len(wavs)

\* The table holds the first inputs, and all of them when it is queried.
TableInv ==
    /\ temporal \in Seq(Wanted)
    /\ Len(temporal) <= Len(inputs)
    /\ \A k \in DOMAIN temporal : temporal[k] = inputs[k]
    /\ pc \in {"lookup", "write", "done"} =>
          Carteras = {} \/ Len(temporal) = Len(inputs)

\* What is found for a position, one operation or none, stays, and nothing is
\* found only if there is nothing to find.
RowsInv ==
    /\ pc \in {"scan", "insert", "lookup"} => rows = <<>>
    /\ pc \in {"write", "done"} =>
          /\ DOMAIN rows = DOMAIN inputs
          /\ \A k \in DOMAIN inputs : rows[k] = {} \/ \E op \in db : rows[k] = {op}
          /\ \A k \in DOMAIN inputs : rows[k] \subseteq Found(k)
                                     /\ (rows[k] = {} => Found(k) = {})

FlowInv == InputsInv /\ TableInv /\ RowsInv

LEMMA InitFlow == Init => FlowInv
<1> SUFFICES ASSUME Init  PROVE FlowInv
    OBVIOUS
<1> USE DEF Init
<1>1. Len(wavs) > 0
  <2>1. wavs \in Seq(Name) /\ wavs # <<>>
      BY RecordFlowAssumption
  <2> QED BY <2>1, EmptySeq, LenProperties
<1>2. InputsInv
    BY <1>1 DEF InputsInv
<1>3. TableInv
    BY DEF TableInv
<1>4. RowsInv
    BY DEF RowsInv
<1> QED BY <1>2, <1>3, <1>4 DEF FlowInv

LEMMA ReadNameFlow ==
    ASSUME FlowInv, ReadName
    PROVE  FlowInv'
<1> USE DEF FlowInv
<1>1. PICK n \in Nat : n = Len(inputs)
    BY LenProperties DEF InputsInv
<1>2. /\ wavs \in Seq(Name) /\ n < Len(wavs) /\ Len(wavs) \in Nat
      /\ DOMAIN wavs = 1..Len(wavs) /\ n + 1 \in DOMAIN wavs
    BY <1>1, RecordFlowAssumption, LenProperties DEF InputsInv, ReadName
<1>3. /\ wavs' = wavs /\ db' = db /\ temporal' = temporal /\ rows' = rows
      /\ Wanted' = Wanted
    BY DEF ReadName, config, Wanted
<1>4. /\ inputs' \in Seq(Wanted)
      /\ Len(inputs') = n + 1 /\ DOMAIN inputs' = 1..(n + 1) /\ DOMAIN inputs = 1..n
      /\ \A k \in 1..n : inputs'[k] = inputs[k]
      /\ inputs'[n + 1] = Input(wavs[n + 1])
  <2>1. Input(wavs[n + 1]) \in Wanted /\ inputs \in Seq(Wanted)
      BY <1>2 DEF InputsInv, Wanted
  <2>2. inputs' = Append(inputs, Input(wavs[n + 1]))
      BY <1>1 DEF ReadName
  <2> QED BY <1>1, <2>1, <2>2, AppendProperties, LenProperties
<1>5. /\ pc' \in {"scan", "insert"}
      /\ pc' = "scan" <=> n + 1 # Len(wavs)
    BY <1>4 DEF ReadName
<1>6. InputsInv'
  <2>1. \A k \in 1..(n + 1) : inputs'[k] = Input(wavs[k])
    <3>1. \A k \in 1..n : inputs[k] = Input(wavs[k])
        BY <1>4 DEF InputsInv
    <3> QED BY <1>4, <3>1
  <2>2. n + 1 <= Len(wavs) /\ ((n + 1 # Len(wavs)) <=> (n + 1 < Len(wavs)))
    <3>1. PICK l \in Nat : l = Len(wavs)
        BY <1>2
    <3>2. n < l
        BY <1>2, <3>1
    <3> QED BY <3>1, <3>2
  <2>3. wavs \in WavLists /\ db \in Databases
      BY DEF InputsInv
  <2> QED BY <1>3, <1>4, <1>5, <2>1, <2>2, <2>3 DEF InputsInv
<1>7. TableInv'
  <2>1. /\ temporal \in Seq(Wanted) /\ DOMAIN temporal = 1..Len(temporal)
        /\ Len(temporal) \in Nat /\ Len(temporal) <= n
        /\ \A k \in DOMAIN temporal : temporal[k] = inputs[k]
      BY <1>1, LenProperties DEF TableInv
  <2>2. \A k \in DOMAIN temporal : temporal[k] = inputs'[k]
      BY <1>4, <2>1
  <2>3. Len(temporal) <= n + 1
      BY <2>1
  <2>4. pc' \notin {"lookup", "write", "done"}
      BY <1>5
  <2> QED BY <1>3, <1>4, <2>1, <2>2, <2>3, <2>4 DEF TableInv
<1>8. RowsInv'
    BY <1>3, <1>5 DEF RowsInv, ReadName
<1> QED BY <1>6, <1>7, <1>8

\* A prefix of a sequence with the chunk after it is a longer prefix.
LEMMA PrefixGrows ==
    ASSUME NEW S, NEW s \in Seq(S), NEW t \in Seq(S), NEW m \in Nat, NEW e \in Nat,
           m = Len(t), m < e, e <= Len(s), \A k \in 1..m : t[k] = s[k]
    PROVE  /\ t \o SubSeq(s, m + 1, e) \in Seq(S)
           /\ Len(t \o SubSeq(s, m + 1, e)) = e
           /\ \A k \in 1..e : (t \o SubSeq(s, m + 1, e))[k] = s[k]
<1>1. PICK b \in Int : b = m + 1
    OBVIOUS
<1>2. PICK c : c = SubSeq(s, b, e)
    OBVIOUS
<1>3. \A i \in b..e : s[i] \in S
    BY <1>1, ElementOfSeq
<1>4. /\ c \in Seq(S) /\ Len(c) = e - b + 1
      /\ \A i \in 1..(e - b + 1) : c[i] = s[b + i - 1]
    BY <1>1, <1>2, <1>3, SubSeqProperties
<1>5. /\ t \o c \in Seq(S) /\ Len(t \o c) = e
      /\ \A k \in 1..e : (t \o c)[k] = IF k <= m THEN t[k] ELSE c[k - m]
    BY <1>1, <1>4, ConcatProperties
<1>6. ASSUME NEW k \in 1..e  PROVE (t \o c)[k] = s[k]
  <2>1. CASE k <= m
      BY <1>5, <2>1
  <2>2. CASE ~(k <= m)
    <3> k \in Int /\ m \in Int
        OBVIOUS
    <3>1. PICK i \in Int : i = k - m
        BY ONLY k \in Int, m \in Int
    <3>2. i >= 1 /\ i <= e - b + 1
        BY <1>1, <2>2, <3>1
    <3>3. b + i - 1 = k
        BY <1>1, <3>1
    <3>4. i \in 1..(e - b + 1)
        BY <3>2
    <3>5. c[i] = s[k]
        BY <1>4, <3>3, <3>4
    <3> QED BY <1>5, <2>2, <3>1, <3>5
  <2> QED BY <2>1, <2>2
<1> QED BY <1>1, <1>2, <1>5, <1>6

LEMMA InsertFlow ==
    ASSUME FlowInv, Insert
    PROVE  FlowInv'
<1> USE DEF FlowInv
<1>1. /\ wavs' = wavs /\ db' = db /\ inputs' = inputs /\ rows' = rows
      /\ Wanted' = Wanted /\ Carteras' = Carteras
    BY DEF Insert, config, Wanted, Carteras
<1>2. pc = "insert" /\ pc' \in {"insert", "lookup"}
    BY DEF Insert
<1>3. InputsInv'
    BY <1>1, <1>2 DEF InputsInv
<1>4. RowsInv'
    BY <1>1, <1>2 DEF RowsInv
<1>5. TableInv'
  <2>1. CASE Carteras = {} \/ Len(temporal) = Len(inputs)
    <3>1. temporal' = temporal
        BY <2>1 DEF Insert
    <3> QED BY <1>1, <2>1, <3>1 DEF TableInv
  <2>2. CASE ~(Carteras = {} \/ Len(temporal) = Len(inputs))
    <3>1. temporal' = temporal \o Chunk /\ pc' = "insert"
        BY <1>2, <2>2 DEF Insert
    <3>2. PICK m \in Nat, n \in Nat : m = Len(temporal) /\ n = Len(inputs)
        BY LenProperties DEF TableInv, InputsInv
    <3>3. /\ temporal \in Seq(Wanted) /\ inputs \in Seq(Wanted)
          /\ m < n /\ DOMAIN temporal = 1..m /\ DOMAIN inputs = 1..n
          /\ \A k \in 1..m : temporal[k] = inputs[k]
        BY <2>2, <3>2, LenProperties DEF TableInv, InputsInv
    <3>4. PICK e \in Nat : e = Least({n, m + INSERT_CHUNK}) /\ m < e /\ e <= n
      <4>1. \/ n <= m + INSERT_CHUNK
            \/ m + INSERT_CHUNK <= n
          BY <3>2, RecordFlowAssumption
      <4>2. \E i \in {n, m + INSERT_CHUNK} : \A j \in {n, m + INSERT_CHUNK} : i <= j
          BY <4>1, <3>2, RecordFlowAssumption
      <4>3. /\ Least({n, m + INSERT_CHUNK}) \in {n, m + INSERT_CHUNK}
            /\ Least({n, m + INSERT_CHUNK}) <= n
          BY <4>2 DEF Least
      <4> QED BY <4>3, <3>2, <3>3, RecordFlowAssumption
    <3>5. temporal' = temporal \o SubSeq(inputs, m + 1, e)
        BY <3>1, <3>2, <3>4 DEF Chunk
    <3>6. /\ temporal' \in Seq(Wanted) /\ Len(temporal') = e
          /\ \A k \in 1..e : temporal'[k] = inputs[k]
      <4>1. m = Len(temporal) /\ m < e /\ e <= Len(inputs)
          BY <3>2, <3>4
      <4>2. inputs \in Seq(Wanted) /\ temporal \in Seq(Wanted)
            /\ \A k \in 1..m : temporal[k] = inputs[k]
          BY <3>3
      <4>3. /\ temporal \o SubSeq(inputs, m + 1, e) \in Seq(Wanted)
            /\ Len(temporal \o SubSeq(inputs, m + 1, e)) = e
            /\ \A k \in 1..e : (temporal \o SubSeq(inputs, m + 1, e))[k] = inputs[k]
          BY ONLY m \in Nat, e \in Nat, <4>1, <4>2, PrefixGrows
      <4> QED BY <3>5, <4>3, Zenon
    <3>7. DOMAIN temporal' = 1..e
        BY <3>6, LenProperties
    <3> QED BY <1>1, <3>1, <3>2, <3>4, <3>6, <3>7 DEF TableInv
  <2> QED BY <2>1, <2>2
<1> QED BY <1>3, <1>4, <1>5

LEMMA LookupFlow ==
    ASSUME FlowInv, Lookup
    PROVE  FlowInv'
<1> USE DEF FlowInv
<1>1. /\ wavs' = wavs /\ db' = db /\ inputs' = inputs /\ temporal' = temporal
      /\ client' = client /\ Wanted' = Wanted /\ Carteras' = Carteras
      /\ \A k : Found(k)' = Found(k)
    BY DEF Lookup, config, Wanted, Carteras, Found, Joins, HasRows, JoinedTables
<1>2. pc = "lookup" /\ pc' = "write"
    BY DEF Lookup
<1>3. InputsInv'
    BY <1>1, <1>2 DEF InputsInv
<1>4. TableInv'
    BY <1>1, <1>2 DEF TableInv
<1>5. RowsInv'
    BY <1>1, <1>2 DEF RowsInv, Lookup
<1> QED BY <1>3, <1>4, <1>5

\* The jsons and their codes change nothing of what they are made of.
LEMMA LaterFlow ==
    ASSUME FlowInv, WriteJson \/ Validate \/ UNCHANGED vars
    PROVE  FlowInv'
<1> USE DEF FlowInv
<1>1. /\ wavs' = wavs /\ db' = db /\ inputs' = inputs /\ temporal' = temporal
      /\ client' = client /\ rows' = rows /\ Wanted' = Wanted /\ Carteras' = Carteras
      /\ \A k : Found(k)' = Found(k)
    BY DEF WriteJson, Validate, vars, config, Wanted, Carteras, Found, Joins, HasRows, JoinedTables
<1>2. pc' = pc \/ (pc = "write" /\ pc' = "done")
    BY DEF WriteJson, Validate, vars
<1>3. InputsInv'
    BY <1>1, <1>2 DEF InputsInv
<1>4. TableInv'
    BY <1>1, <1>2 DEF TableInv
<1>5. RowsInv'
    BY <1>1, <1>2 DEF RowsInv
<1> QED BY <1>3, <1>4, <1>5

THEOREM FlowInvariant == Spec => []FlowInv
<1>1. FlowInv /\ [Next]_vars => FlowInv'
    BY ReadNameFlow, InsertFlow, LookupFlow, LaterFlow DEF Next
<1> QED BY <1>1, InitFlow, PTL DEF Spec

-----------------------------------------------------------------------------
(* The results.                                                            *)

\* A call is looked up by what its name says, with the agent of its anexo.
LEMMA InputOfCall ==
    ASSUME NEW wav, NEW c \in Calls, RecordOf(c) = RecordId(wav)
    PROVE  /\ Input(wav).parseOK /\ Input(wav).tipo = Meant(c).tipo
           /\ Input(wav).at = Instant(c.date, c.time) /\ Input(wav).phone = Dialled(c)
           /\ Input(wav).cid = Meant(c).cid /\ Input(wav).agent = Agent(Meant(c))
<1>1. WellFormed(c)
    BY RecordFlowAssumption
<1>2. Parse(RecordId(wav)) = {Meant(c)}
    BY <1>1, ParseUndoesWriting
<1>3. Input(wav) = [tipo |-> Meant(c).tipo, phone |-> Meant(c).phone,
                    at |-> Instant(Meant(c).date, Meant(c).time),
                    agent |-> Agent(Meant(c)), cid |-> Meant(c).cid, parseOK |-> TRUE]
  <2>1. {Meant(c)} # {}
      OBVIOUS
  <2>2. (CHOOSE f \in {Meant(c)} : TRUE) = Meant(c)
      OBVIOUS
  <2> QED BY <1>2, <2>1, <2>2, Zenon DEF Input
<1>4. /\ Meant(c).phone = Dialled(c) /\ Meant(c).date = c.date /\ Meant(c).time = c.time
    BY DEF Meant
<1> QED BY <1>3, <1>4

\* The agent that the matcher finds is the one who was on the phone.
LEMMA AgentOfCall ==
    ASSUME NEW c \in Calls, AgentOf(c) # None
    PROVE  Agent(Meant(c)) = AgentOf(c)
<1>1. c.layout \in {"out", "number", "cid"}
    BY RecordFlowAssumption DEF WellFormed, Call, Layouts
<1>2. None \notin DOMAIN Anexos
    BY RecordFlowAssumption DEF None, Part, Kinds
<1>3. CASE c.layout = "out"
  <2>1. c.anexo \in DOMAIN Anexos /\ AgentOf(c) = Anexos[c.anexo]
      BY <1>3 DEF AgentOf
  <2>2. Meant(c).tipo = 1 /\ Meant(c).anexo = c.anexo
      BY <1>3 DEF Meant
  <2> QED BY <2>1, <2>2 DEF Agent
<1>4. CASE c.layout # "out"
  <2>1. AgentOf(c) = c.agent
      BY <1>4, Zenon DEF AgentOf
  <2>2. Meant(c).agent = c.agent
      BY <1>4 DEF Meant
  <2>3. Meant(c).anexo = None
      BY <1>4 DEF Meant
  <2> QED BY <1>2, <2>1, <2>2, <2>3 DEF Agent
<1> QED BY <1>3, <1>4

\* What the exchange has written into the name of a recording is what the
\* matcher looks it up by, in each layout and for any number of parts.
THEOREM NamesAreUnderstood == Spec => []NamesParseBack
<1>1. FlowInv => NamesParseBack
  <2> SUFFICES ASSUME FlowInv, NEW k \in DOMAIN inputs, NEW c \in CallOf(k)
               PROVE  /\ inputs[k].parseOK
                      /\ inputs[k].at = Instant(c.date, c.time)
                      /\ inputs[k].phone = Dialled(c)
                      /\ c.layout = "cid" => inputs[k].cid = c.first
                      /\ AgentOf(c) # None => inputs[k].agent = AgentOf(c)
      BY DEF NamesParseBack
  <2>1. inputs[k] = Input(wavs[k]) /\ c \in Calls /\ RecordOf(c) = RecordId(wavs[k])
      BY DEF FlowInv, InputsInv, CallOf
  <2>2. c.layout = "cid" => Meant(c).cid = c.first
      BY DEF Meant
  <2> QED BY <2>1, <2>2, InputOfCall, AgentOfCall
<1> QED BY <1>1, FlowInvariant, PTL

\* No call with an agent's notes is lost between its name and the lookup, if the
\* joined tables have the rows of the note: the agents' file, the chunks of the
\* table and the conditions of the join all keep it.
THEOREM NotedCallsAreFound == Spec => []KnownCallIsFound
<1>1. FlowInv => KnownCallIsFound
  <2> SUFFICES ASSUME FlowInv, NEW k \in DOMAIN rows, NEW c \in CallOf(k),
                      NEW op \in db, Notes(op, c), HasRows(op)
               PROVE  rows[k] # {}
      BY DEF KnownCallIsFound
  <2>1. pc \in {"write", "done"} /\ DOMAIN rows = DOMAIN inputs /\ k \in DOMAIN inputs
      BY DEF FlowInv, InputsInv, RowsInv
  <2>2. inputs[k] = Input(wavs[k]) /\ c \in Calls /\ RecordOf(c) = RecordId(wavs[k])
      BY <2>1 DEF FlowInv, InputsInv, CallOf
  <2>3. /\ op.client = client /\ op.at \div DAY = DATE
        /\ op.agent = AgentOf(c) /\ op.phone = Dialled(c)
      BY DEF Notes
  <2>4. op.cartera \in Carteras
      BY <2>3 DEF Carteras
  <2>5. k \in DOMAIN temporal /\ temporal[k] = inputs[k]
    <3>1. Len(temporal) = Len(inputs)
        BY <2>1, <2>4 DEF FlowInv, TableInv
    <3>2. DOMAIN temporal = DOMAIN inputs
        BY <3>1, LenProperties DEF FlowInv, TableInv, InputsInv
    <3> QED BY <2>1, <3>2 DEF FlowInv, TableInv
  <2>6. op.agent # None
    <3>1. op.agent \in Part
        BY RecordFlowAssumption DEF FlowInv, InputsInv
    <3> QED BY <3>1 DEF None, Part, Kinds
  <2>7. /\ temporal[k].agent = op.agent /\ temporal[k].phone = op.phone
        /\ temporal[k].at = Instant(c.date, c.time) /\ temporal[k].cid = Meant(c).cid
        /\ temporal[k].tipo = Meant(c).tipo
      BY <2>2, <2>3, <2>5, <2>6, InputOfCall, AgentOfCall
  <2>8. CASE c.layout = "cid"
    <3>1. op.cid = c.first /\ Meant(c).cid = c.first /\ Meant(c).tipo = 2
        BY <2>8 DEF Notes, Meant
    <3>2. Joins(temporal[k], op)
        BY <2>3, <2>4, <2>7, <3>1 DEF Joins
    <3> QED BY <2>1, <2>5, <3>2 DEF FlowInv, RowsInv, Found
  <2>9. CASE c.layout # "cid"
    <3>1. /\ op.at \in (Instant(c.date, c.time) - WINDOW)..(Instant(c.date, c.time) + WINDOW)
          /\ Meant(c).tipo = 1
        BY <2>9 DEF Notes, Meant
    <3>2. Joins(temporal[k], op)
        BY <2>3, <2>4, <2>7, <3>1 DEF Joins
    <3> QED BY <2>1, <2>5, <3>2 DEF FlowInv, RowsInv, Found
  <2> QED BY <2>8, <2>9
<1> QED BY <1>1, FlowInvariant, PTL

-----------------------------------------------------------------------------
(* The jsons and their codes.                                              *)

\* The jsons that the inputs may give, and the codes that the jsons may get.
Made == {Json(k, probed) : k \in DOMAIN inputs, probed \in BOOLEAN}
Judged == {ErrorCode(jsons[k]) : k \in DOMAIN jsons}

\* Each json is made of its own input and row, and each code of its own json.
OwnJson == \A k \in DOMAIN jsons : \E probed \in BOOLEAN : jsons[k] = Json(k, probed)
OwnCode == \A k \in DOMAIN codes : codes[k] = ErrorCode(jsons[k])

\* The jsons come after the lookup, and the codes when the jsons are complete.
JsonsInv ==
    /\ byId \in Indexes
    /\ pc \in {"scan", "insert", "lookup"} => jsons = <<>> /\ codes = <<>>
    /\ pc = "write" => Len(codes) < Len(inputs)
    /\ jsons \in Seq(Made)
    /\ Len(jsons) <= Len(inputs)
    /\ OwnJson
    /\ codes \in Seq(Judged)
    /\ codes # <<>> => Len(jsons) = Len(inputs)
    /\ Len(codes) <= Len(jsons)
    /\ OwnCode

RecordInv == FlowInv /\ JsonsInv

\* One more json or code: the longer sequence has the old ones and the new one.
LEMMA AppendOne ==
    ASSUME NEW S, NEW s \in Seq(S), NEW e \in S, NEW n \in Nat, n = Len(s)
    PROVE  /\ Append(s, e) \in Seq(S) /\ Len(Append(s, e)) = n + 1
           /\ DOMAIN s = 1..n /\ DOMAIN Append(s, e) = 1..(n + 1)
           /\ \A k \in 1..n : Append(s, e)[k] = s[k]
           /\ Append(s, e)[n + 1] = e
           /\ Append(s, e) # <<>>
BY AppendProperties, LenProperties, EmptySeq

\* What a json is made of and what it is judged by stay the same while the
\* configuration, the inputs and the rows do.
LEMMA SameJsons ==
    ASSUME UNCHANGED <<client, byId, inputs, rows>>
    PROVE  /\ \A k, probed : Json(k, probed)' = Json(k, probed)
           /\ \A j : ErrorCode(j)' = ErrorCode(j)
<1>1. Columns' = Columns
    BY DEF Columns
<1>2. \A r : Data(r)' = Data(r)
    BY <1>1 DEF Data
<1>3. \A r : Resolve(r)' = Resolve(r)
    BY DEF Resolve
<1>4. \A k, probed : Json(k, probed)' = Json(k, probed)
    BY <1>2, <1>3 DEF Json
<1>5. \A j : Own(j)' = Own(j)
    BY DEF Own
<1>6. \A j : Required(j)' = Required(j)
    BY <1>5 DEF Required
<1>7. \A j : Outgoing(j)' = Outgoing(j)
    BY <1>5 DEF Outgoing
<1>8. \A j, c : Fails(j, c)' = Fails(j, c)
    BY <1>6, <1>7 DEF Fails
<1>9. \A j : ErrorCode(j)' = ErrorCode(j)
    BY <1>8 DEF ErrorCode
<1> QED BY <1>4, <1>9

\* Until the lookup is over there are neither jsons nor codes.
LEMMA EarlyJsons ==
    ASSUME RecordInv, FlowInv', ReadName \/ Insert \/ Lookup
    PROVE  JsonsInv'
<1>1. /\ jsons = <<>> /\ codes = <<>> /\ jsons' = <<>> /\ codes' = <<>>
      /\ pc' \in {"scan", "insert", "lookup"} \/ (pc = "lookup" /\ pc' = "write")
    BY DEF RecordInv, JsonsInv, ReadName, Insert, Lookup
<1>2. /\ Len(<<>>) = 0 /\ DOMAIN <<>> = {} /\ \A S : <<>> \in Seq(S)
    BY EmptySeq
<1>3. Len(inputs') \in Nat
    BY LenProperties DEF FlowInv, InputsInv
<1>4. pc' = "write" => 0 < Len(inputs')
  <2> SUFFICES ASSUME Lookup  PROVE 0 < Len(inputs')
      BY <1>1 DEF ReadName, Insert, Lookup
  <2>1. Len(wavs) > 0
    <3>1. wavs \in Seq(Name) /\ wavs # <<>>
        BY RecordFlowAssumption DEF RecordInv, FlowInv, InputsInv
    <3> QED BY <3>1, EmptySeq, LenProperties
  <2>2. inputs' = inputs /\ ~(Len(inputs) < Len(wavs)) /\ Len(inputs) \in Nat
      BY LenProperties DEF RecordInv, FlowInv, InputsInv, Lookup
  <2>3. Len(wavs) \in Nat
    <3>1. wavs \in Seq(Name)
        BY RecordFlowAssumption DEF RecordInv, FlowInv, InputsInv
    <3> QED BY <3>1, LenProperties
  <2> QED BY <2>1, <2>2, <2>3
<1>5. byId \in Indexes /\ byId' = byId /\ Indexes' = Indexes
    BY DEF RecordInv, JsonsInv, ReadName, Insert, Lookup, config, Indexes
<1> QED BY <1>1, <1>2, <1>3, <1>4, <1>5 DEF JsonsInv, OwnJson, OwnCode

\* One more json.
LEMMA WriteJsons ==
    ASSUME RecordInv, WriteJson
    PROVE  JsonsInv'
<1>1. PICK n \in Nat, m \in Nat : n = Len(jsons) /\ m = Len(inputs) /\ n < m
    BY LenProperties DEF RecordInv, FlowInv, InputsInv, JsonsInv, WriteJson
<1>2. PICK probed \in BOOLEAN : jsons' = Append(jsons, Json(n + 1, probed))
    BY <1>1 DEF WriteJson
<1>3. /\ pc = "write" /\ pc' = pc /\ inputs' = inputs /\ codes' = codes
      /\ UNCHANGED <<client, byId, inputs, rows>>
    BY DEF WriteJson, config
<1>4. /\ \A k, p : Json(k, p)' = Json(k, p)
      /\ \A j : ErrorCode(j)' = ErrorCode(j)
    BY <1>3, SameJsons
<1>5. Made' = Made
    BY <1>3, <1>4 DEF Made
<1>6. DOMAIN inputs = 1..m
    BY <1>1, LenProperties DEF RecordInv, FlowInv, InputsInv
<1>7. jsons \in Seq(Made) /\ Json(n + 1, probed) \in Made
  <2>1. jsons \in Seq(Made)
      BY DEF RecordInv, JsonsInv
  <2>2. n + 1 \in DOMAIN inputs
      BY <1>1, <1>6
  <2> QED BY <2>1, <2>2 DEF Made
<1>8. /\ jsons' \in Seq(Made) /\ Len(jsons') = n + 1
      /\ DOMAIN jsons = 1..n /\ DOMAIN jsons' = 1..(n + 1)
      /\ \A k \in 1..n : jsons'[k] = jsons[k]
      /\ jsons'[n + 1] = Json(n + 1, probed)
    BY <1>1, <1>2, <1>7, AppendOne
<1>9. codes = <<>> /\ Len(<<>>) = 0 /\ DOMAIN <<>> = {} /\ \A S : <<>> \in Seq(S)
    BY <1>1, EmptySeq DEF RecordInv, JsonsInv
<1>10. OwnJson'
  <2>1. OwnJson
      BY DEF RecordInv, JsonsInv
  <2>2. \A k \in 1..n : \E p \in BOOLEAN : jsons[k] = Json(k, p)
      BY <1>8, <2>1 DEF OwnJson
  <2>3. ASSUME NEW k \in 1..(n + 1)  PROVE \E p \in BOOLEAN : jsons'[k] = Json(k, p)
    <3>1. k \in 1..n \/ k = n + 1
        BY <1>1
    <3>2. CASE k = n + 1
        BY <1>8, <3>2, Zenon
    <3> QED BY <1>8, <2>2, <3>1, <3>2
  <2> QED BY <1>4, <1>8, <2>3 DEF OwnJson
<1>11. n + 1 <= m /\ 0 < m /\ 0 <= n + 1
    BY <1>1
<1>12. jsons' \in Seq(Made)' /\ codes' \in Seq(Judged)' /\ OwnCode'
    BY <1>3, <1>5, <1>8, <1>9 DEF OwnCode
<1>13. byId \in Indexes /\ Indexes' = Indexes
    BY DEF RecordInv, JsonsInv, Indexes
<1> QED BY <1>1, <1>3, <1>8, <1>9, <1>10, <1>11, <1>12, <1>13 DEF JsonsInv

\* One more code.
LEMMA ValidateJsons ==
    ASSUME RecordInv, Validate
    PROVE  JsonsInv'
<1>1. PICK n \in Nat, m \in Nat :
          n = Len(codes) /\ m = Len(jsons) /\ m = Len(inputs) /\ n < m
    BY LenProperties DEF RecordInv, FlowInv, InputsInv, JsonsInv, Validate
<1>2. codes' = Append(codes, ErrorCode(jsons[n + 1]))
    BY <1>1 DEF Validate
<1>3. /\ inputs' = inputs /\ jsons' = jsons /\ UNCHANGED <<client, byId, inputs, rows>>
    BY DEF Validate, config
<1>4. /\ \A k, p : Json(k, p)' = Json(k, p)
      /\ \A j : ErrorCode(j)' = ErrorCode(j)
    BY <1>3, SameJsons
<1>5. Judged' = Judged
    BY <1>3, <1>4 DEF Judged
<1>6. DOMAIN jsons = 1..m
  <2>1. PICK S : jsons \in Seq(S)
      BY DEF RecordInv, JsonsInv
  <2> QED BY <1>1, <2>1, LenProperties
<1>7. codes \in Seq(Judged) /\ ErrorCode(jsons[n + 1]) \in Judged
  <2>1. codes \in Seq(Judged)
      BY DEF RecordInv, JsonsInv
  <2>2. n + 1 \in DOMAIN jsons
      BY <1>1, <1>6
  <2> QED BY <2>1, <2>2 DEF Judged
<1>8. /\ codes' \in Seq(Judged) /\ Len(codes') = n + 1
      /\ DOMAIN codes = 1..n /\ DOMAIN codes' = 1..(n + 1)
      /\ \A k \in 1..n : codes'[k] = codes[k]
      /\ codes'[n + 1] = ErrorCode(jsons[n + 1])
    BY <1>1, <1>2, <1>7, AppendOne
<1>9. OwnCode'
  <2>1. OwnCode
      BY DEF RecordInv, JsonsInv
  <2>2. \A k \in 1..n : codes[k] = ErrorCode(jsons[k])
      BY <1>8, <2>1 DEF OwnCode
  <2>3. \A k \in 1..(n + 1) : k \in 1..n \/ k = n + 1
      BY <1>1
  <2>4. \A k \in 1..(n + 1) : codes'[k] = ErrorCode(jsons[k])
      BY <1>8, <2>2, <2>3
  <2> QED BY <1>3, <1>4, <1>8, <2>4 DEF OwnCode
<1>10. pc' \in {"write", "done"} /\ (pc' = "write" => n + 1 # m)
    BY <1>1, <1>8, <1>3 DEF Validate
<1>11. n + 1 <= m /\ (n + 1 # m => n + 1 < m)
    BY <1>1
<1>12. codes' \in Seq(Judged)'
    BY <1>5, <1>8
<1>13. jsons' \in Seq(Made)' /\ OwnJson'
  <2>1. Made' = Made
      BY <1>3, <1>4 DEF Made
  <2>2. jsons \in Seq(Made) /\ OwnJson
      BY DEF RecordInv, JsonsInv
  <2>3. OwnJson'
      BY <1>3, <1>4, <2>2 DEF OwnJson
  <2> QED BY <1>3, <2>1, <2>2, <2>3
<1>14. /\ Len(codes') = n + 1 /\ Len(jsons') = m /\ Len(inputs') = m
    BY <1>1, <1>3, <1>8
<1>15. /\ pc' = "write" => Len(codes') < Len(inputs')
       /\ Len(codes') <= Len(jsons') /\ Len(jsons') = Len(inputs')
       /\ Len(jsons') <= Len(inputs')
    BY <1>10, <1>11, <1>14
<1>16. byId' \in Indexes'
    BY <1>3 DEF RecordInv, JsonsInv, Indexes
<1> QED BY <1>9, <1>10, <1>12, <1>13, <1>15, <1>16 DEF JsonsInv

\* The invariant of the jsons and codes holds in every reachable state.
THEOREM RecordInvariant == Spec => []RecordInv
<1>1. Init => RecordInv
  <2> SUFFICES ASSUME Init PROVE JsonsInv
      BY InitFlow DEF RecordInv
  <2> QED BY EmptySeq DEF Init, JsonsInv, OwnJson, OwnCode
<1>2. ASSUME RecordInv, [Next]_vars  PROVE RecordInv'
  <2>1. FlowInv'
      BY <1>2, ReadNameFlow, InsertFlow, LookupFlow, LaterFlow DEF RecordInv, Next
  <2>2. CASE ReadName \/ Insert \/ Lookup
      BY <1>2, <2>1, <2>2, EarlyJsons DEF RecordInv
  <2>3. CASE WriteJson
      BY <1>2, <2>1, <2>3, WriteJsons DEF RecordInv
  <2>4. CASE Validate
      BY <1>2, <2>1, <2>4, ValidateJsons DEF RecordInv
  <2>5. CASE UNCHANGED vars
    <3>1. UNCHANGED <<client, byId, pc, inputs, rows, jsons, codes>>
        BY <2>5 DEF vars, config
    <3>2. /\ \A k, p : Json(k, p)' = Json(k, p)
          /\ \A j : ErrorCode(j)' = ErrorCode(j)
        BY <3>1, SameJsons
    <3>3. Made' = Made /\ Judged' = Judged
        BY <3>1, <3>2 DEF Made, Judged
    <3>4. JsonsInv'
        BY <1>2, <3>1, <3>2, <3>3 DEF RecordInv, JsonsInv, OwnJson, OwnCode, Indexes
    <3> QED BY <2>1, <3>4 DEF RecordInv
  <2> QED BY <1>2, <2>2, <2>3, <2>4, <2>5 DEF Next
<1> QED BY <1>1, <1>2, PTL DEF Spec

-----------------------------------------------------------------------------
(* The validation.                                                         *)

\* A json is accepted when it fails none of the checks.
LEMMA AcceptedPasses ==
    ASSUME NEW j
    PROVE  ErrorCode(j) = "" <=>
             /\ ~Fails(j, "lookup_not_ok") /\ ~Fails(j, "descrip_rpta_otro")
             /\ ~Fails(j, "missing_required_field") /\ ~Fails(j, "empty_optional_field")
             /\ ~Fails(j, "ffprobe_not_ok")
<1> DEFINE failed == {i \in 1..5 : Fails(j, Checks[i])}
<1>1. /\ DOMAIN Checks = 1..5
      /\ Checks[1] = "lookup_not_ok" /\ Checks[2] = "descrip_rpta_otro"
      /\ Checks[3] = "missing_required_field" /\ Checks[4] = "empty_optional_field"
      /\ Checks[5] = "ffprobe_not_ok"
    BY DEF Checks
<1>2. ErrorCode(j) = IF failed = {} THEN "" ELSE Checks[Least(failed)]
    BY <1>1 DEF ErrorCode
<1>3. failed = {} <=> \A i \in 1..5 : ~Fails(j, Checks[i])
    OBVIOUS
<1>4. (\A i \in 1..5 : ~Fails(j, Checks[i])) <=>
          /\ ~Fails(j, Checks[1]) /\ ~Fails(j, Checks[2]) /\ ~Fails(j, Checks[3])
          /\ ~Fails(j, Checks[4]) /\ ~Fails(j, Checks[5])
  <2>1. \A i \in 1..5 : i = 1 \/ i = 2 \/ i = 3 \/ i = 4 \/ i = 5
      OBVIOUS
  <2>2. 1 \in 1..5 /\ 2 \in 1..5 /\ 3 \in 1..5 /\ 4 \in 1..5 /\ 5 \in 1..5
      OBVIOUS
  <2> QED BY <2>1, <2>2, Zenon
<1>5. failed # {} => Checks[Least(failed)] # ""
  <2> SUFFICES ASSUME failed # {}  PROVE Checks[Least(failed)] # ""
      OBVIOUS
  <2>1. failed \subseteq 1..5
      OBVIOUS
  <2> HIDE DEF failed
  <2>2. \E i \in failed : \A k \in failed : i <= k
    <3>1. CASE 1 \in failed
        BY <2>1, <3>1
    <3>2. CASE 1 \notin failed /\ 2 \in failed
        BY <2>1, <3>2
    <3>3. CASE 1 \notin failed /\ 2 \notin failed /\ 3 \in failed
        BY <2>1, <3>3
    <3>4. CASE 1 \notin failed /\ 2 \notin failed /\ 3 \notin failed /\ 4 \in failed
        BY <2>1, <3>4
    <3>5. CASE 1 \notin failed /\ 2 \notin failed /\ 3 \notin failed /\ 4 \notin failed
      <4>1. \A i \in failed : i = 5
          BY <2>1, <3>5
      <4> QED BY <4>1
    <3> QED BY <2>1, <3>1, <3>2, <3>3, <3>4, <3>5
  <2>3. Least(failed) \in 1..5
      BY <2>1, <2>2 DEF Least
  <2>4. \A i \in 1..5 : i = 1 \/ i = 2 \/ i = 3 \/ i = 4 \/ i = 5
      OBVIOUS
  <2>5. \A i \in 1..5 : Checks[i] # ""
      BY <1>1, <2>4
  <2> QED BY <2>3, <2>5
<1> HIDE DEF failed
<1> QED BY <1>1, <1>2, <1>3, <1>4, <1>5

\* What is judged of the k-th recording is made of its own input, and of one
\* operation that was found for it, if any.
LEMMA JudgedRecord ==
    ASSUME RecordInv, NEW k \in DOMAIN codes
    PROVE  /\ k \in DOMAIN inputs /\ inputs[k] = Input(wavs[k]) /\ k \in DOMAIN wavs
           /\ codes[k] = ErrorCode(jsons[k])
           /\ \E probed \in BOOLEAN : jsons[k] = Json(k, probed)
           /\ rows[k] = {} \/ \E op \in db : /\ rows[k] = {op} /\ k \in DOMAIN temporal
                                             /\ temporal[k] = inputs[k]
                                             /\ Joins(inputs[k], op)
<1>1. pc \in {"write", "done"}
  <2>1. codes # <<>>
      BY EmptySeq
  <2> QED BY <2>1 DEF RecordInv, FlowInv, InputsInv, JsonsInv
<1>2. k \in DOMAIN jsons /\ k \in DOMAIN inputs /\ k \in DOMAIN wavs
  <2>1. wavs \in Seq(Name)
      BY RecordFlowAssumption DEF RecordInv, FlowInv, InputsInv
  <2>2. /\ codes \in Seq(Judged) /\ jsons \in Seq(Made) /\ inputs \in Seq(Wanted)
        /\ Len(codes) <= Len(jsons) /\ Len(jsons) <= Len(inputs) /\ Len(inputs) <= Len(wavs)
      BY DEF RecordInv, FlowInv, InputsInv, JsonsInv
  <2>3. PICK c \in Nat, j \in Nat, i \in Nat, w \in Nat :
            c = Len(codes) /\ j = Len(jsons) /\ i = Len(inputs) /\ w = Len(wavs)
      BY <2>1, <2>2, LenProperties
  <2>4. /\ DOMAIN codes = 1..c /\ DOMAIN jsons = 1..j /\ DOMAIN inputs = 1..i
        /\ DOMAIN wavs = 1..w
      BY <2>1, <2>2, <2>3, LenProperties
  <2>5. c <= j /\ j <= i /\ i <= w
      BY <2>2, <2>3
  <2> QED BY <2>4, <2>5
<1>3. codes[k] = ErrorCode(jsons[k]) /\ \E probed \in BOOLEAN : jsons[k] = Json(k, probed)
  <2>1. OwnCode /\ OwnJson
      BY DEF RecordInv, JsonsInv
  <2> QED BY <1>2, <2>1 DEF OwnCode, OwnJson
<1>4. inputs[k] = Input(wavs[k])
    BY <1>2 DEF RecordInv, FlowInv, InputsInv
<1>5. \/ rows[k] = {}
      \/ \E op \in db : rows[k] = {op} /\ op \in Found(k)
    BY <1>1, <1>2 DEF RecordInv, FlowInv, RowsInv
<1>6. ASSUME NEW op \in db, op \in Found(k)
      PROVE  k \in DOMAIN temporal /\ temporal[k] = inputs[k] /\ Joins(inputs[k], op)
  <2>1. k \in DOMAIN temporal /\ Joins(temporal[k], op)
      BY <1>6 DEF Found
  <2>2. temporal[k] = inputs[k]
      BY <2>1 DEF RecordInv, FlowInv, TableInv
  <2> QED BY <2>1, <2>2
<1> QED BY <1>2, <1>3, <1>4, <1>5, <1>6

\* The common fields of the outgoing json, and the client's own.
LEMMA OutgoingFields ==
    ASSUME NEW j
    PROVE  /\ \A key \in General : /\ key \in DOMAIN Outgoing(j)
                                   /\ Outgoing(j)[key] = Common(j)[key]
           /\ \A key \in DOMAIN Own(j) \ General : /\ key \in DOMAIN Outgoing(j)
                                                   /\ Outgoing(j)[key] = Own(j)[key]
           /\ DOMAIN Outgoing(j) = General \cup DOMAIN Own(j)
<1>1. DOMAIN Common(j) = General
    BY DEF Common
<1> QED BY <1>1, Zenon DEF Outgoing

\* The common fields are filled when the phone has digits, the agent a name, the
\* audio a duration and the operation an answer and a remark.
CommonFilled(j) ==
    /\ j.phone.kind # "empty" /\ j.probed /\ j.named
    /\ Present(Get(j, "nombre_rpta")) /\ Present(Get(j, "observacion"))

LEMMA CommonFields ==
    ASSUME NEW j
    PROVE  (\A key \in General : Present(Outgoing(j)[key])) <=> CommonFilled(j)
<1>1. \A key \in General : Outgoing(j)[key] = Common(j)[key]
    BY OutgoingFields
<1>2. /\ Common(j)["telefono"] = IF j.phone.kind = "empty" THEN "blank" ELSE "text"
      /\ Common(j)["id_agente"] = "int"
      /\ Common(j)["duration_sec"] = IF j.probed THEN "float" ELSE "null"
      /\ Common(j)["nombre_agente"] = IF j.named THEN "text" ELSE "null"
      /\ Common(j)["nombre_rpta"] = Get(j, "nombre_rpta")
      /\ Common(j)["observacion"] = Get(j, "observacion")
      /\ Common(j)["cliente"] = "text" /\ Common(j)["fecha_gestion"] = "text"
      /\ Common(j)["hora"] = "text" /\ Common(j)["descrip_rpta"] = "text"
    BY DEF Common, General
<1>3. /\ Present("text") /\ Present("int") /\ Present("float")
      /\ ~Present("blank") /\ ~Present("null")
    BY DEF Present
<1>4. (\A key \in General : Present(Common(j)[key])) <=> CommonFilled(j)
  <2>1. (\A key \in General : Present(Common(j)[key])) <=>
            /\ Present(Common(j)["cliente"]) /\ Present(Common(j)["telefono"])
            /\ Present(Common(j)["id_agente"]) /\ Present(Common(j)["fecha_gestion"])
            /\ Present(Common(j)["hora"]) /\ Present(Common(j)["duration_sec"])
            /\ Present(Common(j)["nombre_agente"]) /\ Present(Common(j)["descrip_rpta"])
            /\ Present(Common(j)["nombre_rpta"]) /\ Present(Common(j)["observacion"])
      BY Zenon DEF General
  <2>2. Present(Common(j)["telefono"]) <=> j.phone.kind # "empty"
      BY <1>2, <1>3
  <2>3. Present(Common(j)["duration_sec"]) <=> j.probed
      BY <1>2, <1>3
  <2>4. Present(Common(j)["nombre_agente"]) <=> j.named
      BY <1>2, <1>3
  <2> QED BY <1>2, <1>3, <2>1, <2>2, <2>3, <2>4, Zenon DEF CommonFilled
<1> QED BY <1>1, <1>4

\* An accepted recording was found, and its agent has a name.
LEMMA AcceptedIsNamed ==
    ASSUME NEW j, ErrorCode(j) = ""
    PROVE  j.lookup /\ j.named
<1>1. ~Fails(j, "lookup_not_ok") /\ ~Fails(j, "missing_required_field")
    BY AcceptedPasses
<1>2. j.lookup
    BY <1>1 DEF Fails
<1>3. \A key \in Required(j) \ Optional : Present(Outgoing(j)[key])
    BY <1>1 DEF Fails
<1>4. General \subseteq Required(j) \ Optional
    BY DEF Required, General, Optional
<1>5. CommonFilled(j)
    BY <1>3, <1>4, CommonFields
<1> QED BY <1>2, <1>5 DEF CommonFilled

\* The notes that are sent with a recording are those of its own call: its phone,
\* its agent, its id or its time.
THEOREM SentIsOfItsCall == Spec => []SentDataIsOfCall
<1>1. RecordInv => SentDataIsOfCall
  <2> SUFFICES ASSUME RecordInv, NEW k \in DOMAIN codes, codes[k] = ""
               PROVE  \E c \in CallOf(k) : \E op \in rows[k] : Notes(op, c)
      BY DEF SentDataIsOfCall
  <2>1. PICK probed \in BOOLEAN : jsons[k] = Json(k, probed)
      BY JudgedRecord
  <2>2. jsons[k].lookup = (rows[k] # {}) /\ jsons[k].named = (inputs[k].agent \in Named)
    <3>1. Json(k, probed).lookup = (rows[k] # {})
        BY Zenon DEF Json
    <3>2. Json(k, probed).named = (inputs[k].agent \in Named)
        BY Zenon DEF Json
    <3> QED BY <2>1, <3>1, <3>2
  <2>3. rows[k] # {} /\ inputs[k].agent \in Named
      BY <2>2, JudgedRecord, AcceptedIsNamed
  <2>4. PICK op \in db : rows[k] = {op} /\ Joins(inputs[k], op)
      BY <2>3, JudgedRecord
  <2>5. inputs[k] = Input(wavs[k]) /\ k \in DOMAIN wavs /\ wavs \in WavLists
      BY JudgedRecord DEF RecordInv, FlowInv, InputsInv
  <2>6. inputs[k].agent # Zero
      BY <2>3, InputAssumption
  <2>7. Parse(RecordId(wavs[k])) # {}
    <3>1. Parse(RecordId(wavs[k])) = {} => Input(wavs[k]) = Fallback
        BY Zenon DEF Input
    <3>2. Fallback.agent = Zero
        BY DEF Fallback
    <3> QED BY <2>5, <2>6, <3>1, <3>2
  <2>8. PICK c \in Calls : RecordOf(c) = RecordId(wavs[k])
      BY <2>5, <2>7, InputAssumption
  <2>9. /\ inputs[k].tipo = Meant(c).tipo /\ inputs[k].at = Instant(c.date, c.time)
        /\ inputs[k].phone = Dialled(c) /\ inputs[k].cid = Meant(c).cid
        /\ inputs[k].agent = Agent(Meant(c))
      BY <2>5, <2>8, InputOfCall
  <2>10. AgentOf(c) # None
    <3> SUFFICES ASSUME AgentOf(c) = None  PROVE FALSE
        OBVIOUS
    <3>0. None \notin Part
        BY DEF None, Part, Kinds
    <3>1. CASE c.layout # "out"
      <4>1. AgentOf(c) = c.agent
          BY <3>1, Zenon DEF AgentOf
      <4>2. c.agent \in Part
          BY RecordFlowAssumption DEF WellFormed, Call
      <4> QED BY <3>0, <4>1, <4>2
    <3>2. CASE c.layout = "out"
      <4>1. Agent(Meant(c)) = op.agent /\ op.agent \in Part
          BY <2>4, <2>9, RecordFlowAssumption DEF Joins, RecordInv, FlowInv, InputsInv
      <4>2. CASE c.anexo \in DOMAIN Anexos
        <5>1. AgentOf(c) = Anexos[c.anexo]
            BY <3>2, <4>2 DEF AgentOf
        <5>2. Agent(Meant(c)) = Anexos[c.anexo]
            BY <3>2, <4>2 DEF Agent, Meant
        <5> QED BY <3>0, <4>1, <5>1, <5>2
      <4>3. CASE c.anexo \notin DOMAIN Anexos
        <5>1. Agent(Meant(c)) = Zero
            BY <3>2, <4>3 DEF Agent, Meant
        <5> QED BY <2>6, <2>9, <5>1
      <4> QED BY <4>2, <4>3
    <3> QED BY <3>1, <3>2
  <2>11. /\ op.client = client /\ op.at \div DAY = DATE
         /\ op.agent = AgentOf(c) /\ op.phone = Dialled(c)
      BY <2>4, <2>9, <2>10, AgentOfCall DEF Joins
  <2>12. CASE c.layout = "cid"
    <3>1. Meant(c).tipo = 2 /\ Meant(c).cid = c.first
        BY <2>12 DEF Meant
    <3>2. op.cid = c.first
        BY <2>4, <2>9, <3>1 DEF Joins
    <3>3. Notes(op, c)
        BY <2>11, <2>12, <3>2 DEF Notes
    <3> QED BY <2>4, <2>8, <3>3 DEF CallOf
  <2>13. CASE c.layout # "cid"
    <3>1. Meant(c).tipo = 1
        BY <2>13 DEF Meant
    <3>2. op.at \in (Instant(c.date, c.time) - WINDOW)..(Instant(c.date, c.time) + WINDOW)
        BY <2>4, <2>9, <3>1 DEF Joins
    <3>3. Notes(op, c)
        BY <2>11, <2>13, <3>2 DEF Notes
    <3> QED BY <2>4, <2>8, <3>3 DEF CallOf
  <2> QED BY <2>12, <2>13
<1> QED BY <1>1, RecordInvariant, PTL

\* What the uploader finds under a key is what the matcher read of the column.
LEMMA CellOfKey ==
    ASSUME NEW j, NEW op, j.data = Data({op}), NEW key \in DOMAIN Columns
    PROVE  /\ Get(j, key) = Read(op.cols[Columns[key]])
           /\ Present(Get(j, key)) <=> Usable(op.cols[Columns[key]])
           /\ Get(j, key) = "blank" <=> op.cols[Columns[key]] = "blank"
<1>1. /\ DOMAIN Data({op}) = DOMAIN Columns
      /\ Data({op})[key] = Read((CHOOSE o \in {op} : TRUE).cols[Columns[key]])
    BY DEF Data
<1>2. (CHOOSE o \in {op} : TRUE) = op
    OBVIOUS
<1>3. Get(j, key) = Read(op.cols[Columns[key]])
    BY <1>1, <1>2, Zenon DEF Get
<1>4. \A cell : /\ Present(Read(cell)) <=> Usable(cell)
                /\ Read(cell) = "blank" <=> cell = "blank"
    BY DEF Present, Read, Usable
<1> QED BY <1>3, <1>4

\* The group of a code is that of the file, or the default.
LEMMA GroupOfCode ==
    ASSUME RecordInv, NEW op
    PROVE  Resolve({op}) # "OTRO" <=> \E g \in DOMAIN Groups : op.code \in Groups[g]
<1> DEFINE known == {o.code : o \in {op}} \cap DOMAIN byId
<1>1. /\ DOMAIN byId = UNION {Groups[g] : g \in DOMAIN Groups}
      /\ \A c \in DOMAIN byId : byId[c] \in DOMAIN Groups
    BY DEF RecordInv, JsonsInv, Indexes
<1>2. op.code \in DOMAIN byId <=> \E g \in DOMAIN Groups : op.code \in Groups[g]
    BY <1>1
<1>3. Resolve({op}) = IF known = {} THEN "OTRO" ELSE byId[CHOOSE c \in known : TRUE]
    BY DEF Resolve
<1>4. \A c \in known : c = op.code /\ c \in DOMAIN byId
    OBVIOUS
<1>5. known = {} <=> op.code \notin DOMAIN byId
    OBVIOUS
<1> HIDE DEF known
<1>6. ASSUME known # {}  PROVE Resolve({op}) # "OTRO"
  <2>1. (CHOOSE c \in known : TRUE) \in DOMAIN byId
      BY <1>4, <1>6
  <2> QED BY <1>1, <1>3, <1>6, <2>1, InputAssumption
<1> QED BY <1>2, <1>3, <1>5, <1>6

\* What natura's json lacks when it is refused.
LEMMA NaturaFields ==
    ASSUME NEW j, NEW op, client = "natura", j.data = Data({op})
    PROVE  /\ ~Fails(j, "missing_required_field") <=>
                 CommonFilled(j) /\ \A col \in Needed : Usable(op.cols[col])
           /\ ~Fails(j, "empty_optional_field") <=>
                 op.cols["MONTO_COMP_SOLES"] # "blank" /\ op.cols["FEC_COMP_PAGO"] # "blank"
<1>1. /\ Columns["codigo_deudor"] = "COD_DEUDOR" /\ Columns["ciclo"] = "CICLO"
      /\ Columns["dias_atraso"] = "DIAS_ATRASO" /\ Columns["deuda_total"] = "SALDO_CORREGIDO"
      /\ Columns["monto_campana"] = "MONTO_MIN_PAGAR_CAMPANA"
      /\ Columns["nombre_deudor"] = "DEUDOR"
      /\ Columns["monto_compromiso"] = "MONTO_COMP_SOLES"
      /\ Columns["fecha_compromiso"] = "FEC_COMP_PAGO"
    BY DEF Columns
<1>2. NaturaKeys \cup Optional \subseteq DOMAIN Columns
    BY DEF Columns, NaturaKeys, Optional
<1>3. /\ DOMAIN Own(j) = NaturaKeys \cup Optional
      /\ \A key \in NaturaKeys \cup Optional : Own(j)[key] = Get(j, key)
    BY DEF Own, Taken
<1>4. \A key \in NaturaKeys \cup Optional : key \notin General
    BY DEF NaturaKeys, Optional, General
<1>5. \A key \in NaturaKeys \cup Optional :
          key \in DOMAIN Outgoing(j) /\ Outgoing(j)[key] = Get(j, key)
    BY <1>3, <1>4, OutgoingFields
<1>6. /\ Required(j) = General \cup NaturaKeys
      /\ \A key \in General \cup NaturaKeys : key \notin Optional
    BY DEF Required, General, NaturaKeys, Optional
<1>7. ~Fails(j, "missing_required_field") <=>
          \A key \in General \cup NaturaKeys : Present(Outgoing(j)[key])
    BY <1>6 DEF Fails
<1>8. (\A key \in NaturaKeys : Present(Get(j, key))) <=>
          \A col \in Needed : Usable(op.cols[col])
  <2>1. \A key \in NaturaKeys : Present(Get(j, key)) <=> Usable(op.cols[Columns[key]])
      BY <1>2, CellOfKey
  <2>2. Needed = {"COD_DEUDOR", "CICLO", "DIAS_ATRASO", "SALDO_CORREGIDO",
                  "MONTO_MIN_PAGAR_CAMPANA", "DEUDOR"}
      BY DEF Needed
  <2> QED BY <1>1, <2>1, <2>2, Zenon DEF NaturaKeys
<1>9. ~Fails(j, "missing_required_field") <=>
          CommonFilled(j) /\ \A key \in NaturaKeys : Present(Get(j, key))
    BY <1>5, <1>7, CommonFields
<1>10. ~Fails(j, "empty_optional_field") <=>
          Get(j, "monto_compromiso") # "blank" /\ Get(j, "fecha_compromiso") # "blank"
  <2>1. ~Fails(j, "empty_optional_field") <=>
            \A key \in Optional \cap DOMAIN Outgoing(j) : Outgoing(j)[key] # "blank"
      BY DEF Fails
  <2> QED BY <1>5, <2>1, Zenon DEF Optional
<1>11. /\ Get(j, "monto_compromiso") = "blank" <=> op.cols["MONTO_COMP_SOLES"] = "blank"
       /\ Get(j, "fecha_compromiso") = "blank" <=> op.cols["FEC_COMP_PAGO"] = "blank"
  <2>1. "monto_compromiso" \in DOMAIN Columns /\ "fecha_compromiso" \in DOMAIN Columns
      BY <1>2 DEF Optional
  <2> QED BY <1>1, <2>1, CellOfKey
<1> QED BY <1>8, <1>9, <1>10, <1>11

\* What maf's json lacks when it is refused; its currency must be a known one.
LEMMA MafFields ==
    ASSUME NEW j, NEW op, client = "maf", j.data = Data({op})
    PROVE  /\ ~Fails(j, "missing_required_field") <=>
                 /\ CommonFilled(j) /\ \A col \in Needed : Usable(op.cols[col])
                 /\ Usable(op.cols["NID_OPECODOUT"])
                 /\ op.cols["MONEDA"] \in {"1", "2"}
                 /\ op.cols["MONTO_COMP_DOLARES"] # "blank"
           /\ ~Fails(j, "empty_optional_field") <=>
                 op.cols["MONTO_COMP_SOLES"] # "blank" /\ op.cols["FEC_COMP"] # "blank"
<1> DEFINE Plain == {"n_cuota", "concatenado", "fec_vencimiento", "monto_cuota",
                     "ultimo_tramo", "categoria", "documento", "deudor", "nid_opecodout"}
<1> DEFINE Dollars == "monto_compromiso_dolares"
<1>1. /\ Columns["n_cuota"] = "N_CUOTA" /\ Columns["concatenado"] = "CONCATENADO"
      /\ Columns["fec_vencimiento"] = "FEC_VENCIMIENTO" /\ Columns["moneda"] = "MONEDA"
      /\ Columns["monto_cuota"] = "MONTO_CUOTA" /\ Columns["ultimo_tramo"] = "ULTIMO_TRAMO"
      /\ Columns["categoria"] = "CATEGORIA" /\ Columns["documento"] = "DOCUMENTO"
      /\ Columns["deudor"] = "DEUDOR" /\ Columns["nid_opecodout"] = "NID_OPECODOUT"
      /\ Columns["fec_comp"] = "FEC_COMP" /\ Columns["monto_comp_soles"] = "MONTO_COMP_SOLES"
      /\ Columns["monto_comp_dolares"] = "MONTO_COMP_DOLARES"
    BY DEF Columns
<1>2. Plain \cup {"moneda", "fec_comp", "monto_comp_soles", "monto_comp_dolares"}
          \subseteq DOMAIN Columns
    BY DEF Columns
<1>3. /\ DOMAIN Own(j) = MafKeys \cup Optional \cup {"placa", Dollars}
      /\ \A key \in Plain : Own(j)[key] = Get(j, key)
      /\ Own(j)["moneda"] = Currency(Get(j, "moneda"))
      /\ Own(j)["fecha_compromiso"] = Get(j, "fec_comp")
      /\ Own(j)["monto_compromiso"] = Get(j, "monto_comp_soles")
      /\ Own(j)[Dollars] = IF Get(j, "monto_comp_dolares") = "null" THEN "float"
                           ELSE Get(j, "monto_comp_dolares")
    BY DEF Own, MafKeys, Optional
<1>4. /\ MafKeys = Plain \cup {"moneda"}
      /\ \A key \in MafKeys \cup Optional \cup {Dollars} : key \notin General
    BY DEF MafKeys, Optional, General
<1>5. \A key \in MafKeys \cup Optional \cup {Dollars} :
          key \in DOMAIN Outgoing(j) /\ Outgoing(j)[key] = Own(j)[key]
    BY <1>3, <1>4, OutgoingFields
<1>6. /\ Required(j) = General \cup MafKeys \cup {Dollars}
      /\ \A key \in General \cup MafKeys \cup {Dollars} : key \notin Optional
    BY DEF Required, General, MafKeys, Optional
<1>7. ~Fails(j, "missing_required_field") <=>
          \A key \in General \cup MafKeys \cup {Dollars} : Present(Outgoing(j)[key])
    BY <1>6 DEF Fails
<1> HIDE DEF Plain, Dollars
<1>8. ~Fails(j, "missing_required_field") <=>
          /\ CommonFilled(j) /\ \A key \in Plain : Present(Get(j, key))
          /\ Present(Currency(Get(j, "moneda"))) /\ Present(Own(j)[Dollars])
    BY <1>3, <1>4, <1>5, <1>7, CommonFields
<1>9. \A key \in Plain : Present(Get(j, key)) <=> Usable(op.cols[Columns[key]])
    BY <1>2, CellOfKey
<1>10. Present(Currency(Get(j, "moneda"))) <=> op.cols["MONEDA"] \in {"1", "2"}
  <2>1. Get(j, "moneda") = Read(op.cols["MONEDA"])
      BY <1>1, <1>2, CellOfKey
  <2> QED BY <2>1 DEF Present, Currency, Read
<1>11. Present(Own(j)[Dollars]) <=> op.cols["MONTO_COMP_DOLARES"] # "blank"
  <2>1. Get(j, "monto_comp_dolares") = Read(op.cols["MONTO_COMP_DOLARES"])
      BY <1>1, <1>2, CellOfKey
  <2> QED BY <1>3, <2>1 DEF Present, Read
<1>12. op.cols["MONEDA"] \in {"1", "2"} => Usable(op.cols["MONEDA"])
    BY DEF Usable
<1>13. Needed = {"N_CUOTA", "CONCATENADO", "FEC_VENCIMIENTO", "MONEDA",
                 "MONTO_CUOTA", "ULTIMO_TRAMO", "CATEGORIA", "DOCUMENTO", "DEUDOR"}
    BY DEF Needed
<1>14. (\A key \in Plain : Usable(op.cols[Columns[key]])) /\ Usable(op.cols["MONEDA"]) <=>
           (\A col \in Needed : Usable(op.cols[col])) /\ Usable(op.cols["NID_OPECODOUT"])
    BY <1>1, <1>13, Zenon DEF Plain
<1>15. ~Fails(j, "empty_optional_field") <=>
          Get(j, "monto_comp_soles") # "blank" /\ Get(j, "fec_comp") # "blank"
  <2>1. ~Fails(j, "empty_optional_field") <=>
            \A key \in Optional \cap DOMAIN Outgoing(j) : Outgoing(j)[key] # "blank"
      BY DEF Fails
  <2> QED BY <1>3, <1>5, <2>1, Zenon DEF Optional
<1>16. /\ Get(j, "monto_comp_soles") = "blank" <=> op.cols["MONTO_COMP_SOLES"] = "blank"
       /\ Get(j, "fec_comp") = "blank" <=> op.cols["FEC_COMP"] = "blank"
  <2>1. \A key \in DOMAIN Columns :
            Get(j, key) = "blank" <=> op.cols[Columns[key]] = "blank"
      BY CellOfKey
  <2>2. "monto_comp_soles" \in DOMAIN Columns /\ "fec_comp" \in DOMAIN Columns
      BY <1>2
  <2> QED BY <1>1, <2>1, <2>2, Zenon
<1> QED BY <1>8, <1>9, <1>10, <1>11, <1>12, <1>14, <1>15, <1>16

\* What the json of any other client lacks when it is refused: every configured
\* column is required.
LEMMA OtherFields ==
    ASSUME NEW j, NEW op, client \notin {"natura", "maf"}, j.data = Data({op})
    PROVE  /\ ~Fails(j, "missing_required_field") <=>
                 CommonFilled(j) /\ \A col \in Needed : Usable(op.cols[col])
           /\ ~Fails(j, "empty_optional_field") <=>
                 op.cols["MONTO_COMP_SOLES"] # "blank" /\ op.cols["FEC_COMP_PAGO"] # "blank"
<1>1. /\ Columns["nombre_rpta"] = "NOMBRE_RPTA" /\ Columns["observacion"] = "OBSERVACION"
      /\ Columns["monto_compromiso"] = "MONTO_COMP_SOLES"
      /\ Columns["fecha_compromiso"] = "FEC_COMP_PAGO"
      /\ Optional \cup {"nombre_rpta", "observacion"} \subseteq DOMAIN Columns
      /\ DOMAIN Columns \cap General = {"nombre_rpta", "observacion"}
    BY DEF Columns, Optional, General
<1>2. DOMAIN j.data = DOMAIN Columns
    BY DEF Data
<1>3. /\ DOMAIN Own(j) = DOMAIN Columns \ General
      /\ \A key \in DOMAIN Columns \ General : Own(j)[key] = Get(j, key)
    BY <1>2 DEF Own, Taken
<1>4. \A key \in Optional : key \notin General
    BY DEF Optional, General
<1>5. \A key \in DOMAIN Columns \ General :
          key \in DOMAIN Outgoing(j) /\ Outgoing(j)[key] = Get(j, key)
    BY <1>3, OutgoingFields
<1>6. Required(j) = General \cup (DOMAIN Columns \ General)
    BY <1>3 DEF Required
<1>7. ~Fails(j, "missing_required_field") <=>
          \A key \in (General \cup DOMAIN Columns) \ Optional : Present(Outgoing(j)[key])
    BY <1>6 DEF Fails
<1>8. ~Fails(j, "missing_required_field") <=>
          CommonFilled(j) /\ \A key \in DOMAIN Columns \ Optional : Present(Get(j, key))
  <2>1. (\A key \in (General \cup DOMAIN Columns) \ Optional : Present(Outgoing(j)[key])) <=>
            /\ \A key \in General : Present(Outgoing(j)[key])
            /\ \A key \in (DOMAIN Columns \ General) \ Optional : Present(Outgoing(j)[key])
      BY <1>4
  <2>2. (\A key \in (DOMAIN Columns \ General) \ Optional : Present(Outgoing(j)[key])) <=>
            \A key \in (DOMAIN Columns \ General) \ Optional : Present(Get(j, key))
      BY <1>5
  <2>3. CommonFilled(j) => \A key \in DOMAIN Columns \cap General : Present(Get(j, key))
      BY <1>1 DEF CommonFilled
  <2> QED BY <1>7, <2>1, <2>2, <2>3, CommonFields
<1>9. \A key \in DOMAIN Columns : Present(Get(j, key)) <=> Usable(op.cols[Columns[key]])
    BY CellOfKey
<1>10. Needed = {Columns[key] : key \in DOMAIN Columns \ Optional}
    BY DEF Needed
<1>11. (\A key \in DOMAIN Columns \ Optional : Present(Get(j, key))) <=>
           \A col \in Needed : Usable(op.cols[col])
    BY <1>9, <1>10, Zenon
<1>12. ~Fails(j, "empty_optional_field") <=>
          Get(j, "monto_compromiso") # "blank" /\ Get(j, "fecha_compromiso") # "blank"
  <2>1. ~Fails(j, "empty_optional_field") <=>
            \A key \in Optional \cap DOMAIN Outgoing(j) : Outgoing(j)[key] # "blank"
      BY DEF Fails
  <2>2. \A key \in Optional : key \in DOMAIN Outgoing(j) /\ Outgoing(j)[key] = Get(j, key)
      BY <1>1, <1>4, <1>5
  <2> QED BY <2>1, <2>2, Zenon DEF Optional
<1>13. /\ Get(j, "monto_compromiso") = "blank" <=> op.cols["MONTO_COMP_SOLES"] = "blank"
       /\ Get(j, "fecha_compromiso") = "blank" <=> op.cols["FEC_COMP_PAGO"] = "blank"
  <2>1. \A key \in DOMAIN Columns :
            Get(j, key) = "blank" <=> op.cols[Columns[key]] = "blank"
      BY CellOfKey
  <2>2. "monto_compromiso" \in DOMAIN Columns /\ "fecha_compromiso" \in DOMAIN Columns
      BY <1>1 DEF Optional
  <2> QED BY <1>1, <2>1, <2>2, Zenon
<1> QED BY <1>8, <1>11, <1>12, <1>13

\* A recording is sent when and only when it is complete.
THEOREM SentIffComplete == Spec => []AcceptedIfComplete
<1>1. ASSUME RecordInv, NEW k \in DOMAIN codes
      PROVE  codes[k] = "" <=> \E op \in rows[k] : Complete(k, op)
  <2>1. PICK probed \in BOOLEAN : jsons[k] = Json(k, probed)
      BY <1>1, JudgedRecord
  <2>2. PICK j : j = jsons[k]
      OBVIOUS
  <2>3. /\ j.phone = inputs[k].phone /\ j.data = Data(rows[k]) /\ j.group = Resolve(rows[k])
        /\ j.lookup <=> rows[k] # {}
        /\ j.named <=> inputs[k].agent \in Named
    <3>1. /\ Json(k, probed).phone = inputs[k].phone
          /\ Json(k, probed).data = Data(rows[k])
          /\ Json(k, probed).group = Resolve(rows[k])
        BY DEF Json
    <3>2. /\ Json(k, probed).lookup = (rows[k] # {})
          /\ Json(k, probed).named = (inputs[k].agent \in Named)
        BY Zenon DEF Json
    <3> QED BY <2>1, <2>2, <3>1, <3>2
  <2>4. codes[k] = ErrorCode(j)
      BY <1>1, <2>2, JudgedRecord
  <2>5. CASE rows[k] = {}
    <3>1. Fails(j, "lookup_not_ok")
        BY <2>3, <2>5 DEF Fails
    <3> QED BY <2>4, <2>5, <3>1, AcceptedPasses
  <2>6. CASE rows[k] # {}
    <3>1. PICK op \in db : rows[k] = {op} /\ Joins(inputs[k], op)
        BY <1>1, <2>6, JudgedRecord
    <3>2. /\ j.data = Data({op}) /\ op \in db /\ db \in Databases
          /\ j.phone = op.phone /\ (j.named <=> op.agent \in Named)
        BY <1>1, <2>3, <3>1 DEF Joins, RecordInv, FlowInv, InputsInv
    <3>3. /\ ~Fails(j, "lookup_not_ok")
          /\ ~Fails(j, "descrip_rpta_otro") <=>
                \E g \in DOMAIN Groups : op.code \in Groups[g]
          /\ ~Fails(j, "ffprobe_not_ok") <=> j.probed
      <4>1. ~Fails(j, "lookup_not_ok")
          BY <2>3, <2>6 DEF Fails
      <4>2. Fails(j, "descrip_rpta_otro") <=> Resolve({op}) = "OTRO"
          BY <2>3, <3>1 DEF Fails
      <4>3. Fails(j, "ffprobe_not_ok") <=> ~j.probed
          BY DEF Fails
      <4> QED BY <1>1, <4>1, <4>2, <4>3, GroupOfCode
    <3>4. CommonFilled(j) <=>
              /\ op.phone.kind # "empty" /\ j.probed /\ op.agent \in Named
              /\ Usable(op.cols["NOMBRE_RPTA"]) /\ Usable(op.cols["OBSERVACION"])
      <4>1. /\ "nombre_rpta" \in DOMAIN Columns /\ "observacion" \in DOMAIN Columns
            /\ Columns["nombre_rpta"] = "NOMBRE_RPTA" /\ Columns["observacion"] = "OBSERVACION"
          BY DEF Columns
      <4>2. /\ Present(Get(j, "nombre_rpta")) <=> Usable(op.cols["NOMBRE_RPTA"])
            /\ Present(Get(j, "observacion")) <=> Usable(op.cols["OBSERVACION"])
          BY <3>2, <4>1, CellOfKey
      <4> QED BY <3>2, <4>2 DEF CommonFilled
    <3>5. Complete(k, op) <=>
              /\ CommonFilled(j) /\ \E g \in DOMAIN Groups : op.code \in Groups[g]
              /\ \A col \in Needed : Usable(op.cols[col])
              /\ client = "maf" =>
                    op.cols["MONEDA"] \in {"1", "2"} /\ op.cols["MONTO_COMP_DOLARES"] # "blank"
              /\ op.cols["MONTO_COMP_SOLES"] # "blank"
              /\ op.cols[IF client = "maf" THEN "FEC_COMP" ELSE "FEC_COMP_PAGO"] # "blank"
        BY <2>2, <3>4 DEF Complete
    <3>6. (\E g \in DOMAIN Groups : op.code \in Groups[g]) => Usable(op.cols["NID_OPECODOUT"])
        BY <3>2, InputAssumption
    <3>7. ErrorCode(j) = "" <=> Complete(k, op)
      <4>1. CASE client = "natura"
          BY <3>2, <3>3, <3>4, <3>5, <4>1, AcceptedPasses, NaturaFields
      <4>2. CASE client = "maf"
          BY <3>2, <3>3, <3>4, <3>5, <3>6, <4>2, AcceptedPasses, MafFields
      <4>3. CASE client \notin {"natura", "maf"}
          BY <3>2, <3>3, <3>4, <3>5, <4>3, AcceptedPasses, OtherFields
      <4> QED BY <4>1, <4>2, <4>3
    <3> QED BY <2>4, <3>1, <3>7
  <2> QED BY <2>5, <2>6
<1>2. RecordInv => AcceptedIfComplete
    BY <1>1 DEF AcceptedIfComplete
<1> QED BY <1>2, RecordInvariant, PTL
=============================================================================
