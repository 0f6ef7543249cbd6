------------------------------ MODULE RecordFlow ----------------------------
(***************************************************************************)
(* What one run makes of the data of its recordings: metadata-matcher-rs   *)
(* reads the name of each wav, resolves the agent, asks the database which *)
(* operation of an agent belongs to the call and writes the json;          *)
(* audio-uploader-go builds the outgoing json from it and accepts or       *)
(* refuses the recording.  Files, failures and retries are in Matcher and  *)
(* Uploader; this module has the data that they abstract.                  *)
(*                                                                         *)
(* A value of a database column or of a json is kept as a cell: "text",    *)
(* "blank" (a string of blanks), "int", "float", "null", "other" (a column *)
(* type the matcher does not read), and for currencies "1", "2", "SOLES"   *)
(* and "DOLARES".                                                          *)
(***************************************************************************)
EXTENDS FileName, Integers, FiniteSets

CONSTANTS
    Clients,       \* client codes
    Calls,         \* the calls that the exchange has recorded
    WavLists,      \* what wav/ may hold, sorted: sequences of names (without any
                   \* the matcher ends at once, see Matcher)
    Databases,     \* the operations that the database may hold, sets of
                   \* [client, cartera, agent, phone, cid, at, code, cols, joined];
                   \* joined: the tables that have a row for the operation
    Anexos,        \* agents.yml: the agent of each anexo
    Named,         \* agents.yml: the agents that have a name
    Groups,        \* rpta_opecodout.yml: the codes of each group
    DATE,          \* --date, as the number of the day
    WINDOW,        \* window_sec_tipo1
    INSERT_CHUNK

ASSUME RecordFlowAssumption ==
    /\ \A c \in Calls : WellFormed(c)
    /\ \A l \in WavLists : l \in Seq(Name) \ {<<>>} /\ \A i \in DOMAIN l : l[i].exts # <<>>
    /\ \A d \in Databases : \A op \in d : op.agent \in Part
    /\ DOMAIN Anexos \subseteq Part
    /\ DATE \in Nat \ {0} /\ WINDOW \in 0..(DAY - 1) /\ INSERT_CHUNK \in Nat \ {0}

VARIABLES
    client,   \* the client's configuration
    wavs,     \* wav/*.wav
    db,       \* the operations of the database
    byId,     \* RptaOpeCodOutIndex: the group of each code
    pc,       \* "scan", "insert", "lookup", "write", "done"
    inputs,   \* what each wav is looked up by, in order; k is the position
    temporal, \* the #temporal table
    rows,     \* the operation found for each k, a set with one, or {}
    jsons,    \* matched/<record>.json
    codes     \* the error code the uploader gives each json, "" when it is accepted

vars == <<client, wavs, db, byId, pc, inputs, temporal, rows, jsons, codes>>
config == <<client, wavs, db, byId>>

Least(S) == CHOOSE i \in S : \A j \in S : i <= j

\* groups is a HashMap: of the groups that list a code, the one that comes
\* first in this run gets it.
Indexes == {f \in [UNION {Groups[g] : g \in DOMAIN Groups} -> DOMAIN Groups] :
                \A c \in DOMAIN f : c \in Groups[f[c]]}

Init ==
    /\ client \in Clients /\ wavs \in WavLists /\ db \in Databases /\ byId \in Indexes
    /\ pc = "scan"
    /\ inputs = <<>> /\ temporal = <<>> /\ rows = <<>> /\ jsons = <<>> /\ codes = <<>>

-----------------------------------------------------------------------------
(* Reading the names.                                                      *)

\* What a name that cannot be parsed is looked up by: phone "0", agent 0, 1970.
Fallback == [tipo |-> 1, phone |-> Zero, at |-> 0, agent |-> Zero, cid |-> None,
             parseOK |-> FALSE]

\* Fault: anexos are resolved for incoming calls only.
AgentUnresolved(f) == IF f.tipo = 2 /\ f.anexo \in DOMAIN Anexos THEN Anexos[f.anexo] ELSE f.agent

\* An anexo that agents.yml does not know leaves the agent 0.
Agent(f) == IF f.tipo = 1 /\ f.anexo \in DOMAIN Anexos THEN Anexos[f.anexo] ELSE f.agent

Input(wav) ==
    LET parsed == Parse(RecordId(wav))
    IN  IF parsed = {} THEN Fallback
        ELSE LET f == CHOOSE f \in parsed : TRUE
             IN  [tipo |-> f.tipo, phone |-> f.phone, at |-> Instant(f.date, f.time),
                  agent |-> Agent(f), cid |-> f.cid, parseOK |-> TRUE]

ReadName ==
    /\ pc = "scan"
    /\ inputs' = Append(inputs, Input(wavs[Len(inputs) + 1]))
    /\ pc' = IF Len(inputs') = Len(wavs) THEN "insert" ELSE "scan"
    /\ UNCHANGED <<config, temporal, rows, jsons, codes>>

-----------------------------------------------------------------------------
(* The batch.                                                              *)

\* inputs.chunks(INSERT_CHUNK): the last one holds the rest.
Chunk == SubSeq(inputs, Len(temporal) + 1,
                Least({Len(inputs), Len(temporal) + INSERT_CHUNK}))

\* Those of the client and the day; without any there is no batch.
Carteras == {op.cartera : op \in {o \in db : o.client = client /\ o.at \div DAY = DATE}}

\* One INSERT; its rows are written out, so that it holds no more than a chunk.
Insert ==
    /\ pc = "insert"
    /\ IF Carteras = {} \/ Len(temporal) = Len(inputs)
       THEN pc' = "lookup" /\ UNCHANGED temporal
       ELSE temporal' = temporal \o Chunk /\ UNCHANGED pc
    /\ UNCHANGED <<config, inputs, rows, jsons, codes>>

\* The tables whose rows tail_sql needs to make a row of an operation.
JoinedTables == {"av_docxcobrar", "av_docxcobrarParam", "av_OpeCodCliOut"}
                    \cup (IF client = "maf" THEN {} ELSE {"av_PersDeudor"})

HasRows(op) == JoinedTables \subseteq op.joined

\* Fault: incoming calls are joined without the id of the call.
JoinsAnyCall(t, op) ==
    /\ op.client = client /\ op.at \div DAY = DATE /\ op.cartera \in Carteras
    /\ op.agent = t.agent /\ op.phone = t.phone /\ HasRows(op)
    /\ t.tipo = 1 => op.at \in (t.at - WINDOW)..(t.at + WINDOW)

\* tail_sql: T1 and T2.
Joins(t, op) ==
    /\ op.client = client /\ op.at \div DAY = DATE /\ op.cartera \in Carteras
    /\ op.agent = t.agent /\ op.phone = t.phone /\ HasRows(op)
    /\ t.tipo = 1 => op.at \in (t.at - WINDOW)..(t.at + WINDOW)
    /\ t.tipo = 2 => op.cid = t.cid

Found(k) == IF k \in DOMAIN temporal THEN {op \in db : Joins(temporal[k], op)} ELSE {}

\* Several operations may fit a call: the one whose row comes last stays.
Lookup ==
    /\ pc = "lookup"
    /\ rows' \in [DOMAIN inputs -> {{}} \cup {{op} : op \in db}]
    /\ \A k \in DOMAIN inputs :
          rows'[k] \subseteq Found(k) /\ (rows'[k] = {} => Found(k) = {})
    /\ pc' = "write"
    /\ UNCHANGED <<config, inputs, temporal, jsons, codes>>

-----------------------------------------------------------------------------
(* The json of a recording.                                                *)

\* json.fields of the client's configuration: the column of each key.
Columns ==
    IF client = "maf"
    THEN [n_cuota |-> "N_CUOTA", concatenado |-> "CONCATENADO",
          fec_vencimiento |-> "FEC_VENCIMIENTO", moneda |-> "MONEDA",
          monto_cuota |-> "MONTO_CUOTA", ultimo_tramo |-> "ULTIMO_TRAMO",
          categoria |-> "CATEGORIA", placa |-> "PLACA", fec_comp |-> "FEC_COMP",
          monto_comp_soles |-> "MONTO_COMP_SOLES",
          monto_comp_dolares |-> "MONTO_COMP_DOLARES", nombre_rpta |-> "NOMBRE_RPTA",
          observacion |-> "OBSERVACION", documento |-> "DOCUMENTO",
          nid_opecodout |-> "NID_OPECODOUT", deudor |-> "DEUDOR"]
    ELSE [codigo_deudor |-> "COD_DEUDOR", ciclo |-> "CICLO", dias_atraso |-> "DIAS_ATRASO",
          deuda_total |-> "SALDO_CORREGIDO", monto_campana |-> "MONTO_MIN_PAGAR_CAMPANA",
          nombre_deudor |-> "DEUDOR", monto_compromiso |-> "MONTO_COMP_SOLES",
          fecha_compromiso |-> "FEC_COMP_PAGO", nombre_rpta |-> "NOMBRE_RPTA",
          observacion |-> "OBSERVACION", nid_opecodout |-> "NID_OPECODOUT"]

\* try_get as &str, i32 and f64 in turn; what is none of them becomes null.
Read(cell) == IF cell = "other" THEN "null" ELSE cell

\* map_client_data: every configured key is there, null without a row.
Data(row) == [key \in DOMAIN Columns |->
    IF row = {} THEN "null" ELSE Read((CHOOSE op \in row : TRUE).cols[Columns[key]])]

\* Fault: a code that no group lists goes to some group.
ResolveAny(row) == IF row = {} THEN "OTRO" ELSE CHOOSE g \in DOMAIN Groups : TRUE

\* RptaOpeCodOutIndex::resolve; the default of the configuration is OTRO.
Resolve(row) ==
    LET known == {op.code : op \in row} \cap DOMAIN byId
    IN  IF known = {} THEN "OTRO" ELSE byId[CHOOSE c \in known : TRUE]

\* probe_wav: without a duration there is no ffprobe_ok.
Json(k, probed) ==
    [phone |-> inputs[k].phone, agent |-> inputs[k].agent,
     named |-> inputs[k].agent \in Named, lookup |-> rows[k] # {},
     group |-> Resolve(rows[k]), probed |-> probed, data |-> Data(rows[k])]

WriteJson ==
    /\ pc = "write"
    /\ Len(jsons) < Len(inputs)
    /\ \E probed \in BOOLEAN : jsons' = Append(jsons, Json(Len(jsons) + 1, probed))
    /\ UNCHANGED <<config, pc, inputs, temporal, rows, codes>>

-----------------------------------------------------------------------------
(* The uploader.                                                           *)

General == {"cliente", "telefono", "id_agente", "fecha_gestion", "hora", "duration_sec",
            "nombre_agente", "descrip_rpta", "nombre_rpta", "observacion"}
Optional == {"fecha_compromiso", "monto_compromiso"}
NaturaKeys == {"ciclo", "codigo_deudor", "deuda_total", "dias_atraso", "monto_campana",
               "nombre_deudor"}
MafKeys == {"n_cuota", "concatenado", "fec_vencimiento", "moneda", "monto_cuota",
            "ultimo_tramo", "categoria", "documento", "deudor", "nid_opecodout"}

Get(json, key) == IF key \in DOMAIN json.data THEN json.data[key] ELSE "null"
Taken(json, keys) == [k \in keys |-> Get(json, k)]

Present(cell) == cell \notin {"null", "blank"}

\* asInt of the currency, and the name it has in the outgoing json.
Currency(cell) == CASE cell = "1" -> "SOLES" [] cell = "2" -> "DOLARES" [] OTHER -> "null"

Common(json) ==
    [k \in General |->
        CASE k = "telefono" -> IF json.phone.kind = "empty" THEN "blank" ELSE "text"
          [] k = "id_agente" -> "int"
          [] k = "duration_sec" -> IF json.probed THEN "float" ELSE "null"
          [] k = "nombre_agente" -> IF json.named THEN "text" ELSE "null"
          [] k \in {"nombre_rpta", "observacion"} -> Get(json, k)
          [] OTHER -> "text"]

\* What each client's json has besides the common fields.
Own(json) ==
    CASE client = "natura" -> Taken(json, NaturaKeys \cup Optional)
      [] client = "maf" ->
            [k \in MafKeys \cup Optional \cup {"placa", "monto_compromiso_dolares"} |->
                CASE k = "moneda" -> Currency(Get(json, "moneda"))
                  [] k = "placa" -> IF Get(json, k) = "null" THEN "blank" ELSE Get(json, k)
                  [] k = "fecha_compromiso" -> Get(json, "fec_comp")
                  [] k = "monto_compromiso" -> Get(json, "monto_comp_soles")
                  [] k = "monto_compromiso_dolares" ->
                        IF Get(json, "monto_comp_dolares") = "null" THEN "float"
                        ELSE Get(json, "monto_comp_dolares")
                  [] OTHER -> Get(json, k)]
      [] OTHER -> Taken(json, DOMAIN json.data \ General)

Required(json) ==
    General \cup CASE client = "natura" -> NaturaKeys
                   [] client = "maf" -> MafKeys \cup {"monto_compromiso_dolares"}
                   [] OTHER -> DOMAIN Own(json)

Outgoing(json) ==
    LET common == Common(json)
        own == Own(json)
    IN  [k \in DOMAIN common \cup DOMAIN own |->
            IF k \in DOMAIN common THEN common[k] ELSE own[k]]

\* validateOutgoing and reasonToErrorCode: the first check that fails.  That of
\* an empty descrip_rpta is left out, as no group and no default is empty.
Checks == <<"lookup_not_ok", "descrip_rpta_otro", "missing_required_field",
            "empty_optional_field", "ffprobe_not_ok">>

Fails(json, check) ==
    LET out == Outgoing(json)
    IN  CASE check = "lookup_not_ok" -> ~json.lookup
          [] check = "descrip_rpta_otro" -> json.group = "OTRO"
          [] check = "missing_required_field" ->
                \E k \in Required(json) \ Optional : ~Present(out[k])
          [] check = "empty_optional_field" ->
                \E k \in Optional \cap DOMAIN out : out[k] = "blank"
          [] check = "ffprobe_not_ok" -> ~json.probed

ErrorCode(json) ==
    LET failed == {i \in DOMAIN Checks : Fails(json, Checks[i])}
    IN  IF failed = {} THEN "" ELSE Checks[Least(failed)]

Validate ==
    /\ pc = "write"
    /\ Len(jsons) = Len(inputs)
    /\ codes' = Append(codes, ErrorCode(jsons[Len(codes) + 1]))
    /\ pc' = IF Len(codes') = Len(jsons) THEN "done" ELSE "write"
    /\ UNCHANGED <<config, inputs, temporal, rows, jsons>>

Next == ReadName \/ Insert \/ Lookup \/ WriteJson \/ Validate

Spec == Init /\ [][Next]_vars

-----------------------------------------------------------------------------
(* Properties.                                                             *)

\* A cell that the matcher reads and the uploader takes for filled.
Usable(cell) == cell \notin {"null", "blank", "other"}

\* What the inputs are taken to be: the names that can be read are the exchange's,
\* code is the integer of a filled NID_OPECODOUT, and in shared/config nobody is
\* agent 0 and the default of the codes is no group's name.
ASSUME InputAssumption ==
    /\ \A l \in WavLists : \A i \in DOMAIN l : Parse(RecordId(l[i])) # {} =>
          \E c \in Calls : RecordOf(c) = RecordId(l[i])
    /\ \A d \in Databases : \A op \in d : \A g \in DOMAIN Groups :
          op.code \in Groups[g] => Usable(op.cols["NID_OPECODOUT"])
    /\ Zero \notin Named
    /\ "OTRO" \notin DOMAIN Groups

\* The call whose recording the k-th wav is, if the exchange has named it.
CallOf(k) == {c \in Calls : RecordOf(c) = RecordId(wavs[k])}

AgentOf(c) ==
    IF c.layout # "out" THEN c.agent
    ELSE IF c.anexo \in DOMAIN Anexos THEN Anexos[c.anexo] ELSE None

\* What an agent has noted about the call: the same agent and phone, and the
\* call's own id or, where there is none, about the same time.
Notes(op, c) ==
    /\ op.client = client /\ op.at \div DAY = DATE
    /\ op.agent = AgentOf(c) /\ op.phone = Dialled(c)
    /\ IF c.layout = "cid" THEN op.cid = c.first
       ELSE op.at \in (Instant(c.date, c.time) - WINDOW)..(Instant(c.date, c.time) + WINDOW)

\* What the exchange has written into the name comes out of it again, in each
\* of its three layouts, however many parts the name has.
NamesParseBack ==
    \A k \in DOMAIN inputs : \A c \in CallOf(k) :
        /\ inputs[k].parseOK
        /\ inputs[k].at = Instant(c.date, c.time)
        /\ inputs[k].phone = Dialled(c)
        /\ c.layout = "cid" => inputs[k].cid = c.first
        /\ AgentOf(c) # None => inputs[k].agent = AgentOf(c)

\* A call that an agent has taken notes of is found, if the tables that the batch
\* joins with have their rows for the note: nothing else is lost on the way from
\* the name through the agents' file and the chunks of the batch.  A note whose
\* debt, parameters, result code or (but for maf) debtor is missing is not found.
KnownCallIsFound ==
    \A k \in DOMAIN rows : \A c \in CallOf(k) :
        (\E op \in db : Notes(op, c) /\ HasRows(op)) => rows[k] # {}

\* A recording that is accepted is sent with the notes of its own call: a wrong
\* agent, phone or call id cannot get through, nor can a name that does not
\* parse, or an anexo without an agent.
SentDataIsOfCall ==
    \A k \in DOMAIN codes : codes[k] = "" =>
        \E c \in CallOf(k) : \E op \in rows[k] : Notes(op, c)

\* The columns that each client's json cannot do without.
Needed ==
    CASE client = "natura" -> {"COD_DEUDOR", "CICLO", "DIAS_ATRASO", "SALDO_CORREGIDO",
                               "MONTO_MIN_PAGAR_CAMPANA", "DEUDOR"}
      [] client = "maf" -> {"N_CUOTA", "CONCATENADO", "FEC_VENCIMIENTO", "MONEDA",
                            "MONTO_CUOTA", "ULTIMO_TRAMO", "CATEGORIA", "DOCUMENTO", "DEUDOR"}
      [] OTHER -> {Columns[k] : k \in DOMAIN Columns \ Optional}

\* The agent is known by name, the phone by its digits, the result of the call by
\* its group, the audio has been probed, the columns are filled, and what was
\* promised is not blank.
Complete(k, op) ==
    /\ op.agent \in Named
    /\ op.phone.kind # "empty"
    /\ \E g \in DOMAIN Groups : op.code \in Groups[g]
    /\ jsons[k].probed
    /\ \A col \in Needed \cup {"NOMBRE_RPTA", "OBSERVACION"} : Usable(op.cols[col])
    /\ client = "maf" =>
          op.cols["MONEDA"] \in {"1", "2"} /\ op.cols["MONTO_COMP_DOLARES"] # "blank"
    /\ \A col \in {"MONTO_COMP_SOLES", IF client = "maf" THEN "FEC_COMP" ELSE "FEC_COMP_PAGO"} :
          op.cols[col] # "blank"

\* A recording is sent when and only when it is complete: nothing incomplete
\* leaves the machine, whichever of the programs and configurations would have
\* had to see it, and nothing complete is held back, by a field that the client
\* does not ask for or that may be missing.
AcceptedIfComplete ==
    \A k \in DOMAIN codes :
        codes[k] = "" <=> \E op \in rows[k] : Complete(k, op)
=============================================================================
