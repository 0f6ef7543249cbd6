---------------------------- MODULE MCRecordFlow ----------------------------
(* Instances of RecordFlow for TLC: calls in each layout, names that cannot *)
(* be read, and notes that fit a call, nearly fit it, or lack something.    *)
EXTENDS RecordFlow

P(kind, val) == [kind |-> kind, val |-> val]
Number(n) == P("number", n)
MkCall(layout, phone, time, agent, anexo, first, extra) ==
    [layout |-> layout, phone |-> phone, date |-> P("date", 1), time |-> P("time", time),
     agent |-> agent, anexo |-> Number(anexo), first |-> first, extra |-> extra]

\* Anexo 8 is that of agent 1, anexo 9 is nobody's; agent 2 has no name.
MCAnexos == [a \in {Number(8)} |-> Number(1)]
MCNamed == {Number(1)}
MCGroups == [yes |-> {5, 6}, no |-> {6}]

Out(anexo) == MkCall("out", P("trunk", 7), 1, Zero, anexo, None, <<>>)
ByNumber(agent, extra) ==
    MkCall("number", P("trunk", 7), 2, Number(agent), 0, Number(4), extra)
ByCid(v, extra) == MkCall("cid", P("trunk", 7), 2, Number(1), 0, P("word", v), extra)

MCCalls ==
    {[c EXCEPT !.first = IF c.layout = "out" THEN Zero ELSE @] :
        c \in {Out(8), Out(9), ByNumber(1, <<Word, Number(3)>>), ByNumber(2, <<Word>>),
               ByCid(1, <<>>), ByCid(2, <<Number(3)>>),
               [ByCid(3, <<>>) EXCEPT !.phone = P("empty", 0)]}}

Wav(rec) == [rec EXCEPT !.exts = Append(@, "wav")]
Broken(parts, exts) == [sep |-> "underscore", parts |-> parts, exts |-> exts]
MCBroken ==
    {Broken(<<Word, Zero>>, <<>>),
     Broken(<<Number(4), Word, P("trunk", 7), P("date", 1), P("time", 2), P("long", 1)>>, <<>>),
     Broken(<<Number(4), Word, P("trunk", 7), P("date", 1), P("time", 2), Number(1)>>, <<"a">>)}
MCNames == {Wav(RecordOf(c)) : c \in MCCalls} \cup {Wav(b) : b \in MCBroken}
Lone == {<<n>> : n \in MCNames}
Three(a) == <<Wav(RecordOf(ByCid(1, <<>>))), a, Wav(RecordOf(ByNumber(1, <<Word, Number(3)>>)))>>
MCWavLists == Lone \cup {Three(n) : n \in {Wav(RecordOf(Out(9))), Wav(RecordOf(ByCid(2, <<Number(3)>>)))}}

MCCols ==
    [c \in {"COD_DEUDOR", "CICLO", "DIAS_ATRASO", "SALDO_CORREGIDO", "MONTO_MIN_PAGAR_CAMPANA",
            "DEUDOR", "MONTO_COMP_SOLES", "FEC_COMP_PAGO", "NOMBRE_RPTA", "OBSERVACION",
            "NID_OPECODOUT", "N_CUOTA", "CONCATENADO", "FEC_VENCIMIENTO", "MONEDA",
            "MONTO_CUOTA", "ULTIMO_TRAMO", "CATEGORIA", "PLACA", "FEC_COMP",
            "MONTO_COMP_DOLARES", "DOCUMENTO"} |-> IF c = "MONEDA" THEN "1" ELSE "text"]

Tables == {"av_docxcobrar", "av_docxcobrarParam", "av_OpeCodCliOut", "av_PersDeudor"}
MkOp(agent, phone, cid, at, code) ==
    [client |-> "natura", cartera |-> 1, agent |-> Number(agent), phone |-> phone, cid |-> cid,
     at |-> at, code |-> code, cols |-> MCCols, joined |-> Tables]
NoteOf(agent, at) == MkOp(agent, Number(7), None, at, 5)
NoteOfCid(v, phone) == MkOp(1, phone, P("word", v), DAY + 3, 6)

\* Notes that are those of a call, and notes that differ from them in one thing.
Near == {NoteOf(1, DAY + 1), NoteOf(0, DAY + 1), NoteOf(2, DAY + 3), NoteOf(1, DAY - 1),
         NoteOfCid(1, P("trunk", 7)), NoteOfCid(2, P("trunk", 7)), NoteOfCid(1, Number(7)),
         NoteOfCid(3, P("empty", 0)),
         [NoteOf(1, DAY + 2) EXCEPT !.code = 7],
         [NoteOf(1, DAY + 1) EXCEPT !.joined = @ \ {"av_docxcobrarParam"}],
         [NoteOfCid(1, P("trunk", 7)) EXCEPT !.joined = @ \ {"av_PersDeudor"}]}
Lacking == {[NoteOfCid(1, P("trunk", 7)) EXCEPT !.cols[c] = v] :
               c \in DOMAIN MCCols \ {"NID_OPECODOUT"}, v \in {"null", "blank", "other", "2"}}

MCClients == {"natura", "maf", "other"}
\* The database holds the operations of every client, those of others too.
OfAll(ops) == {[op EXCEPT !.client = o] : op \in ops, o \in MCClients}
MCDatabases ==
    {OfAll({a, b}) : a, b \in Near} \cup {OfAll({op}) : op \in Lacking}
    \cup {{}, {NoteOfCid(1, P("trunk", 7))}}
=============================================================================
