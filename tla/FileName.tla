------------------------------- MODULE FileName -----------------------------
(***************************************************************************)
(* crates/common/src/util.rs: what the name of a recording tells about its *)
(* call.  A name is the sequence of its parts, the separator between them  *)
(* and its extensions; a part is kept by what the parser can tell of it:   *)
(*   "OUT" that word, "word" any other part with a character that is no    *)
(*   digit, "empty" nothing at all, "date" a valid yyyymmdd, "time" a valid*)
(*   hhmmss, "trunk" ten digits of which the first is 8, "long" any other  *)
(*   number that does not fit an i32, "number" any other number.           *)
(***************************************************************************)
EXTENDS Naturals, Sequences

CONSTANT DAY   \* instants in a day

ASSUME FileNameAssumption == DAY \in Nat \ {0}

Kinds == {"OUT", "word", "empty", "date", "time", "trunk", "long", "number"}
Part == [kind : Kinds, val : Nat]
Name == [sep : {"dash", "underscore"}, parts : Seq(Part) \ {<<>>}, exts : Seq(STRING)]

None == [kind |-> "none", val |-> 0]
Zero == [kind |-> "number", val |-> 0]
Word == [kind |-> "word", val |-> 0]

-----------------------------------------------------------------------------
(* The names that the telephone exchange writes.                           *)

Layouts == {"out", "number", "cid"}
Call == [layout : Layouts, phone : Part, date : Part, time : Part, agent : Part,
         anexo : Part, first : Part, extra : Seq(Part)]

\* The three layouts: first and extra are what the others do not know.
Written(c) ==
    CASE c.layout = "out" ->
            [sep |-> "dash", parts |-> <<[kind |-> "OUT", val |-> 0], c.date, c.time, c.anexo,
                                      c.phone>>]
      [] c.layout = "number" ->
            [sep |-> "underscore", parts |-> <<c.first>> \o c.extra \o
                                    <<c.phone, c.date, c.time, c.agent>>]
      [] c.layout = "cid" ->
            [sep |-> "underscore", parts |-> <<c.first, Word, c.phone, c.date, c.time, c.agent>>
                                    \o c.extra]

\* The record of a call: its name without extension.
RecordOf(c) == [sep |-> Written(c).sep, parts |-> Written(c).parts, exts |-> <<>>]

-----------------------------------------------------------------------------
(* Reading a name.                                                         *)

\* rsplit_once('.'): only the last extension goes.
RecordId(name) ==
    IF name.exts = <<>> THEN name
    ELSE [name EXCEPT !.exts = SubSeq(@, 1, Len(@) - 1)]

\* The extensions that RecordId leaves are in the last part.
Parts(rec) ==
    IF rec.exts = <<>> THEN rec.parts ELSE [rec.parts EXCEPT ![Len(rec.parts)] = Word]

\* chars().all(..), which holds of no characters.
Digits(p) == p.kind \notin {"OUT", "word"}

\* parse::<i32>
IsI32(p) == p.kind \in {"number", "date", "time"}

\* normalize_tipo1_phone: the 8 that gets an outside line is dropped.
Local(p) == IF p.kind = "trunk" THEN [p EXCEPT !.kind = "number"] ELSE p

Instant(date, time) == date.val * DAY + time.val

\* OUT-date-time-anexo-phone
OutFields(p) ==
    [tipo |-> 1, phone |-> Local(p[5]), date |-> p[2], time |-> p[3], agent |-> Zero,
     cid |-> None, anexo |-> p[4]]

\* Fault: the parts are counted from the front, as those of a CidFields name.
EndFieldsFromFront(p) ==
    [tipo |-> 1, phone |-> Local(p[3]), date |-> p[4], time |-> p[5], agent |-> p[6],
     cid |-> None, anexo |-> None]

\* number_..._phone_date_time_agent, counted from the end
EndFields(p) ==
    LET n == Len(p)
    IN  [tipo |-> 1, phone |-> Local(p[n - 3]), date |-> p[n - 2], time |-> p[n - 1],
         agent |-> p[n], cid |-> None, anexo |-> None]

\* cid_x_phone_date_time_agent_..., counted from the front
CidFields(p) ==
    [tipo |-> 2, phone |-> p[3], date |-> p[4], time |-> p[5], agent |-> p[6],
     cid |-> p[1], anexo |-> None]

\* The one way to read the name, if there is one.
Readings(rec) ==
    LET p == Parts(rec)
    IN  IF rec.sep = "dash"
        THEN IF p[1].kind = "OUT" /\ Len(p) = 5 THEN {OutFields(p)} ELSE {}
        ELSE IF Len(p) < 6 THEN {}
             ELSE {IF Digits(p[1]) THEN EndFields(p) ELSE CidFields(p)}

\* detect_tipo_and_parse of the record's name: its fields, {} for an error.
Parse(rec) ==
    {f \in Readings(rec) : f.date.kind = "date" /\ f.time.kind = "time" /\ IsI32(f.agent)}

-----------------------------------------------------------------------------

\* A call as the exchange knows it: a date, a time, an agent, and at least six
\* parts with a first one that tells the two layouts with "_" apart.
WellFormed(c) ==
    /\ c \in Call
    /\ c.date.kind = "date" /\ c.time.kind = "time"
    /\ c.agent.kind = "number"
    /\ c.layout = "number" => Digits(c.first) /\ c.extra # <<>>
    /\ c.layout = "cid" => ~Digits(c.first)

\* The phone as the agents' operations have it: outgoing calls without the 8.
Dialled(c) == IF c.layout = "cid" THEN c.phone ELSE Local(c.phone)

\* What the parser is to find in the name of the call.
Meant(c) ==
    [tipo |-> IF c.layout = "cid" THEN 2 ELSE 1, phone |-> Dialled(c), date |-> c.date,
     time |-> c.time, agent |-> IF c.layout = "out" THEN Zero ELSE c.agent,
     cid |-> IF c.layout = "cid" THEN c.first ELSE None,
     anexo |-> IF c.layout = "out" THEN c.anexo ELSE None]
=============================================================================
