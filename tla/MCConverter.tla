----------------------------- MODULE MCConverter ----------------------------
(* Instances of Converter for TLC: two sources list a.gsm, and a.GSM has    *)
(* the stem of a.gsm.                                                       *)
EXTENDS Converter

MCNames == {"a.gsm", "a.GSM", "b.gsm"}
MCRecords == {"a", "b"}
MCRecordOf == [n \in MCNames |-> IF n = "b.gsm" THEN "b" ELSE "a"]

\* A plain list, one with a stem twice, one with a name twice, an empty one.
MCFetchLists == {<<"a.gsm", "b.gsm">>, <<"a.GSM", "a.gsm", "b.gsm">>,
                 <<"a.gsm", "a.gsm">>, <<>>}
=============================================================================
