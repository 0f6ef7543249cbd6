--------------------------- MODULE MCRunDirectory ---------------------------
(* Two recordings with names of their own, and a third name with the stem of *)
(* the first.                                                                *)
EXTENDS RunDirectory

MCNames == {"a.gsm", "b.gsm", "a.wav"}
MCRecords == {"a", "b"}
MCRecordOf == [n \in MCNames |-> IF n = "b.gsm" THEN "b" ELSE "a"]
MCListings == {<<"a.gsm", "b.gsm">>, <<"a.gsm", "a.gsm">>, <<"a.gsm", "a.wav">>}
=============================================================================
