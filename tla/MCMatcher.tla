----------------------------- MODULE MCMatcher ------------------------------
(* Instances of Matcher for TLC: two wavs, one call that fits both of them, *)
(* and a record (2) that a convert.json may list twice.                     *)
EXTENDS Matcher

MCRecords == {1, 2}
MCRows == {"x", "y"}
MCRowsOf == [r \in MCRecords |-> IF r = 1 THEN {"x", "y"} ELSE {"y"}]
MCConvertLists == {<<1>>, <<1, 2>>, <<2, 2>>}
=============================================================================
