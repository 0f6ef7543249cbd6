------------------------------ MODULE MCFetcher -----------------------------
(* Instances of Fetcher for TLC: two sources that may list the same name.   *)
EXTENDS Fetcher

MCNames == {"a", "b"}
MCListings == {<<"a">>, <<"a", "b">>}
=============================================================================
