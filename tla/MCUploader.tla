----------------------------- MODULE MCUploader -----------------------------
(* Instances of Uploader for TLC: runs of one day over the same records.    *)
EXTENDS Uploader, TLC

MCLists == {<<"a">>, <<"a", "b">>}
Symmetry == Permutations(Uploaders)
=============================================================================
