----------------------------- MODULE ConvertRuns ----------------------------
(***************************************************************************)
(* What the runs of the convert stage promise the stages after them about  *)
(* one run directory: how the wavs may change and what a convert.json says *)
(* of them, however a run ends.  Nothing here mentions threads, ffmpeg or  *)
(* kills.  Converter implements this module; Matcher relies on it.         *)
(***************************************************************************)
EXTENDS Naturals, Sequences

CONSTANTS
    Records,       \* record ids
    ConvertLists,  \* the records of the items that convert.json may list
    ProbeExact     \* ffprobe rejects every broken wav

VARIABLES
    wav,      \* wav/<record>.wav: "absent", "broken" or "whole"
    convert   \* convert.json: [state, items]

\* A record that some convert.json lists twice: two jobs of one run write its
\* wav at the same time.
Contended(r) ==
    \E l \in ConvertLists : \E i, j \in DOMAIN l : i # j /\ l[i] = r /\ l[j] = r

Init ==
    /\ wav = [r \in Records |-> "absent"]
    /\ convert = [state |-> "missing", items |-> <<>>]

\* A wav appears once, whole or not, and stays what it is: skip_exists passes a
\* broken one on.
NextWav(r, s) ==
    \/ s = wav[r]
    \/ wav[r] = "absent" /\ s \in {"broken", "whole"}
    \/ Contended(r) /\ s \in {"broken", "whole"}

\* ffprobe's flag in an item speaks of the wav w that the run leaves.
Vouched(list, flag, w) ==
    ProbeExact =>
        \A i \in DOMAIN list : flag[i] /\ ~Contended(list[i]) => w[list[i]] = "whole"

\* A run, or a part of one, leaves wavs, and its manifest if it gets that far.
Converts ==
    /\ wav' \in [Records -> {"absent", "broken", "whole"}]
    /\ \A r \in Records : NextWav(r, wav'[r])
    /\ \/ convert' = convert
       \/ convert' = [state |-> "torn", items |-> <<>>]
       \/ \E list \in ConvertLists : \E flag \in [DOMAIN list -> BOOLEAN] :
             /\ Vouched(list, flag, wav')
             /\ convert' = [state |-> "whole", items |->
                    [i \in DOMAIN list |-> [rec |-> list[i], probe |-> flag[i]]]]

Spec == Init /\ [][Converts]_<<wav, convert>>
=============================================================================
