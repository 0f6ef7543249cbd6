--------------------------- MODULE MCRunScheduler ---------------------------
(* Instances of RunScheduler for TLC: the command lines of the daily run,   *)
(* of an operator's range, and of the modes that run a part of the stages.  *)
EXTENDS RunScheduler

Command(mode, real, service, clients, from, to, label) ==
    [mode |-> mode, real |-> real, service |-> service, clients |-> clients,
     from |-> from, to |-> to, label |-> label]

MCRunIds ==
    [client : {"maf", "natura"}, day : {1, 2}, label : {""}]

Daily == Command("full", TRUE, TRUE, <<"maf", "natura">>, 1, 1, "")
Range == Command("full", TRUE, FALSE, <<"maf">>, 1, 2, "")
OneDay(mode, real) == Command(mode, real, FALSE, <<"maf">>, 1, 1, "")

\* The daily run, started twice, beside an operator.
MCScripts == {"daily", "again", "operator"}
MCCommands ==
    [s \in MCScripts |->
        IF s # "operator" THEN {Daily}
        ELSE {Range, OneDay("full", FALSE), OneDay("match", TRUE), OneDay("convert", TRUE),
              OneDay("upload", TRUE)}]

\* The stages up to match, and then the upload.
MCPair == {"first", "second"}
MCStages == [s \in MCPair |-> {OneDay("match", TRUE), OneDay("upload", TRUE)}]
=============================================================================
