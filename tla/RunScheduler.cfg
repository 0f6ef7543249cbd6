\* The daily service, started twice, and an operator, over two clients and days.
CONSTANTS
    Scripts <- MCScripts
    Commands <- MCCommands
    RunIds <- MCRunIds
SPECIFICATION FairSpec
INVARIANTS
    ExitTellsFailure
    OneServiceRunPerDirectory
PROPERTY ScriptEnds
CHECK_DEADLOCK FALSE
