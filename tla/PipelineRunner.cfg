\* Two invocations over one run directory: the second finds every combination
\* of manifests and reports that a finished, failed or killed one leaves.
CONSTANT MaxInvocations = 2
SPECIFICATION FairSpec
INVARIANTS
    StagesInOrder
    ExitIsReported
    ReportConsistent
    CountsAreCurrent
    SendErrorsLeaveTrace
PROPERTIES
    StagesBuildOnCurrent
    InvocationEnds
CHECK_DEADLOCK FALSE
