\* Two runs of one day over up to two records, which overlap or follow one
\* another, real or dry, each of which may be killed anywhere.
CONSTANTS
    Uploaders = {u1, u2}
    Records = {"a", "b"}
    Lists <- MCLists
SYMMETRY Symmetry
SPECIFICATION Spec
INVARIANTS
    Accounting
    ReportComplete
    SentIsStored
    MetadataFirst
    HalfSentIsReported
    OnlyPreparedIsSent
CHECK_DEADLOCK FALSE
