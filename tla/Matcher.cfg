\* Two runs of the matcher over two wavs, after and between two runs of the
\* convert stage; any of them can fail or be killed.
CONSTANTS
    Records <- MCRecords
    Rows <- MCRows
    NoRow = NoRow
    RowsOf <- MCRowsOf
    ConvertLists <- MCConvertLists
    ProbeExact = TRUE
    MaxRuns = 2
    MaxConversions = 2
SPECIFICATION Spec
INVARIANTS
    SendableIsWhole
    RowsStayWithRecord
    JsonsUseWholeAnswer
    ManifestMatchesJsons
    ManifestNotAhead
CHECK_DEADLOCK FALSE
