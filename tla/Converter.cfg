\* Lists of 0..3 items with a stem or a name listed twice, two workers and two
\* runs: the second run meets every leftover of a killed or finished first one.
\* ffprobe rejects every broken file; only ProbeVouches depends on its answers.
CONSTANTS
    MaxJobs = 3
    Concurrency = 2
    MaxRuns = 2
    ProbeExact = TRUE
    Names <- MCNames
    Records <- MCRecords
    RecordOf <- MCRecordOf
    FetchLists <- MCFetchLists
SPECIFICATION Spec
INVARIANTS
    OkIsWhole
    ManifestMatchesFetch
    ProbeVouches
PROPERTIES
    WholeIsKept
    ImplementsRuns
CHECK_DEADLOCK FALSE
