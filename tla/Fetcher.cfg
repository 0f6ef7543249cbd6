\* Two sources of up to two links (a name may be listed by both), two workers,
\* two runs: the second one meets what a killed or failed first one left.
CONSTANTS
    MaxJobs = 4
    Concurrency = 2
    Sources = 2
    MaxRuns = 2
    Names <- MCNames
    Listings <- MCListings
SPECIFICATION Spec
INVARIANTS
    CountersAddUp
    CleanRunIsComplete
PROPERTY WholeIsKept
CHECK_DEADLOCK FALSE
