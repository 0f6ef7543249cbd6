\* Two invocations over one run directory, with any outcome of every stage.
CONSTANTS
    Names <- MCNames
    Records <- MCRecords
    RecordOf <- MCRecordOf
    Listings <- MCListings
    MaxInvocations = 2
SPECIFICATION DirSpec
INVARIANTS
    AllGreenIsComplete
    SentIsProbed
CHECK_DEADLOCK FALSE
