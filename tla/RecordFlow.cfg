\* Up to three recordings of calls in every layout, and unreadable names, against
\* up to two notes of agents; chunks of two rows, days of four instants.
CONSTANTS
    DAY = 4
    Clients <- MCClients
    Calls <- MCCalls
    WavLists <- MCWavLists
    Databases <- MCDatabases
    Anexos <- MCAnexos
    Named <- MCNamed
    Groups <- MCGroups
    DATE = 1
    WINDOW = 1
    INSERT_CHUNK = 2
SPECIFICATION Spec
INVARIANTS
    NamesParseBack
    KnownCallIsFound
    SentDataIsOfCall
    AcceptedIfComplete
CHECK_DEADLOCK FALSE
