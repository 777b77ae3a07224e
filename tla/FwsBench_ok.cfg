SPECIFICATION Spec
CONSTANTS
    k1 = k1
    k2 = k2
    Clients <- MCClients
    Conns <- MCConns
    MAX_FAULTS = 0
    MSG_LEN = 2
    SRV_MAX_LEN = 2
    MSG_LIMIT_PER_CLIENT = 2
    REBORN_LIMIT_FOR_CLIENT = 2
    HASH_PERIOD = 2
    CLOSE_MODES = {"sync", "deferred"}
    RUN_ON = TRUE
    INTERVAL = 3
INVARIANTS
    OneMessageUnderWay
    SamplesAreRoundTrips
    RowIsComplete
    OneLifeAtATime
    NoAbort
    Ledger
PROPERTIES
    ImplementsRun
