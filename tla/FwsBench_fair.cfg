CHECK_DEADLOCK FALSE
SPECIFICATION FairSpec
CONSTANTS
    k1 = k1
    k2 = k2
    Clients <- MCClients
    Conns <- MCConns
    MAX_FAULTS = 1
    MSG_LEN = 1
    SRV_MAX_LEN = 2
    MSG_LIMIT_PER_CLIENT = 2
    REBORN_LIMIT_FOR_CLIENT = 2
    HASH_PERIOD = 2
    CLOSE_MODES = {"deferred"}
    RUN_ON = FALSE
    INTERVAL = 3
PROPERTIES
    ImplementsFairRun
    Exits
    SurvivorsFinish
