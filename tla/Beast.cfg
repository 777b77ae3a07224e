SPECIFICATION FairSpec
CONSTANTS
    k1 = k1
    k2 = k2
    t1 = t1
    t2 = t2
    Listener = Listener
    Conns <- MCConns
    Threads <- MCThreads
    MSG_LEN = 2
    Window <- MCWindow
    MAX_MSGS = 2
INVARIANTS
    BeastTypeOK
    ChainUnbroken
    HandlersSerial
PROPERTIES
    WriteOwnsBuffer
    ImplementsEcho
    FailedAreFreed
