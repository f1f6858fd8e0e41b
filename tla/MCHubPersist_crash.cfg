SPECIFICATION FairSpec
CONSTANTS
    A = A
    M = M
    R = R
    G = G
    t1 = t1
    t2 = t2
    m = m
    Address = {A, M, R, G}
    GenesisSender = G
    NULL_PARENT = 0
    TxHash = {1, 2, 3, 4, 5, 6}
    GenesisId = 1
    ANCESTOR_WALK_BOUND = 16
    HARD_CAP = 10
    FIXED_TRANSACTION_FEE = 1
    INITIAL_TX_SUBSIDY = 4
    TX_HALVING_INTERVAL = 2
    MAX_HALVINGS = 3
    U64_MAX = 100000
    Threads = {t1, m}
    NoThread = NoThread
    Miner = m
    MinerAccount = M
    Vertices <- MCVertices
    InitialFaucet <- MCFaucet
    TornAppends = TRUE
    MaxCrashes = 2
INVARIANTS
    TypeOK
    NothingForgotten
    LoggedSharesAreFunded
PROPERTIES
    RestartRestoresOrderedPrefix
    QuietRestartKeepsReplica
    StoredGetsLogged
CHECK_DEADLOCK FALSE
