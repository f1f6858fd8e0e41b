SPECIFICATION Spec
CONSTANTS
    W = W
    K1 = K1
    K2 = K2
    R = R
    M = M
    G = G
    Address = {W, K1, K2, R, M, G}
    GenesisSender = G
    NULL_PARENT = 0
    TxHash = {1, 2, 3, 4}
    GenesisId = 1
    ANCESTOR_WALK_BOUND = 16
    HARD_CAP = 10
    FIXED_TRANSACTION_FEE = 1
    INITIAL_TX_SUBSIDY = 4
    TX_HALVING_INTERVAL = 2
    MAX_HALVINGS = 3
    U64_MAX = 100000
    NoFile = NoFile
    NoWallet = NoWallet
    NewKeys = {K1, K2}
    OldKey = W
    InitialFiles <- MCInitialFiles
    InitialFaucet <- MCFaucet
    SendAmounts = {1, 9}
    Payee = R
    MinerAccount = M
    MaxSends = 2
    MaxFaults = 1
    MaxCrashes = 1
SYMMETRY MCSymmetry
INVARIANTS
    TypeOK
    KeysAreKept
    ExplorerCatchesUp
PROPERTY
    SpentNoncesAreNotReused
CHECK_DEADLOCK FALSE
