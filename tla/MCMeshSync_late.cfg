SPECIFICATION FairSpec
CONSTANTS
    A = A
    B = B
    R = R
    G = G
    d = d
    l = l
    Address = {A, B, R, G}
    GenesisSender = G
    NULL_PARENT = 0
    TxHash = {1, 2, 3, 4, 5, 6, 7}
    GenesisId = 1
    ANCESTOR_WALK_BOUND = 2
    MAX_INVENTORY_HASHES = 12
    HARD_CAP = 10
    FIXED_TRANSACTION_FEE = 1
    INITIAL_TX_SUBSIDY = 4
    TX_HALVING_INTERVAL = 2
    MAX_HALVINGS = 3
    U64_MAX = 100000
    Dialer = d
    Listener = l
    History <- MCLateHistory
    Fresh <- MCNothingFresh
    Faucet <- MCFaucet
    MaxTimeouts = 1
    MaxRefusals = 1
PROPERTY
    EventuallySameGraph
CHECK_DEADLOCK FALSE
