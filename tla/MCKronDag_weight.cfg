SPECIFICATION Spec
CONSTANTS
    A = A
    B = B
    R = R
    G = G
    Address = {A, B, R, G}
    GenesisSender = G
    NULL_PARENT = 0
    TxHash = {1, 2, 3, 4, 5, 6, 7, 8}
    GenesisId = 1
    ANCESTOR_WALK_BOUND = 16
    HARD_CAP = 9
    FIXED_TRANSACTION_FEE = 1
    INITIAL_TX_SUBSIDY = 4
    TX_HALVING_INTERVAL = 2
    MAX_HALVINGS = 3
    U64_MAX = 100000
    Vertices <- MCForks
    CreditAmounts = {4}
    MaxFaucet = 4
INVARIANT
    HigherWeightWins
CHECK_DEADLOCK FALSE
