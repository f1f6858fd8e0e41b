SPECIFICATION Spec
CONSTANTS
    A = A
    B = B
    R = R
    G = G
    a = a
    b = b
    Address = {A, B, R, G}
    GenesisSender = G
    NULL_PARENT = 0
    TxHash = {1, 2, 3, 4, 5}
    GenesisId = 1
    ANCESTOR_WALK_BOUND = 16
    MAX_INVENTORY_HASHES = 12
    HARD_CAP = 10
    FIXED_TRANSACTION_FEE = 1
    INITIAL_TX_SUBSIDY = 4
    TX_HALVING_INTERVAL = 2
    MAX_HALVINGS = 3
    U64_MAX = 100000
    Typical <- MCTypical
    MIN_SAMPLES = 4
    MaxCores <- MCMaxCores
    MinProbe <- MCMinProbe
    MinDuration <- MCMinDuration
    LOW_JITTER = 5
    MinAuthenticity = 400
    CLOUD_ENV_KEYS = {"AWS_REGION", "K_SERVICE"}
    Carrier = R
    RELAY_MEMPOOL_CAP = 2
    MaxCarried = 3
    Phones = {a, b}
    Home = b
    Quote <- MCQuote
    Hosts <- MCHosts
    Faucet <- MCFaucet
    Fresh <- MCFresh
    Handed <- MCHanded
INVARIANTS
    TypeOK
    LedgerCountsTheSettled
    OnlyProofsArePaid
    MeetingsDeliver
PROPERTIES
    CarriesInOrder
CHECK_DEADLOCK FALSE
