SPECIFICATION FairSpec
CONSTANTS
    a = a
    b = b
    h = h
    x = x
    y = y
    l1 = l1
    l2 = l2
    None = None
    Buckets = {1}
    BucketOf <- MCBucketOf
    K = 2
    MAX_PER_SLASH24 = 1
    max_store <- MCMaxStore
    max_want <- MCMaxWant
    Typical <- MCTypical
    MIN_SAMPLES = 4
    MaxCores <- MCMaxCores
    MinProbe <- MCMinProbe
    MinDuration <- MCMinDuration
    LOW_JITTER = 5
    MinAuthenticity = 400
    CLOUD_ENV_KEYS = {}
    DEFAULT_BOOTSTRAP <- MCPublicHub
    LAST_PORT = 65535
    Nodes = {a, b, h, x, y}
    Quote <- MCQuote
    Net <- MCNet
    EphemeralQuote <- MCGood
    Links = {l1, l2}
    Networks <- MCNetworks
    MaxDials <- MCMaxDials
    Message = {"ma", "mb"}
    Fresh <- MCFresh
    MaxInterrupts = 1
INVARIANTS
    TypeOK
    OnlyProvenPeersTalk
    PrefixesKeepToTheirShare
    HandedOverOncePerStay
PROPERTIES
    AnnouncementsArrive
CHECK_DEADLOCK FALSE
