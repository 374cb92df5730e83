\* Two Waves requests in one table and a validator without peers: the second
\* is behind one without a quorum yet, one that cannot be submitted, or one that
\* is Success and whose row is still New.
SPECIFICATION WavesOnlySpec
CONSTANTS
    r1 = r1
    w1 = w1
    w2 = w2
    v0 = v0
    v1 = v1
    v2 = v2
    NoRequest = NoRequest
    EthRequests = {}
    WavesRequests = {w1, w2}
    RequestIds = {w1, w2}
    RowOrder <- TwoRows
    Validators = {v0}
    Self = v0
    Peers = {}
    Admins = {v0}
    WavesAdmins = {v0}
    TokenPair <- AllApproved
    StoreReadsFail = FALSE
    MaxCopies = 2
    BftCoefficient = 1
    ContractBft = 1
    WavesBft = 1
    EthStart = 3
    MaxEthHeight = 3
    MaxReorg = 0
    ContractTimeout = 2
    BlockInterval = 1
    RqTimeout = 1
    WavesStart = 3
    MaxWavesHeight = 4
    MaxWavesReorg = 0
    WavesInterval = 1
PROPERTIES
    FirstIsSubmitted
