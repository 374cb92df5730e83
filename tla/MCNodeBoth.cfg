\* One request on each chain, whose heights overlap: the UPDATE of the Waves
\* cacher finds Ethereum rows before their deadline.  BlockInterval is 0, as in
\* config.json, so that a row is stored one block before it.  The token of the
\* Waves request is not approved: its finalization, which node_waves explores,
\* adds no states here.
SPECIFICATION EthFairSpec
CONSTANTS
    r1 = r1
    w1 = w1
    w2 = w2
    v0 = v0
    v1 = v1
    v2 = v2
    NoRequest = NoRequest
    EthRequests = {r1}
    WavesRequests = {w1}
    RequestIds = {r1, w1}
    RowOrder <- OneRow
    Validators = {v0}
    Self = v0
    Peers = {}
    Admins = {v0}
    WavesAdmins = {v0}
    TokenPair <- EthApproved
    StoreReadsFail = FALSE
    MaxCopies = 2
    BftCoefficient = 1
    ContractBft = 1
    WavesBft = 1
    EthStart = 3
    MaxEthHeight = 5
    MaxReorg = 0
    ContractTimeout = 1
    BlockInterval = 0
    RqTimeout = 1
    WavesStart = 3
    MaxWavesHeight = 5
    MaxWavesReorg = 0
    WavesInterval = 1
PROPERTIES
    EthNodeSpec
    RejectedInTimeReopens
