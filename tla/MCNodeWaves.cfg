\* One Waves request and no Ethereum request: the Waves cacher, the signer and
\* the Waves phase against a chain of three blocks with rollbacks.
SPECIFICATION Spec
CONSTANTS
    r1 = r1
    w1 = w1
    w2 = w2
    v0 = v0
    v1 = v1
    v2 = v2
    NoRequest = NoRequest
    EthRequests = {}
    WavesRequests = {w1}
    RequestIds = {w1}
    RowOrder <- OneRow
    Validators = {v0, v1, v2}
    Self = v0
    Peers = {v1, v2}
    Admins = {v0, v1}
    WavesAdmins = {v0, v1}
    TokenPair <- AllApproved
    StoreReadsFail = FALSE
    MaxCopies = 2
    BftCoefficient = 2
    ContractBft = 2
    WavesBft = 2
    EthStart = 3
    MaxEthHeight = 3
    MaxReorg = 0
    ContractTimeout = 2
    BlockInterval = 1
    RqTimeout = 1
    WavesStart = 3
    MaxWavesHeight = 5
    MaxWavesReorg = 1
    WavesInterval = 1
INVARIANTS
    SuccessHasQuorum
    SentHasQuorum
PROPERTIES
    WavesMirrorSpec
