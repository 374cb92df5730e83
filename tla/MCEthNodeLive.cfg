\* Progress of one request through sign, gather and submit, with failing calls,
\* lost transactions and reorganisations, and without restarts.
SPECIFICATION FairSpec
CONSTANTS
    r1 = r1
    r2 = r2
    v0 = v0
    v1 = v1
    v2 = v2
    NoRequest = NoRequest
    EthRequests = {r1}
    RequestIds = {r1}
    Validators = {v0, v1}
    Self = v0
    Peers = {v1}
    Admins = {v0, v1}
    TokenPair <- AllApproved
    StoreReadsFail = FALSE
    MaxCopies = 2
    BftCoefficient = 2
    ContractBft = 2
    EthStart = 4
    MaxEthHeight = 7
    MaxReorg = 1
    ContractTimeout = 3
    BlockInterval = 1
    RqTimeout = 3
PROPERTIES
    QuorumIsSubmitted
