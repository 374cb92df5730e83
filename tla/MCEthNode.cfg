\* One request that reaches its deadline, two peers of which one is no admin,
\* reorganisations and restarts.
SPECIFICATION Spec
CONSTANTS
    r1 = r1
    r2 = r2
    v0 = v0
    v1 = v1
    v2 = v2
    NoRequest = NoRequest
    EthRequests = {r1}
    RequestIds = {r1}
    Validators = {v0, v1, v2}
    Self = v0
    Peers = {v1, v2}
    Admins = {v0, v1}
    TokenPair <- AllApproved
    StoreReadsFail = FALSE
    MaxCopies = 2
    BftCoefficient = 2
    ContractBft = 2
    EthStart = 3
    MaxEthHeight = 7
    MaxReorg = 1
    ContractTimeout = 2
    BlockInterval = 1
    RqTimeout = 2
INVARIANTS
    TypeOK
    OneSignPerValidator
    QuorumIsReal
    SuccessHasQuorum
