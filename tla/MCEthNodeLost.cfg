\* Two requests, of which one makes the signer panic; lookups whose error is
\* ignored fail, and rows are inserted twice.
SPECIFICATION Spec
CONSTANTS
    r1 = r1
    r2 = r2
    v0 = v0
    v1 = v1
    v2 = v2
    NoRequest = NoRequest
    EthRequests = {r1, r2}
    RequestIds = {r1, r2}
    Validators = {v0, v1}
    Self = v0
    Peers = {v1}
    Admins = {v0, v1}
    TokenPair <- OnePanics
    StoreReadsFail = TRUE
    MaxCopies = 2
    BftCoefficient = 2
    ContractBft = 2
    EthStart = 3
    MaxEthHeight = 7
    MaxReorg = 0
    ContractTimeout = 2
    BlockInterval = 1
    RqTimeout = 2
INVARIANTS
    SuccessHasQuorum
PROPERTIES
    MirrorSpec
